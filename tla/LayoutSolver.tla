---------------------------- MODULE LayoutSolver ----------------------------
(***************************************************************************)
(* The solvers of src/solver/layout_solver.h behind one question: a        *)
(* snapshot, an active window, limits and a goal.                          *)
(*                                                                         *)
(*   search       solve_layout(): depth first over the places of the       *)
(*                nearest window that cannot be recognised, then one pass  *)
(*                that uses spare space                                    *)
(*   incremental  solve_layout_incrementally(): one window after the       *)
(*                other, each by a search of its own                       *)
(*   prioritized  solve_layout_prioritized(): staircases in several        *)
(*                directions or, for the title bar goal, TitleBarSolver    *)
(*                                                                         *)
(* A solver runs on one thread and reads the clock at its loops: where it  *)
(* does, the time may have run out.  A hash of a layout is the layout.     *)
(***************************************************************************)
EXTENDS TitleBarSolver, Candidates

CONSTANT
  Asked  (* what may be called; force is forcePreferredStaircase, states   *)
         (* maximumStates and candidates maximumCandidatesPerViolation     *)

ASSUME AskedAssumption ==
  Asked \subseteq [method : {"search", "incremental", "prioritized"}, goal : Goals,
                      force : BOOLEAN, states : Nat \ {0}, candidates : Nat \ {0}]

(* The positions a policy remembers are rectangles.                        *)
ASSUME StableAssumption ==
  \A s \in Snapshots : \A i \in DOMAIN s.windows : Stable[i] \in Rect

(* collect_z_order() numbers the windows; one that is not in it is at -1.  *)
ASSUME LayersAssumption ==
  \A s \in Snapshots : \A i, j \in DOMAIN s.windows :
    0 <= s.windows[i].z /\ s.windows[i].z = s.windows[j].z => i = j

VARIABLES
  ask,      (* one of Asked                                                *)
  stage,    (* what the solver is at                                       *)
  problem,  (* the snapshot of the running search: initial                 *)
  allowed,  (* and its maximumMoves                                        *)
  stack,    (* its SearchNodes, [windows, moves]                           *)
  visited,  (* the layouts it has put on the stack                         *)
  cut,      (* not everything was looked at                                *)
  node,     (* the layout that is being enhanced, or was last popped       *)
  todo,     (* the windows the enhancement has not come to                 *)
  states,   (* statesVisited                                               *)
  outer,    (* the incremental solver's [windows, moves, seen]             *)
  chosen,   (* the staircase's selected windows                            *)
  attempt   (* and its last round, [windows, violations, rounds]           *)

search == <<problem, allowed, stack, visited, cut, node, todo, states>>
solver == <<stage, search, outer, chosen, attempt>>
title == <<pc, accepted, anchor, reason, calls, before>>
everything == <<vars, ask, solver>>

goal == ask.goal
MaximumStates == ask.states
ByTitle == ask.method = "prioritized" /\ goal = "TitleBarLeftHalf"
Forced == ask.force /\ goal = "AnyRecognizableEdge"
Nobody == [windows |-> <<>>, moves |-> <<>>]

(* target_priority_less(): the nearest of some windows.                    *)
Nearest(S) == CHOOSE i \in S : \A j \in S \ {i} : Nearer(i, j)

(* A move of window i by an offset, as a MovePlan.                         *)
Moving(windows, i, d) ==
  [window |-> i, from |-> windows[i].place, to |-> Translated(windows[i].place, d[1], d[2])]

(* terminal_result() of the whole call.                                    *)
Answered(result, windows, plan) ==
  /\ status' = result /\ arranged' = windows /\ moves' = plan
  /\ pc' = "answered" /\ stage' = "done"
  /\ UNCHANGED <<question, ask, accepted, anchor, reason, calls, before, search, outer,
                 chosen, attempt>>

(* best_effort_result(): what was moved stays if it can be analysed.       *)
Kept(windows, plan, scan) ==
  IF scan.status # "Ok" THEN Answered(scan.status, given, <<>>)
  ELSE Answered(IF scan.violations = {} THEN "Solved" ELSE "PartiallySolved", windows, plan)

BestEffort(failure) ==
  IF outer.moves = <<>> THEN Answered(failure, given, <<>>)
  ELSE Kept(outer.windows, outer.moves, Scan(outer.windows, goal))

(* terminal_result() of a search: of the call, or for the incremental      *)
(* solver that made it.                                                    *)
Found(result, windows, plan) ==
  IF ask.method = "search" THEN Answered(result, windows, plan)
  ELSE /\ stage' = "found"
       /\ node' = [windows |-> windows, moves |-> plan]
       /\ status' = result
       /\ UNCHANGED <<question, ask, title, arranged, moves, problem, allowed, stack,
                      visited, cut, todo, states, outer, chosen, attempt>>

NotFound(result) == Found(result, problem, <<>>)
-----------------------------------------------------------------------------
(* What all solvers do first: limits, a scan of the snapshot, and who is   *)
(* to go on.                                                               *)
StartSearch(windows, maximum) ==
  /\ stage' = "searching"
  /\ problem' = windows /\ allowed' = maximum
  /\ stack' = <<[windows |-> windows, moves |-> <<>>]>>
  /\ visited' = {windows}
  /\ cut' = FALSE /\ node' = Nobody /\ todo' = {}
  /\ UNCHANGED <<question, ask, title, arranged, moves, status, chosen, attempt>>

Dispatch(violations) ==
  \/ /\ ask.method = "search"
     /\ StartSearch(given, limit) /\ UNCHANGED <<states, outer>>
  \/ /\ ask.method = "incremental" /\ violations # {}
     /\ stage' = "stepping"
     /\ outer' = [windows |-> given, moves |-> <<>>, seen |-> {given}]
     /\ UNCHANGED <<question, ask, title, arranged, moves, status, search, chosen, attempt>>
  \/ /\ ask.method = "prioritized" /\ (violations # {} \/ Forced) /\ MaximumStates > 1
     /\ stage' = "climbing"
     /\ chosen' = violations \cup (IF Forced THEN Targets ELSE {})
     /\ UNCHANGED <<question, ask, title, arranged, moves, status, search, outer, attempt>>
  \/ /\ ask.method = "prioritized" /\ (violations # {} \/ Forced) /\ MaximumStates = 1
     /\ Answered("Timeout", given, <<>>)
  \/ /\ ask.method # "search" /\ violations = {} /\ ~ (ask.method = "prioritized" /\ Forced)
     /\ Answered("NoViolation", given, <<>>)

OpenWith(scan) ==
  IF limit = 0 THEN Answered("InvalidSnapshot", given, <<>>)
  ELSE IF scan.status # "Ok" THEN Answered(scan.status, given, <<>>)
  ELSE Dispatch(scan.violations)

Open ==
  /\ ~ ByTitle
  /\ pc = "called" /\ stage = "idle"
  /\ OpenWith(Scan(given, goal))
-----------------------------------------------------------------------------
(* The depth-first search.                                                 *)

SearchTimesOut ==
  /\ stage = "searching" /\ stack # <<>>
  /\ Scan(problem, goal).violations # {}
  /\ NotFound("Timeout")

(* No place is left: for good, or only of those that were looked at.       *)
Exhausted ==
  /\ stage = "searching" /\ stack = <<>>
  /\ NotFound(IF cut THEN "Timeout" ELSE "Unsatisfiable")

(* The furthest window first (mutant).                                     *)
PriorityFurthest(violations) ==
  CHOOSE i \in violations : \A j \in violations \ {i} : Nearer(j, i)

(* select_priority_violation().                                            *)
Priority(violations) == Nearest(violations)

Branches == 4

(* In the order a violation lists them.                                    *)
BlockerOrder(windows, i) ==
  SetToSortSeq(Blockers(windows, i),
               LAMBDA j, k : IF goal = "TitleBarLeftHalf" \/ windows[j].z = windows[k].z
                             THEN j < k ELSE windows[j].z < windows[k].z)

(* The best places that are new become nodes, the best one on top.         *)
Branch(top, target, truncated, places) ==
  LET fresh == {a \in places : Shifted(top.windows, target, a.offset) \notin visited}
      wanted == Lower(Branches, Cardinality(fresh))
      room == MaximumStates - Cardinality(visited)
      best == BestFirst(fresh, Lower(wanted, room))
      children == [k \in DOMAIN best |->
                     [windows |-> Shifted(top.windows, target, best[k].offset),
                      moves |-> Append(top.moves, Moving(top.windows, target, best[k].offset))]]
  IN /\ stack' = Front(stack) \o Reverse(children)
     /\ visited' = visited \cup {children[k].windows : k \in DOMAIN children}
     /\ cut' = (cut \/ truncated \/ wanted > room)
     /\ UNCHANGED <<question, ask, title, arranged, moves, status, stage, problem, allowed,
                    node, todo, states, outer, chosen, attempt>>

BranchRanked(top, target, truncated, ranked) ==
  IF ranked.status # "Ok" THEN NotFound(ranked.status)
  ELSE Branch(top, target, truncated, ranked.accepted)

Expand(top, target, candidates) ==
  IF candidates.status = "InvalidInput" THEN NotFound("InvalidSnapshot")
  ELSE BranchRanked(top, target, candidates.status = "Truncated",
                    Ranked(top.windows, target, candidates.offsets, active, FALSE, goal))

(* One SearchNode: nothing is left to do, the moves are used up, or its    *)
(* nearest window is tried in its best places.                             *)
Visit(top, scan) ==
  \/ scan.status # "Ok" /\ NotFound(scan.status)
  \/ /\ scan.status = "Ok" /\ scan.violations = {}
     /\ stage' = "enhancing" /\ node' = top
     /\ states' = Cardinality(visited)
     /\ todo' = {i \in Targets : top.windows[i].managed /\ top.windows[i].movable}
     /\ UNCHANGED <<question, ask, title, arranged, moves, status, problem, allowed,
                    stack, visited, cut, outer, chosen, attempt>>
  \/ /\ scan.status = "Ok" /\ scan.violations # {} /\ Len(top.moves) >= allowed
     /\ stack' = Front(stack)
     /\ UNCHANGED <<question, ask, title, arranged, moves, status, stage, problem, allowed,
                    visited, cut, node, todo, states, outer, chosen, attempt>>
  \/ /\ scan.status = "Ok" /\ scan.violations # {} /\ Len(top.moves) < allowed
     /\ \E target \in {Priority(scan.violations)} :
          Expand(top, target, Candidates(top.windows, target,
                                         BlockerOrder(top.windows, target), goal,
                                         ask.candidates))

Pop ==
  /\ stage = "searching" /\ stack # <<>>
  /\ \E top \in {stack[Len(stack)]} : Visit(top, Scan(top.windows, goal))
-----------------------------------------------------------------------------
(* enhance_visibility(): windows that have not been moved yet may still go *)
(* where more of them can be seen, if every title stays recognisable.      *)

EnhancementEnds ==
  /\ stage = "enhancing"
  /\ Found(IF node.moves = <<>> THEN "NoViolation" ELSE "Solved", node.windows, node.moves)

(* The best place, if it frees at least a twentieth of the window.         *)
WorthIt(w, hidden, ranked) ==
  {best \in ranked.accepted :
     /\ best = Best(ranked.accepted) /\ best.offset # <<0, 0>>
     /\ Upper(0, hidden - Hidden(best.cost)) >= (Width(w.visual) * Height(w.visual) + 19) \div 20}

Improvement(windows, i, hidden, candidates) ==
  IF hidden = 0 \/ candidates.status # "Ok" \/ Len(node.moves) >= allowed THEN {}
  ELSE WorthIt(windows[i], hidden,
               Ranked(windows, i, candidates.offsets, active, TRUE, goal))

EnhanceOne(windows, i, seen) ==
  /\ todo' = IF seen.ok /\ seen.sized THEN todo \ {i} ELSE {}
  /\ \E better \in
       {IF seen.ok /\ seen.sized
        THEN Improvement(windows, i, Width(windows[i].visual) * Height(windows[i].visual) - seen.area,
                         Candidates(windows, i, SetToSortSeq(Blockers(windows, i), <), goal,
                                    ask.candidates))
        ELSE {}} :
       \/ better = {} /\ UNCHANGED <<node, states>>
       \/ \E best \in better :
            /\ node' = [windows |-> Shifted(windows, i, best.offset),
                        moves |-> Append(node.moves, Moving(windows, i, best.offset))]
            /\ states' = states + 1

Enhance ==
  /\ stage = "enhancing" /\ todo # {} /\ states < MaximumStates
  /\ \E i \in {Nearest(todo)} :
       IF \E m \in DOMAIN node.moves : node.moves[m].window = i
       THEN todo' = todo \ {i} /\ UNCHANGED <<node, states>>
       ELSE EnhanceOne(node.windows, i, Analysis(node.windows, i, goal))
  /\ UNCHANGED <<question, ask, title, arranged, moves, status, stage, problem, allowed,
                 stack, visited, cut, outer, chosen, attempt>>
-----------------------------------------------------------------------------
(* The incremental solver.                                                 *)

(* The snapshot of a local search: only the target is managed.             *)
Local(windows, i) ==
  [j \in DOMAIN windows |->
     [windows[j] EXCEPT !.managed = (j = i), !.movable = (j = i /\ windows[j].movable)]]

StepWith(scan) ==
  \/ scan.status # "Ok" /\ Answered(scan.status, given, <<>>)
  \/ /\ scan.status = "Ok" /\ scan.violations = {}
     /\ Answered("Solved", outer.windows, outer.moves)
  \/ /\ scan.status = "Ok" /\ scan.violations # {}
     /\ \E target \in {Priority(scan.violations)} :
          IF target = active THEN BestEffort("Unsatisfiable")
          ELSE StartSearch(Local(outer.windows, target), 1) /\ UNCHANGED <<states, outer>>

StepNext ==
  /\ stage = "stepping"
  /\ IF Len(outer.moves) >= limit THEN BestEffort("Unsatisfiable")
     ELSE StepWith(Scan(outer.windows, goal))

(* The place a local search has found is taken over, unless the layout has *)
(* been there before.                                                      *)
StepTaken ==
  /\ stage = "found"
  /\ LET target == node.moves[1].window
         windows == [outer.windows EXCEPT ![target].place = node.windows[target].place,
                                          ![target].visual = node.windows[target].visual]
     IN IF status # "Solved" \/ Len(node.moves) # 1
        THEN BestEffort(IF status = "NoViolation" THEN "Unsatisfiable" ELSE status)
        ELSE /\ outer' = [windows |-> windows, moves |-> outer.moves \o node.moves,
                          seen |-> outer.seen \cup {windows}]
             /\ stage' = IF windows \in outer.seen \/ Cardinality(outer.seen) >= MaximumStates
                         THEN "stuck" ELSE "stepping"
             /\ UNCHANGED <<question, ask, title, arranged, moves, status, search, chosen, attempt>>

StepStuck == stage = "stuck" /\ BestEffort("Timeout")
-----------------------------------------------------------------------------
(* The staircases of solve_layout_prioritized().                           *)

StairDirections ==
  IF goal = "TopAndSide" THEN <<"TopLeft", "TopRight">>
  ELSE <<"TopLeft", "TopRight", "Left", "Right", "Bottom">>

(* staircase_placement(): the window one strip beyond the anchor.          *)
Stair(w, from, direction) ==
  LET top == Depth(w, "Top", goal)
      above == from.top - (top + top \div 2 + (top % 2))
      left == from.left - Depth(w, "Left", goal)
      right == from.right + Depth(w, "Right", goal) - Width(w.visual)
      to == CASE direction = "TopLeft"  -> <<left, above>>
              [] direction = "TopRight" -> <<right, above>>
              [] direction = "Left"     -> <<left, from.top>>
              [] direction = "Right"    -> <<right, from.top>>
              [] direction = "Bottom"   ->
                   <<from.left, from.bottom + Depth(w, "Bottom", goal) - Height(w.visual)>>
      dx == to[1] - w.visual.left
      dy == to[2] - w.visual.top
  IN Elsewhere(w, dx, dy)

(* A new direction starts at the active window, beyond what is occupied.   *)
Turned(w, direction, occupied) ==
  LET r == given[active].visual
  IN CASE direction = "TopLeft"  -> r
       [] direction = "TopRight" -> [r EXCEPT !.right = occupied.right + Length(w, "Top")]
       [] direction = "Left"     -> [r EXCEPT !.left = occupied.left]
       [] direction = "Right"    -> [r EXCEPT !.right = occupied.right]
       [] direction = "Bottom"   -> [r EXCEPT !.bottom = occupied.bottom]

Around(r, s) ==
  R(Lower(r.left, s.left), Lower(r.top, s.top), Upper(r.right, s.right), Upper(r.bottom, s.bottom))

(* One window of a round: in the present direction if it fits, else in the *)
(* next one in which it does; moves are counted, and the first window that *)
(* cannot be placed ends the round.                                        *)
ClimbOne(c, i) ==
  LET w == given[i]
      Try(k) == Stair(w, IF k = c.direction THEN c.anchor
                         ELSE Turned(w, StairDirections[k], c.occupied), StairDirections[k])
      fitting == {k \in c.direction..Len(StairDirections) : FullyWithin(Try(k).place, w.work)}
      to == Try(Min(fitting))
  IN IF c.failed \/ i \notin chosen THEN c
     ELSE IF ~ w.movable \/ fitting = {} \/ (to.place # w.place /\ c.planned >= limit)
     THEN [c EXCEPT !.failed = TRUE]
     ELSE [c EXCEPT !.windows[i] = to, !.anchor = to.visual,
                    !.occupied = Around(@, to.visual), !.direction = Min(fitting),
                    !.planned = @ + (IF to.place # w.place THEN 1 ELSE 0)]

Round ==
  LET start == given[active].visual
  IN MapThenFoldSet(
       LAMBDA i, c : ClimbOne(c, i),
       [windows |-> given, anchor |-> start, occupied |-> start, direction |-> 1,
        failed |-> FALSE, planned |-> 0],
       LAMBDA i : i, LAMBDA S : CHOOSE i \in S : \A j \in S \ {i} : Nearer(j, i), Targets)

(* staircase_moves().                                                      *)
Plan(windows) ==
  LET changed == {i \in Targets : windows[i].place # given[i].place}
  IN MapThenFoldSet(
       LAMBDA i, plan : Append(plan, [window |-> i, from |-> given[i].place,
                                      to |-> windows[i].place]),
       <<>>, LAMBDA i : i, LAMBDA S : CHOOSE i \in S : \A j \in S \ {i} : Nearer(j, i), changed)

(* improves_priority(): something is moved, and the nearest window that    *)
(* could not be recognised can be now, or fewer cannot.                    *)
Improves(windows, violations, first) ==
  /\ Plan(windows) # <<>>
  /\ \/ first # {} /\ Priority(first) \notin violations
     \/ Cardinality(violations) < Cardinality(first)

(* What becomes of a staircase that is not complete.                       *)
Settled(windows, violations, first, failures) ==
  IF Improves(windows, violations, first)
  THEN Answered("PartiallySolved", windows, Plan(windows))
  ELSE \E failure \in failures : Answered(failure, given, <<>>)

Settle(windows, scan, failures) ==
  IF scan.status # "Ok" THEN Answered(scan.status, given, <<>>)
  ELSE Settled(windows, scan.violations, Scan(given, goal).violations, failures)

(* From the nearest window that cannot be recognised on, nothing is moved. *)
RolledBack(windows, violations) ==
  [i \in DOMAIN windows |->
     IF i \in Targets /\ windows[i].z >= windows[Priority(violations)].z
     THEN given[i] ELSE windows[i]]

(* What is not recognised after a round, with what covers it, is chosen    *)
(* for the next one.                                                       *)
Unchosen(windows, violations) ==
  {i \in UNION {{v} \cup Blockers(windows, v) : v \in violations} :
     i # active /\ given[i].managed /\ given[i].movable} \ chosen

ClimbTo(round, scan) ==
  LET more == Unchosen(round.windows, scan.violations)
      ends == round.failed \/ more = {}
      failures == {"Timeout"} \cup IF attempt.rounds + 2 >= MaximumStates THEN {}
                                  ELSE {"Unsatisfiable"}
  IN \/ scan.status # "Ok" /\ Answered(scan.status, given, <<>>)
     \/ /\ scan.status = "Ok" /\ scan.violations = {} /\ ~ round.failed
        /\ Answered("Solved", round.windows, Plan(round.windows))
     \/ /\ scan.status = "Ok" /\ scan.violations = {} /\ round.failed
        /\ Settle(round.windows, scan, failures)
     \/ /\ scan.status = "Ok" /\ scan.violations # {} /\ ends
        /\ \E kept \in {RolledBack(round.windows, scan.violations)} :
             Settle(kept, Scan(kept, goal), failures)
     \/ /\ scan.status = "Ok" /\ scan.violations # {} /\ ~ ends
        /\ chosen' = chosen \cup more
        /\ attempt' = [windows |-> round.windows, violations |-> scan.violations,
                       rounds |-> attempt.rounds + 1]
        /\ UNCHANGED <<question, ask, title, arranged, moves, status, stage, search, outer>>

(* A closure round.                                                        *)
Climb ==
  /\ stage = "climbing"
  /\ attempt.rounds < MaximumStates - 1 /\ attempt.rounds <= Cardinality(Targets)
  /\ \E round \in {Round} : ClimbTo(round, Scan(round.windows, goal))

(* Out of states or of time, before the first round or between two.        *)
ClimbStops ==
  /\ stage = "climbing"
  /\ Settle(attempt.windows, [Clear EXCEPT !.violations = attempt.violations], {"Timeout"})
-----------------------------------------------------------------------------
SolverInit ==
  /\ Init
  /\ ask \in Asked
  /\ stage = "idle"
  /\ problem = given /\ allowed = limit
  /\ stack = <<>> /\ visited = {} /\ cut = FALSE
  /\ node = Nobody /\ todo = {} /\ states = 1
  /\ outer = [windows |-> given, moves |-> <<>>, seen |-> {}]
  /\ chosen = {} /\ attempt = [windows |-> given, violations |-> {}, rounds |-> 0]

ArrangeTitles == ByTitle /\ Next /\ UNCHANGED <<ask, solver>>

(* Nothing is asked any more; a call that is open always goes on.          *)
Rest == pc = "answered" /\ UNCHANGED everything

SolverNext ==
  \/ ArrangeTitles \/ Open
  \/ SearchTimesOut \/ Exhausted \/ Pop \/ EnhancementEnds \/ Enhance
  \/ StepNext \/ StepTaken \/ StepStuck
  \/ Climb \/ ClimbStops
  \/ Rest

SolverSpec == SolverInit /\ [][SolverNext]_everything
-----------------------------------------------------------------------------
(* Whatever method found it, a layout that is answered as solved lets the  *)
(* user recognise every window in the way that was asked for, pixel by     *)
(* pixel: the regions, candidates and costs only help to find it.          *)
SolvedIsRecognisable ==
  pc = "answered" /\ status \in {"Solved", "NoViolation"} =>
    \A i \in Judged(arranged) : Recognisable(arranged, i, goal)

(* The search fixes one layer of the z-order after the other: on every     *)
(* layout it still has to look at, the windows down to the one moved last  *)
(* can be recognised, so no layer is ever visited twice.                   *)
UpperLayersStayFixed ==
  stage = "searching" =>
    \A n \in DOMAIN stack :
      LET windows == stack[n].windows
          plan == stack[n].moves
      IN plan # <<>> =>
           \A j \in Judged(windows) :
             windows[j].z <= windows[plan[Len(plan)].window].z => Recognisable(windows, j, goal)
=============================================================================
