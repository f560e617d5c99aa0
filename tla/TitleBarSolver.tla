--------------------------- MODULE TitleBarSolver ---------------------------
(***************************************************************************)
(* solve_title_bar_layout(): the layout the coordinator applies.  The      *)
(* windows below the active one are taken in z-order, and each is put one  *)
(* step up and left of the one before it, until one cannot be.  What was   *)
(* placed before that stays: a partial layout.                             *)
(*                                                                         *)
(* A call works on a copy of its snapshot.  Calls follow each other the    *)
(* way reconciles do, each on the layout the call before left behind; the  *)
(* desktop changing in between is Coordinator's, and here a new beginning. *)
(***************************************************************************)
EXTENDS TitleBar, FiniteSets, Sequences

CONSTANTS
  Snapshots,   (* what the first call may be given: [windows, active]       *)
  MoveLimits,  (* SolverLimits::maximumMoves                                *)
  NativeLimit, (* coordinates are between -NativeLimit - 1 and NativeLimit  *)
  MaxCalls     (* bound: calls that follow each other                       *)

ASSUME SolverAssumption ==
  /\ \A s \in Snapshots :
       /\ s.windows \in Seq(LayoutWindow)
       /\ s.active \in DOMAIN s.windows
  /\ MoveLimits \subseteq Nat
  /\ NativeLimit \in Nat /\ MaxCalls \in Nat

VARIABLES
  active,   (* the index of the active window                              *)
  given,    (* the snapshot of this call: initial                          *)
  limit,    (* policy.limits.maximumMoves                                  *)
  pc,       (* "called", "arranging" or "answered"                         *)
  arranged, (* result.finalSnapshot                                        *)
  accepted, (* the targets placed, acceptedPrefixCount of them             *)
  anchor,   (* the rectangle the next target is placed from                *)
  moves,    (* result.moves                                                *)
  reason,   (* result.stopReason                                           *)
  status,   (* result.status                                               *)
  calls,    (* so far                                                      *)
  before    (* how the call before this one ended; observed only           *)

question == <<active, given, limit>>
vars == <<active, given, limit, pc, arranged, accepted, anchor, moves, reason, status,
          calls, before>>

(* SolveStatus; the last two are answers of the other solvers.             *)
Statuses == {"Solved", "PartiallySolved", "NoViolation", "Unsatisfiable", "InvalidSnapshot",
             "GeometryTooComplex", "Timeout"}
Reasons == {"none", "staircase_outside_work_area", "staircase_blocked", "window_fixed",
            "move_limit"}
Move == [window : Nat, from : Rect, to : Rect]
NoEnd == [reason |-> "none", accepted |-> {}]

(* native_rect().                                                          *)
Native(r) ==
  /\ ~ Empty(r)
  /\ - NativeLimit - 1 <= r.left /\ r.right <= NativeLimit
  /\ - NativeLimit - 1 <= r.top /\ r.bottom <= NativeLimit
  /\ Width(r) <= NativeLimit /\ Height(r) <= NativeLimit

(* What the solver works on; anything else is answered InvalidSnapshot.    *)
Solvable(windows) ==
  /\ \A i \in DOMAIN windows : /\ Native(windows[i].visual)
                               /\ Native(windows[i].place)
                               /\ Native(windows[i].work)
  /\ ScanOk(windows)

(* The windows the staircase is built of, nearest first.                   *)
Targets == Judged(given) \ {active}
Nearer(i, j) == \/ given[i].z < given[j].z
                \/ given[i].z = given[j].z /\ i < j
(* The active window is placed as well (mutant).                           *)
LeftWithActive == Judged(given) \ accepted

Left == Targets \ accepted

IsNext(i) == i \in Left /\ \A j \in Left \ {i} : Nearer(i, j)

Step(w) == (3 * Upper(1, w.bar) + 1) \div 2

(* The spacing taken from where the window was (mutant).                   *)
DesiredFromOldPlace(w) == Elsewhere(w, - Step(w), - Step(w))

(* A window moved so that it is painted a step up and left of the anchor.  *)
Desired(w) ==
  Elsewhere(w, anchor.left - Step(w) - w.visual.left, anchor.top - Step(w) - w.visual.top)

(* Only the title of the placed window is looked at (mutant).              *)
SafeForItself(windows, i) == Satisfied(windows, i)

(* accept(): the title of the window and of every managed window above it  *)
(* can be recognised.                                                      *)
Safe(windows, i) ==
  /\ Satisfied(windows, i)
  /\ \A j \in DOMAIN windows \ {i} :
       windows[j].managed /\ windows[j].z <= windows[i].z => Satisfied(windows, j)

Init ==
  /\ \E s \in Snapshots : given = s.windows /\ active = s.active
  /\ limit \in MoveLimits
  /\ pc = "called" /\ arranged = given /\ accepted = {} /\ moves = <<>>
  /\ anchor = given[active].visual
  /\ reason = "none" /\ status = "InvalidSnapshot"
  /\ calls = 1 /\ before = NoEnd

Refuse ==
  /\ pc = "called"
  /\ ~ Solvable(given)
  /\ pc' = "answered"
  /\ UNCHANGED <<question, arranged, accepted, anchor, moves, reason, status, calls, before>>

Begin ==
  /\ pc = "called"
  /\ Solvable(given)
  /\ pc' = "arranging"
  /\ UNCHANGED <<question, arranged, accepted, anchor, moves, reason, status, calls, before>>

(* finish(): the status says what is left unreadable and whether there is  *)
(* anything to do about the rest.                                          *)
Answer(why) ==
  /\ pc' = "answered"
  /\ reason' = why
  /\ status' = IF Violations(arranged) = {}
               THEN IF moves = <<>> THEN "NoViolation" ELSE "Solved"
               ELSE IF moves = <<>> THEN "Unsatisfiable" ELSE "PartiallySolved"
  /\ UNCHANGED <<question, arranged, accepted, anchor, moves, calls, before>>

Fits(i) == ContainsRect(arranged[i].work, Desired(arranged[i]).place)
Stays(i) == Desired(arranged[i]).place = arranged[i].place
Acceptable(i) ==
  /\ arranged[i].movable \/ Stays(i)
  /\ Safe([arranged EXCEPT ![i] = Desired(@)], i)

OutsideWorkArea ==
  /\ pc = "arranging"
  /\ \E i \in Left : IsNext(i) /\ ~ Fits(i)
  /\ Answer("staircase_outside_work_area")

Blocked ==
  /\ pc = "arranging"
  /\ \E i \in Left :
       /\ IsNext(i) /\ Fits(i) /\ ~ Acceptable(i)
       /\ Answer(IF arranged[i].movable THEN "staircase_blocked" ELSE "window_fixed")

(* The window that is one too many stays where the trial put it (mutant).  *)
OverLimitKeepingTrial ==
  /\ pc = "arranging"
  /\ \E i \in Left :
       /\ IsNext(i) /\ Fits(i) /\ Acceptable(i) /\ ~ Stays(i)
       /\ Len(moves) >= limit
       /\ pc' = "answered" /\ reason' = "move_limit" /\ status' = "PartiallySolved"
       /\ arranged' = [arranged EXCEPT ![i] = Desired(@)]
       /\ UNCHANGED <<question, accepted, anchor, moves, calls, before>>

(* maximumMoves is used up: the window is put back.                        *)
OverLimit ==
  /\ pc = "arranging"
  /\ \E i \in Left :
       IsNext(i) /\ Fits(i) /\ Acceptable(i) /\ ~ Stays(i) /\ Len(moves) >= limit
  /\ Answer("move_limit")

Place ==
  /\ pc = "arranging"
  /\ \E i \in Left :
       /\ IsNext(i) /\ Fits(i) /\ Acceptable(i)
       /\ Stays(i) \/ Len(moves) < limit
       /\ arranged' = [arranged EXCEPT ![i] = Desired(@)]
       /\ accepted' = accepted \cup {i}
       /\ anchor' = arranged'[i].visual
       /\ moves' = IF Stays(i) THEN moves
                   ELSE Append(moves, [window |-> i, from |-> arranged[i].place,
                                       to |-> arranged'[i].place])
  /\ UNCHANGED <<question, pc, reason, status, calls, before>>

Complete ==
  /\ pc = "arranging"
  /\ Left = {}
  /\ Answer("none")

(* A reconcile captures the layout the call before left behind.            *)
Reconcile ==
  /\ pc = "answered" /\ status # "InvalidSnapshot"
  /\ calls < MaxCalls
  /\ calls' = calls + 1
  /\ before' = [reason |-> reason, accepted |-> accepted]
  /\ given' = arranged
  /\ pc' = "called" /\ accepted' = {} /\ moves' = <<>>
  /\ anchor' = arranged[active].visual
  /\ reason' = "none" /\ status' = "InvalidSnapshot"
  /\ UNCHANGED <<active, limit, arranged>>

Next == Refuse \/ Begin \/ OutsideWorkArea \/ Blocked \/ OverLimit \/ Place \/ Complete
        \/ Reconcile

Spec == Init /\ [][Next]_vars
-----------------------------------------------------------------------------
TypeOK ==
  /\ given \in Seq(LayoutWindow)
  /\ arranged \in Seq(LayoutWindow) /\ Len(arranged) = Len(given)
  /\ active \in DOMAIN given
  /\ limit \in MoveLimits
  /\ pc \in {"called", "arranging", "answered"}
  /\ accepted \subseteq Targets
  /\ anchor \in Rect
  /\ moves \in Seq(Move)
  /\ reason \in Reasons /\ status \in Statuses
  /\ calls \in Nat

(* Every window the staircase has got to, the active one and every other   *)
(* managed window above them show the whole required part of their title   *)
(* bar, pixel by pixel, also when the layout stops half-way.               *)
AcceptedAreShown ==
  \A i \in accepted : \A j \in DOMAIN arranged :
    arranged[j].managed /\ arranged[j].z <= arranged[i].z => TitleShown(arranged, j)

(* The plan is the difference of the two layouts: a window is elsewhere    *)
(* exactly if one move takes it there, from where it was; no more moves    *)
(* than allowed, none of the active window or of a fixed one, none off the *)
(* work area, none that changes a size or the frame around it.             *)
PlanExplainsLayout ==
  /\ Len(moves) <= limit
  /\ \A m, n \in DOMAIN moves : moves[m].window = moves[n].window => m = n
  /\ \A m \in DOMAIN moves :
       LET i == moves[m].window IN
       /\ i \in Targets /\ given[i].movable
       /\ moves[m].from = given[i].place /\ moves[m].to = arranged[i].place
       /\ FullyWithin(moves[m].to, given[i].work)
  /\ \A i \in DOMAIN given :
       \/ arranged[i] = given[i]
       \/ /\ \E m \in DOMAIN moves : moves[m].window = i
          /\ \E dx, dy \in -(2 * NativeLimit)..(2 * NativeLimit) :
               arranged[i] = Elsewhere(given[i], dx, dy)

(* A reconcile of the layout a call has left behind moves nothing and gets *)
(* as far as that call did; after a call that ran out of moves it gets     *)
(* further.  Windows never wander.                                         *)
ReconcileSettles ==
  pc = "answered" /\ calls > 1 =>
    /\ before.reason # "move_limit" => moves = <<>> /\ accepted = before.accepted
    /\ before.reason = "move_limit" =>
         /\ before.accepted \subseteq accepted
         /\ limit > 0 => before.accepted # accepted

(* What README.md says: a partial layout hides no title that could be      *)
(* recognised before.                                                      *)
NothingRecognisableIsHidden ==
  pc = "answered" => \A i \in Judged(given) : Satisfied(given, i) => Satisfied(arranged, i)
=============================================================================
