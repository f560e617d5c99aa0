----------------------------- MODULE Candidates -----------------------------
(***************************************************************************)
(* Where a window could go and which place is best:                        *)
(* src/solver/candidate_generator.cpp and candidate_ranker.cpp.  A         *)
(* candidate is an offset; what it was derived from is only reported.      *)
(***************************************************************************)
EXTENDS Visibility, Sequences, SequencesExt

CONSTANTS
  Stable,            (* lastStableRect of each window index                *)
  Preferred          (* preferredEdge, or "none"                           *)

(* std::midpoint(), which rounds towards its first argument.               *)
Midpoint(a, b) == IF a <= b THEN a + (b - a) \div 2 ELSE a - (a - b) \div 2

(* add_candidate() and add_offset() pass over what is there already.       *)
Distinct(s) ==
  LET first == SelectSeq([k \in DOMAIN s |-> k], LAMBDA k : \A j \in 1..(k - 1) : s[j] # s[k])
  IN [k \in DOMAIN first |-> s[first[k]]]

(* Offsets that put a strip of the window outside a blocker, or all of it. *)
XOffsets(w, b, goal) ==
  <<b.left - Depth(w, "Left", goal) - w.visual.left,
    b.right + Depth(w, "Right", goal) - w.visual.right,
    b.left - w.visual.right, b.right - w.visual.left>>
YOffsets(w, b, goal) ==
  <<b.top - Depth(w, "Top", goal) - w.visual.top,
    b.bottom + Depth(w, "Bottom", goal) - w.visual.bottom,
    b.top - w.visual.bottom, b.bottom - w.visual.top>>

(* The two corners of a blocker and points between them and the corners of *)
(* the work area.                                                          *)
CornerOffsets(w, b, goal) ==
  LET x == XOffsets(w, b, goal)
      y == YOffsets(w, b, goal)[1]
      Spread(edge, workX, workY) == <<Midpoint(edge, workX), Midpoint(y, workY)>>
      left == w.work.left - w.place.left
      right == w.work.right - w.place.right
      top == w.work.top - w.place.top
      bottom == w.work.bottom - w.place.bottom
  IN <<<<x[1], y>>, <<x[2], y>>, Spread(x[1], left, top), Spread(x[1], left, bottom),
       Spread(x[2], right, top), Spread(x[2], right, bottom)>>

(* One axis alone, then both.                                              *)
Combined(xs, ys) ==
  [k \in DOMAIN xs |-> <<xs[k], 0>>] \o [k \in DOMAIN ys |-> <<0, ys[k]>>]
  \o FlattenSeq([k \in DOMAIN xs |-> [n \in DOMAIN ys |-> <<xs[k], ys[n]>>]])

Cut(all, maximum) ==
  IF Len(all) > maximum
  THEN [status |-> "Truncated", offsets |-> SubSeq(all, 1, maximum)]
  ELSE [status |-> "Ok", offsets |-> all]

(* generate_candidates(): all offsets in the order they are found, cut at  *)
(* the maximum; order is that of blockerIndices.                           *)
Candidates(windows, i, order, goal, maximum) ==
  LET w == windows[i]
      Each(F(_)) == FlattenSeq([k \in DOMAIN order |-> F(windows[order[k]].visual)])
      up == IF w.bar > 0 THEN <<0 - w.bar, 0 - 2 * w.bar>> ELSE <<>>
      xs == Distinct(<<0>> \o Each(LAMBDA b : XOffsets(w, b, goal))
                     \o <<w.work.left - w.place.left, w.work.right - w.place.right>>)
      ys == Distinct(<<0>> \o up \o Each(LAMBDA b : YOffsets(w, b, goal))
                     \o <<w.work.top - w.place.top, w.work.bottom - w.place.bottom>>)
  IN IF ~ w.managed \/ ~ w.movable \/ Empty(w.place) \/ Empty(w.visual) \/ Empty(w.work)
     THEN [status |-> "InvalidInput", offsets |-> <<>>]
     ELSE Cut(Distinct(<<<<0, 0>>>> \o Each(LAMBDA b : CornerOffsets(w, b, goal))
                       \o Combined(Tail(xs), Tail(ys))), maximum)

(* The layout with one window elsewhere.                                   *)
Shifted(windows, i, d) ==
  [windows EXCEPT ![i] = Elsewhere(@, d[1], d[2])]

Distance(a, b) == IF a >= b THEN a - b ELSE b - a

(* placement_direction(), visibility_preference_rank().                    *)
Direction(d) ==
  CASE d[2] < 0 -> IF d[1] <= 0 THEN 0 ELSE 1
    [] d[2] >= 0 /\ d[1] < 0 -> 2
    [] d[2] >= 0 /\ d[1] > 0 -> 3
    [] d[1] = 0 /\ d[2] > 0 -> 4
    [] d[1] = 0 /\ d[2] = 0 -> 5

Preference(seen) ==
  CASE "Left" \in seen.corners -> 0
    [] seen.corners = {"Right"} -> 1
    [] seen.corners = {} /\ "Top" \in seen.edges -> 2
    [] seen.corners = {} /\ "Top" \notin seen.edges ->
         IF "Left" \in seen.edges THEN 3
         ELSE IF "Right" \in seen.edges THEN 4
         ELSE IF "Bottom" \in seen.edges THEN 5 ELSE 6

(* direction_change_penalty().                                             *)
AgainstPreference(d) ==
  IF Preferred = "none" \/ d = <<0, 0>> THEN 0
  ELSE IF \/ Preferred = "Left" /\ d[1] < 0
          \/ Preferred = "Right" /\ d[1] > 0
          \/ Preferred = "Top" /\ d[2] < 0
          \/ Preferred = "Bottom" /\ d[2] > 0 THEN 0 ELSE 1

(* center_distance(): along each axis in proportion to the work area.      *)
CenterDistance(r, work) ==
  LET reference == Lower(Width(work), Height(work))
      Scaled(distance, extent) == (distance * reference) \div extent
  IN Scaled(Distance(Midpoint(r.left, r.right), Midpoint(work.left, work.right)), Width(work))
     + Scaled(Distance(Midpoint(r.top, r.bottom), Midpoint(work.top, work.bottom)), Height(work))

Boundary(r, work) ==
  Cardinality({e \in Edges : \/ e = "Left" /\ r.left <= work.left
                             \/ e = "Right" /\ r.right >= work.right
                             \/ e = "Top" /\ r.top <= work.top
                             \/ e = "Bottom" /\ r.bottom >= work.bottom})

(* channel_loads(): how many windows above show the one upper corner only. *)
Corners(seen) == IF seen.ok /\ seen.sized THEN seen.corners ELSE {}
Counted(shown) ==
  [side \in {"Left", "Right"} |-> Cardinality({s \in shown : s.corners = {side}})]
Loads(windows, i, active, goal) ==
  Counted({[window |-> j, corners |-> Corners(Analysis(windows, j, goal))] :
             j \in {k \in Judged(windows) \ {i, active} :
                       windows[k].z < windows[i].z /\ Analysable(windows[k])}})

(* calculate_cost(), in the order of less_cost().                          *)
Cost(w, d, stableRect, seen, left, right) ==
  LET to == Translated(w.place, d[1], d[2])
      stable == IF Empty(stableRect) THEN w.place ELSE stableRect
      preference == Preference(seen)
      onLeft == preference = 0
      onRight == preference = 1
      preferLeft == IF left = right THEN w.z % 2 # 0 ELSE left < right
      hidden == Width(w.visual) * Height(w.visual) - seen.area
  IN <<Direction(d), preference, IF hidden = 0 THEN 0 ELSE 1, Boundary(to, w.work), hidden,
       Distance(left + (IF onLeft THEN 1 ELSE 0), right + (IF onRight THEN 1 ELSE 0)),
       IF (onLeft \/ onRight) /\ onLeft # preferLeft THEN 1 ELSE 0,
       CenterDistance(to, w.work), IF d = <<0, 0>> THEN 0 ELSE 1,
       Distance(d[1], 0) + Distance(d[2], 0),
       Distance(to.left, stable.left) + Distance(to.top, stable.top),
       Lower(Distance(to.left, w.work.left), Distance(to.right, w.work.right))
         + Lower(Distance(to.top, w.work.top), Distance(to.bottom, w.work.bottom)),
       AgainstPreference(d), to.left, to.top>>

Hidden(cost) == cost[5]

Cheaper(a, b) ==
  \E k \in DOMAIN a : a[k] < b[k] /\ \A j \in 1..(k - 1) : a[j] = b[j]

(* One candidate: whether it is acceptable (good) and whether it can be    *)
(* told.  A stable layout (the last pass) asks that no window at all be    *)
(* left unrecognised, a layer of the search only for the moved one.        *)
Verdict(d, stable, scan, seen, goal) ==
  [offset |-> d, seen |-> seen,
   good |-> IF stable THEN scan.violations = {} ELSE Recognised(seen, goal),
   complex |-> scan.status # "Ok" \/ (scan.violations = {} /\ ~ seen.sized)]

Tried(windows, i, d, stable, goal) ==
  Verdict(d, stable, IF stable THEN Scan(Shifted(windows, i, d), goal) ELSE Clear,
          Analysis(Shifted(windows, i, d), i, goal), goal)

Accepted(w, stableRect, verdicts, loads) ==
  IF \E v \in verdicts : v.complex THEN [status |-> "GeometryTooComplex", accepted |-> {}]
  ELSE [status |-> "Ok",
        accepted |-> {[offset |-> v.offset,
                       cost |-> Cost(w, v.offset, stableRect, v.seen, loads["Left"],
                                     loads["Right"])] :
                        v \in {u \in verdicts : u.good}}]

(* rank_candidates(): the acceptable candidates with their cost.  One that *)
(* translated() has no rectangle for is rejected: an offset is integers.   *)
Ranked(windows, i, offsets, active, stable, goal) ==
  LET w == windows[i]
      available == i # active /\ w.managed /\ w.movable /\ w.visible /\ w.current
                   /\ w.monitor # 0
      inside == {d \in ToSet(offsets) :
                   /\ available /\ d \in Int \X Int
                   /\ FullyWithin(Translated(w.place, d[1], d[2]), w.work)}
  IN Accepted(w, Stable[i], {Tried(windows, i, d, stable, goal) : d \in inside},
              Loads(windows, i, active, goal))

Best(accepted) == CHOOSE a \in accepted : \A b \in accepted \ {a} : Cheaper(a.cost, b.cost)

(* The n best, best first.                                                 *)
BestFirst(accepted, n) ==
  FoldLeft(LAMBDA best, k : Append(best, Best(accepted \ ToSet(best))), <<>>,
           [k \in 1..n |-> k])
=============================================================================
