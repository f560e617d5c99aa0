------------------------------- MODULE Region -------------------------------
(***************************************************************************)
(* Regions as sets of disjoint rectangles: src/geometry/region.cpp.  The   *)
(* code keeps a sorted vector; the order only decides which rectangles are *)
(* joined first, so a region here is the set and Before the order.  An     *)
(* operation whose result has too many rectangles fails as a whole.        *)
(***************************************************************************)
EXTENDS Geometry, FiniteSets, FiniteSetsExt

CONSTANT MaximumRectangles  (* VisibilityRequirements::maximumRegionRectangles *)

ASSUME RegionAssumption == MaximumRectangles \in Nat \ {0}

Before(a, b) ==
  \/ a.top < b.top
  \/ a.top = b.top /\ a.left < b.left
  \/ a.top = b.top /\ a.left = b.left /\ a.bottom < b.bottom
  \/ a.top = b.top /\ a.left = b.left /\ a.bottom = b.bottom /\ a.right < b.right

Latest(S) == CHOOSE a \in S : \A b \in S \ {a} : Before(b, a)

(* try_merge(): two rectangles that make a larger one.                     *)
Joins(a, b) ==
  \/ a.top = b.top /\ a.bottom = b.bottom /\ a.right = b.left
  \/ a.left = b.left /\ a.right = b.right /\ a.bottom = b.top
Join(a, b) == R(a.left, a.top, b.right, b.bottom)

(* canonicalize(): the first pair that can be joined is, until none can.   *)
(* Every time there is a rectangle less.                                   *)
Joinable(S) == {p \in S \X S : Before(p[1], p[2]) /\ Joins(p[1], p[2])}
FirstOf(pairs) ==
  CHOOSE p \in pairs : \A q \in pairs \ {p} :
    Before(p[1], q[1]) \/ (p[1] = q[1] /\ Before(p[2], q[2]))
Joined(S, p) == (S \ {p[1], p[2]}) \cup {Join(p[1], p[2])}

JoinedOnce(S) == IF Joinable(S) = {} THEN S ELSE Joined(S, FirstOf(Joinable(S)))
Canonical(S) == FoldSet(LAMBDA r, T : JoinedOnce(T), S, S)

(* subtract_rectangle() without the strip at the right (mutant).           *)
MinusLosingRight(r, blocker) ==
  LET o == Intersection(r, blocker)
  IN IF ~ Intersects(r, blocker) THEN {r}
     ELSE {s \in {R(r.left, r.top, r.right, o.top), R(r.left, o.top, o.right, r.bottom)} :
             ~ Empty(s)}

(* subtract_rectangle(): what is left of r above, below and at the sides.  *)
Minus(r, blocker) ==
  LET o == Intersection(r, blocker)
  IN IF ~ Intersects(r, blocker) THEN {r}
     ELSE {s \in {R(r.left, r.top, r.right, o.top), R(r.left, o.bottom, r.right, r.bottom),
                  R(r.left, o.top, o.left, o.bottom), R(o.right, o.top, r.right, o.bottom)} :
             ~ Empty(s)}

TooComplex == [ok |-> FALSE, parts |-> {}]
Bounded(parts) ==
  IF Cardinality(parts) > MaximumRectangles THEN TooComplex ELSE [ok |-> TRUE, parts |-> parts]
Made(S) == Bounded(Canonical(S))

(* subtract_rectangles(), one blocker after the other.                     *)
SubtractAll(pieces, blockers) ==
  MapThenFoldSet(
    LAMBDA blocker, left :
      IF left.ok THEN Made(UNION {Minus(r, blocker) : r \in left.parts}) ELSE left,
    Made(pieces), LAMBDA r : r, Latest, blockers)

(* unite(): the rectangles of the right one, as far as they are new.       *)
Added(S, new) == IF new.ok THEN Made(S \cup new.parts) ELSE new
Unite(S, T) ==
  MapThenFoldSet(
    LAMBDA r, sum :
      IF sum.ok THEN Added(sum.parts, SubtractAll({r}, sum.parts)) ELSE sum,
    [ok |-> TRUE, parts |-> S], LAMBDA r : r, Latest, T)

Subtract(S, T) == SubtractAll(S, T)

Intersect(S, T) ==
  Made({Intersection(p[1], p[2]) : p \in {q \in S \X T : Intersects(q[1], q[2])}})

(* region_of(): from_disjoint() of one rectangle.                          *)
RegionOf(r) == IF Empty(r) THEN {} ELSE {r}

Area(S) == MapThenFoldSet(LAMBDA a, b : a + b, 0, LAMBDA r : Width(r) * Height(r), Latest, S)
=============================================================================
