--------------------------- MODULE MCLayoutSolver ---------------------------
(***************************************************************************)
(* Small instances of TitleBarSolver and LayoutSolver for TLC: a screen of *)
(* 13 by 11 pixels, title bars of one pixel (two are protected, steps are  *)
(* two), strips of one pixel at the other edges, and windows with an       *)
(* invisible border of one pixel at the left and right.                    *)
(***************************************************************************)
EXTENDS LayoutSolver

MCRule ==
  [e \in Edges |-> [minimum |-> 2, maximum |-> 3, depth |-> 1, percent |-> 25]]

Screen == R(0, 0, 13, 11)

Window(l, t, w, h, z) ==
  [place |-> R(l - 1, t, l + w + 1, t + h), visual |-> R(l, t, l + w, t + h),
   work |-> Screen, monitor |-> 1, dpi |-> 96, bar |-> 1, z |-> z,
   managed |-> TRUE, movable |-> TRUE, visible |-> TRUE, blocks |-> TRUE, current |-> TRUE]

(* The active window and two others of different sizes, in many places.    *)
Triples ==
  {<<Window(p[1], p[2], 4, 4, 0), Window(q[1], q[2], 5, 4, 1), Window(r[1], r[2], 4, 3, 2)>> :
     p \in {<<1, 1>>, <<4, 3>>, <<6, 5>>},
     q \in {<<1, 1>>, <<2, 1>>, <<4, 3>>, <<5, 4>>},
     r \in {<<1, 1>>, <<3, 2>>, <<4, 3>>, <<4, 5>>, <<8, 2>>}}

(* The same with one property of the second window changed: fixed, on     *)
(* another desktop or monitor, not managed, or not in the z-order; the     *)
(* active window off the screen or not on top.                             *)
Odd ==
  UNION {{[t EXCEPT ![2].movable = FALSE], [t EXCEPT ![2].current = FALSE],
          [t EXCEPT ![2].monitor = 2], [t EXCEPT ![2].managed = FALSE],
          [t EXCEPT ![2].z = -1], [t EXCEPT ![2].bar = 3],
          [t EXCEPT ![1].visual.left = -1], [t EXCEPT ![1].z = 3]} :
           t \in {u \in Triples : u[1].visual.left = 4}}

(* Four windows, the last one on top of the first.                         *)
Quads ==
  {Append(t, Window(s[1], s[2], 5, 3, 3)) : t \in Triples, s \in {<<2, 1>>, <<6, 5>>}}

(* The active window, or the two above the third, cover almost everything. *)
Large ==
  {<<Window(l, t, 13 - 2 * l, 11 - 2 * t, 0), Window(3, 3, 4, 4, 1), Window(5, 4, 4, 3, 2)>> :
     l \in 1..2, t \in 0..2}
  \cup {<<Window(1, 0, 5, 11, 0), Window(6, 0, 6, 9, 1), Window(5, 4, 4, 3, 2)>>}

MCSnapshots == [windows : Triples \cup Odd \cup Quads \cup Large, active : {1}]

MCStable == <<R(0, 0, 0, 0), R(2, 2, 6, 6), R(0, 0, 0, 0), R(0, 0, 0, 0)>>

MCAsked ==
  [method : {"search", "incremental"}, goal : Goals, force : {FALSE}, states : {4},
   candidates : {12}]
  \cup [method : {"prioritized"}, goal : Goals, force : BOOLEAN, states : {4}, candidates : {12}]
  \cup [method : {"search", "incremental", "prioritized"}, goal : {"TopAndSide"},
        force : {FALSE}, states : {1, 2}, candidates : {12}]
  \cup [method : {"search"}, goal : {"AnyRecognizableEdge"}, force : {FALSE}, states : {4},
        candidates : {90}]

(* What the coordinator asks for.                                          *)
MCTitleAsked ==
  [method : {"prioritized"}, goal : {"TitleBarLeftHalf"}, force : {FALSE}, states : {4},
   candidates : {12}]
=============================================================================
