------------------------------ MODULE Geometry ------------------------------
(***************************************************************************)
(* Rectangles, interaction zones and DPI scaling: src/geometry.  A         *)
(* rectangle holds the pixels left..right-1 of the rows top..bottom-1.     *)
(* Coordinates are 64-bit in the code and small integers here: the solvers *)
(* refuse rectangles near the limits before they compute with them.        *)
(***************************************************************************)
EXTENDS Integers

Edges == {"Left", "Right", "Top", "Bottom"}

Rect == [left : Int, top : Int, right : Int, bottom : Int]

R(l, t, r, b) == [left |-> l, top |-> t, right |-> r, bottom |-> b]

Lower(a, b) == IF a <= b THEN a ELSE b
Upper(a, b) == IF a >= b THEN a ELSE b
Clamp(x, low, high) == IF x < low THEN low ELSE IF x > high THEN high ELSE x

(* Rect::valid, empty, width and height; an invalid rectangle has none.    *)
Valid(r) == r.left <= r.right /\ r.top <= r.bottom
Empty(r) == ~ Valid(r) \/ r.left = r.right \/ r.top = r.bottom
Width(r) == IF Valid(r) THEN r.right - r.left ELSE 0
Height(r) == IF Valid(r) THEN r.bottom - r.top ELSE 0

HasPixel(r, x, y) ==
  /\ ~ Empty(r)
  /\ r.left <= x /\ x < r.right
  /\ r.top <= y /\ y < r.bottom

ContainsRect(outer, inner) ==
  /\ Valid(outer) /\ Valid(inner)
  /\ outer.left <= inner.left /\ inner.right <= outer.right
  /\ outer.top <= inner.top /\ inner.bottom <= outer.bottom

Intersects(r, s) ==
  /\ ~ Empty(r) /\ ~ Empty(s)
  /\ r.left < s.right /\ s.left < r.right
  /\ r.top < s.bottom /\ s.top < r.bottom

(* Rect::intersection, for rectangles that intersect; empty or invalid     *)
(* when two others are clipped (has_exposed_segment_in_bounds).            *)
Intersection(r, s) ==
  R(Upper(r.left, s.left), Upper(r.top, s.top),
    Lower(r.right, s.right), Lower(r.bottom, s.bottom))

Translated(r, dx, dy) == R(r.left + dx, r.top + dy, r.right + dx, r.bottom + dy)

(* fully_within_work_area().                                               *)
FullyWithin(r, work) == ~ Empty(r) /\ ~ Empty(work) /\ ContainsRect(work, r)

(* scale_dip_ceil(): device-independent pixels are 1/96 inch.              *)
ScaleDip(dip, dpi) == (dip * dpi + 95) \div 96

(* make_interaction_zones(): the strip of the window along one edge, no    *)
(* deeper than the window.                                                 *)
Zone(r, edge, depth) ==
  LET across == Lower(depth, Width(r))
      down == Lower(depth, Height(r))
  IN CASE edge = "Left"   -> [r EXCEPT !.right = r.left + across]
       [] edge = "Right"  -> [r EXCEPT !.left = r.right - across]
       [] edge = "Top"    -> [r EXCEPT !.bottom = r.top + down]
       [] edge = "Bottom" -> [r EXCEPT !.top = r.bottom - down]

Vertical(edge) == edge \in {"Left", "Right"}

(* The extent of a rectangle along an edge and away from it.               *)
Along(r, edge) == IF Vertical(edge) THEN Height(r) ELSE Width(r)
Away(r, edge) == IF Vertical(edge) THEN Width(r) ELSE Height(r)

(* Whether a part of a zone reaches the edge the zone lies along.          *)
Touches(part, zone, edge) ==
  CASE edge = "Left"   -> part.left = zone.left
    [] edge = "Right"  -> part.right = zone.right
    [] edge = "Top"    -> part.top = zone.top
    [] edge = "Bottom" -> part.bottom = zone.bottom
=============================================================================
