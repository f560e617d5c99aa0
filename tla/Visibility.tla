----------------------------- MODULE Visibility -----------------------------
(***************************************************************************)
(* What of a window can be seen, for any VisibilityGoal:                   *)
(* src/solver/visibility_analyzer.cpp.  A window is recognised by a strip  *)
(* that lies along one of its edges (AnyRecognizableEdge), by two strips   *)
(* that meet at an upper corner (TopAndSide) or by its title bar           *)
(* (TitleBarLeftHalf, see TitleBar).                                       *)
(***************************************************************************)
EXTENDS TitleBar, Region

Goals == {"AnyRecognizableEdge", "TopAndSide", "TitleBarLeftHalf"}

(* resolve_edge_affordances().                                             *)
Depth(w, e, goal) ==
  IF goal = "TitleBarLeftHalf" /\ e = "Top" THEN ProtectedHeight(w) ELSE EdgeDepth(w, e)

(* make_exposure_context(): the blockers and the region they cover.        *)
Blockers(windows, i) ==
  {j \in DOMAIN windows \ {i} :
     /\ RelevantBlocker(windows[i], windows[j])
     /\ Intersects(windows[j].visual, windows[i].visual)}

Covered(windows, i) ==
  MapThenFoldSet(
    LAMBDA r, sum : IF sum.ok THEN Unite(sum.parts, {r}) ELSE sum,
    [ok |-> TRUE, parts |-> {}],
    LAMBDA j : windows[j].visual, LAMBDA S : CHOOSE j \in S : \A k \in S : k <= j,
    Blockers(windows, i))

(* exposed_zone(), exposed_window_area(): what is on the screen and not    *)
(* covered.                                                                *)
Uncovered(onscreen, covered) ==
  IF onscreen.ok THEN Subtract(onscreen.parts, covered) ELSE onscreen
Exposed(w, r, covered) == Uncovered(Intersect(RegionOf(r), RegionOf(w.work)), covered)

(* The strips along the four edges and what of them is exposed.            *)
Strips(w, goal, covered) ==
  {[edge |-> e, zone |-> Zone(w.visual, e, Depth(w, e, goal)),
    exposed |-> Exposed(w, Zone(w.visual, e, Depth(w, e, goal)), covered)] : e \in Edges}

(* has_exposed_segment_in_bounds(): one rectangle of the region is, inside *)
(* the bounds, a strip along the edge that is long and deep enough.        *)
HasSegment(exposed, bounds, edge, length, depth) ==
  \E r \in exposed :
    LET part == Intersection(r, bounds)
    IN /\ ~ Empty(part)
       /\ Touches(part, bounds, edge)
       /\ Along(part, edge) >= length /\ Away(part, edge) >= depth

(* trim_shared_corner() and restrict_to_corner_channel(): the two strips   *)
(* that meet at a corner do not count it twice and start there.            *)
TopChannel(zone, side, sideDepth, length) ==
  IF side = "Left"
  THEN LET left == Lower(zone.right, zone.left + sideDepth)
       IN [zone EXCEPT !.left = left, !.right = Lower(@, left + length)]
  ELSE LET right == Upper(zone.left, zone.right - sideDepth)
       IN [zone EXCEPT !.right = right, !.left = Upper(@, right - length)]

SideChannel(zone, topDepth, length) ==
  LET top == Lower(zone.bottom, zone.top + topDepth)
  IN [zone EXCEPT !.top = top, !.bottom = Lower(@, top + length)]

(* Below the title bar, a strip of the side that nothing is in front of.   *)
SideFree(windows, i, side, goal) ==
  LET w == windows[i]
      top == w.visual.top + ProtectedHeight(w)
      bottom == top + Length(w, side)
      r == IF side = "Left" THEN R(w.visual.left, top, w.visual.left + Depth(w, side, goal), bottom)
           ELSE R(w.visual.right - Depth(w, side, goal), top, w.visual.right, bottom)
  IN /\ ContainsRect(w.visual, r) /\ ContainsRect(w.work, r)
     /\ \A j \in DOMAIN windows :
          RelevantBlocker(w, windows[j]) => ~ Intersects(r, windows[j].visual)

NoSight == [ok |-> FALSE, sized |-> FALSE, edges |-> {}, corners |-> {}, area |-> 0]

(* analyze_window_visibility_with_status(): which edges and corners can be *)
(* recognised (ok) and the exposed area (sized), unless a region needed    *)
(* for it has too many rectangles.                                         *)
Sight(w, goal, strips, whole) ==
  LET Strip(s, bounds) ==
        HasSegment(s.exposed.parts, bounds, s.edge, Length(w, s.edge), Depth(w, s.edge, goal))
      Corner(top, side) ==
        /\ Strip(top, TopChannel(top.zone, side.edge, Depth(w, side.edge, goal),
                                 Length(w, "Top")))
        /\ Strip(side, SideChannel(side.zone, Depth(w, "Top", goal), Length(w, side.edge)))
  IN IF \E s \in strips : ~ s.exposed.ok THEN NoSight
     ELSE [ok |-> TRUE, sized |-> whole.ok, area |-> Area(whole.parts),
           edges |-> {s.edge : s \in {t \in strips : Strip(t, t.zone)}},
           corners |-> {s.edge : s \in {t \in strips :
                          /\ t.edge \in {"Left", "Right"}
                          /\ \E top \in strips : top.edge = "Top" /\ Corner(top, t)}}]

(* For the title bar goal, the title decides about the top.                *)
ByTitleBar(windows, i, goal, seen) ==
  IF ~ seen.ok THEN seen
  ELSE [seen EXCEPT !.edges = (@ \ {"Top"}) \cup
                              (IF Satisfied(windows, i) THEN {"Top"} ELSE {}),
                    !.corners = {side \in {"Left", "Right"} :
                                   Satisfied(windows, i) /\ SideFree(windows, i, side, goal)}]

Analysed(windows, i, goal, covered) ==
  IF ~ covered.ok THEN NoSight
  ELSE Sight(windows[i], goal, Strips(windows[i], goal, covered.parts),
             Exposed(windows[i], windows[i].visual, covered.parts))

Analysis(windows, i, goal) ==
  IF goal = "TitleBarLeftHalf"
  THEN ByTitleBar(windows, i, goal, Analysed(windows, i, goal, Covered(windows, i)))
  ELSE Analysed(windows, i, goal, Covered(windows, i))

Recognised(seen, goal) ==
  CASE goal = "AnyRecognizableEdge" -> seen.edges # {}
    [] goal = "TopAndSide" -> seen.corners # {}
    [] goal = "TitleBarLeftHalf" -> "Top" \in seen.edges

(* scan_visibility_violations(): the first window that cannot be analysed  *)
(* decides what the scan answers.  Titles need no regions.                 *)
Clear == [status |-> "Ok", violations |-> {}]
View(windows, i, goal) ==
  [window |-> i,
   seen |-> IF Analysable(windows[i]) THEN Analysed(windows, i, goal, Covered(windows, i))
            ELSE NoSight]

Judgement(windows, views, goal) ==
  LET bad == {v.window : v \in {u \in views : ~ u.seen.ok}}
  IN IF bad = {}
     THEN [Clear EXCEPT !.violations = {v.window : v \in {u \in views : ~ Recognised(u.seen, goal)}}]
     ELSE [Clear EXCEPT !.status = IF Analysable(windows[Min(bad)]) THEN "GeometryTooComplex"
                                   ELSE "InvalidSnapshot"]

Scan(windows, goal) ==
  IF goal # "TitleBarLeftHalf"
  THEN Judgement(windows, {View(windows, i, goal) : i \in Judged(windows)}, goal)
  ELSE IF ScanOk(windows) THEN [Clear EXCEPT !.violations = Violations(windows)]
  ELSE [Clear EXCEPT !.status = "InvalidSnapshot"]

(* Where a strip of an edge can start.                                     *)
Starts(w, e) ==
  IF Vertical(e) THEN w.visual.top..(w.visual.bottom - Length(w, e))
  ELSE w.visual.left..(w.visual.right - Length(w, e))

(* What the user sees, pixel by pixel: the strip along an edge of window i *)
(* that starts at s, as long and deep as its rule asks, all of it on the   *)
(* screen and in front.                                                    *)
StripAt(windows, i, e, goal, s) ==
  LET r == windows[i].visual
      long == Length(windows[i], e)
      deep == Depth(windows[i], e, goal)
      strip ==
        CASE e = "Left"   -> R(r.left, s, r.left + deep, s + long)
          [] e = "Right"  -> R(r.right - deep, s, r.right, s + long)
          [] e = "Top"    -> R(s, r.top, s + long, r.top + deep)
          [] e = "Bottom" -> R(s, r.bottom - deep, s + long, r.bottom)
  IN /\ s \in Starts(windows[i], e)
     /\ \A x \in strip.left..(strip.right - 1) :
          \A y \in strip.top..(strip.bottom - 1) : PixelShown(windows, i, x, y)

StripShown(windows, i, e, goal) ==
  \E s \in Starts(windows[i], e) : StripAt(windows, i, e, goal, s)

(* Two strips meet at the corner of the top and a side: each starts where  *)
(* the depth of the other ends.                                            *)
CornerShown(windows, i, side, goal) ==
  LET w == windows[i]
      across == Depth(w, side, goal)
  IN /\ StripAt(windows, i, "Top", goal,
                IF side = "Left" THEN w.visual.left + across
                ELSE w.visual.right - across - Length(w, "Top"))
     /\ StripAt(windows, i, side, goal, w.visual.top + Depth(w, "Top", goal))

Recognisable(windows, i, goal) ==
  CASE goal = "AnyRecognizableEdge" -> \E e \in Edges : StripShown(windows, i, e, goal)
    [] goal = "TopAndSide" -> \E side \in {"Left", "Right"} : CornerShown(windows, i, side, goal)
    [] goal = "TitleBarLeftHalf" -> TitleShown(windows, i)
=============================================================================
