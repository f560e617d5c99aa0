------------------------------ MODULE TitleBar ------------------------------
(***************************************************************************)
(* When a window can be recognised by its title bar: the analysis of       *)
(* src/solver/visibility_analyzer.cpp for the goal TitleBarLeftHalf, the   *)
(* only one the coordinator asks for.                                      *)
(*                                                                         *)
(* A layout is a function from window indices to LayoutWindows.  Smaller z *)
(* is nearer to the user; windows that are not in the z-order have z < 0.  *)
(***************************************************************************)
EXTENDS Geometry

CONSTANT Rule  (* EdgeAffordanceRule of each edge: VisibilityRequirements  *)

EdgeRule == [minimum : Nat \ {0}, maximum : Nat \ {0}, depth : Nat \ {0},
             percent : 1..100]

(* valid_rule(): the settings clamp every value, so the coordinator never  *)
(* asks with other requirements.                                           *)
ASSUME RuleAssumption ==
  /\ Rule \in [Edges -> EdgeRule]
  /\ \A e \in Edges : Rule[e].minimum <= Rule[e].maximum

LayoutWindow ==
  [place : Rect,      (* placementRect: with the invisible borders         *)
   visual : Rect,     (* visualRect: what is painted                       *)
   work : Rect,       (* workArea of its monitor                           *)
   monitor : Nat,     (* 0: unknown                                        *)
   dpi : Nat, bar : Nat, z : Int,
   managed : BOOLEAN, movable : BOOLEAN, visible : BOOLEAN,
   blocks : BOOLEAN, current : BOOLEAN]

(* A window moved: its size and the frame around it stay.                  *)
Elsewhere(w, dx, dy) ==
  [w EXCEPT !.place = Translated(w.place, dx, dy), !.visual = Translated(w.visual, dx, dy)]

(* resolve_edge_affordances(): how long and how deep a strip along an edge *)
(* has to be.                                                              *)
Length(w, e) ==
  LET axis == Along(w.visual, e)
      dpi == IF w.dpi = 0 THEN 96 ELSE w.dpi
      share == (axis * Rule[e].percent) \div 100
  IN Lower(axis, Clamp(share, ScaleDip(Rule[e].minimum, dpi),
                              ScaleDip(Rule[e].maximum, dpi)))

EdgeDepth(w, e) ==
  LET dpi == IF w.dpi = 0 THEN 96 ELSE w.dpi
  IN Lower(Away(w.visual, e),
           IF e = "Top" /\ w.bar > 0 THEN w.bar ELSE ScaleDip(Rule[e].depth, dpi))

(* For this goal the depth at the top is one and a half title bars.        *)
ProtectedHeight(w) ==
  LET base == Upper(1, w.bar) IN base + base \div 2 + (base % 2)

RequiredWidth(w) ==
  Upper(Width(w.visual) \div 2 + (Width(w.visual) % 2), Length(w, "Top"))

(* relevant_blocker(): v is painted over w.                                *)
RelevantBlocker(w, v) ==
  /\ v.visible /\ v.blocks /\ v.current
  /\ 0 <= v.z /\ v.z < w.z
  /\ w.monitor = 0 \/ v.monitor = w.monitor

(* The full-height title strip.                                            *)
Title(w) == [w.visual EXCEPT !.bottom = w.visual.top + ProtectedHeight(w)]

(* TitleBarExposure::valid.                                                *)
Analysable(w) == ~ Empty(w.visual) /\ ~ Empty(w.work) /\ w.z >= 0

(* TitleBarExposure::satisfied(): the visible prefix of the title strip    *)
(* ends at the work area or at the first blocker; the code keeps the       *)
(* smallest of these widths.                                               *)
Satisfied(windows, i) ==
  LET w == windows[i]
      title == Title(w)
  IN /\ Analysable(w)
     /\ ProtectedHeight(w) <= Height(w.visual)
     /\ w.work.top <= title.top /\ title.bottom <= w.work.bottom
     /\ w.work.left <= title.left /\ title.left < w.work.right
     /\ Lower(title.right, w.work.right) - title.left >= RequiredWidth(w)
     /\ \A j \in DOMAIN windows :
          /\ RelevantBlocker(w, windows[j])
          /\ Intersects(title, windows[j].visual)
          => Upper(title.left, windows[j].visual.left) - title.left >= RequiredWidth(w)

(* scan_visibility_violations(): the windows the layout is judged by, and  *)
(* those whose title cannot be recognised.                                 *)
Judged(windows) ==
  {i \in DOMAIN windows :
     windows[i].managed /\ windows[i].visible /\ windows[i].current}
ScanOk(windows) == \A i \in Judged(windows) : Analysable(windows[i])
Violations(windows) == {i \in Judged(windows) : ~ Satisfied(windows, i)}

(* What the user sees: the pixel of window i at x, y is on the screen and  *)
(* nothing in front of the window is painted there.                        *)
PixelShown(windows, i, x, y) ==
  /\ HasPixel(windows[i].work, x, y)
  /\ \A j \in DOMAIN windows :
       RelevantBlocker(windows[i], windows[j]) => ~ HasPixel(windows[j].visual, x, y)

(* The required left part of the title strip, every pixel of it.           *)
TitleShown(windows, i) ==
  LET r == windows[i].visual IN
  /\ ProtectedHeight(windows[i]) <= Height(r)
  /\ \A x \in r.left..(r.left + RequiredWidth(windows[i]) - 1) :
     \A y \in r.top..(r.top + ProtectedHeight(windows[i]) - 1) :
       PixelShown(windows, i, x, y)
=============================================================================
