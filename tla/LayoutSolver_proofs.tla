------------------------ MODULE LayoutSolver_proofs -------------------------
(***************************************************************************)
(* A layout that any solver of LayoutSolver answers as solved lets every   *)
(* window be recognised, and every node the search still has to look at    *)
(* has its upper layers recognisable: LayoutSolver!SolvedIsRecognisable    *)
(* and LayoutSolver!UpperLayersStayFixed, for snapshots of any number of   *)
(* windows, any limits and any candidates.                                 *)
(*                                                                         *)
(* The inductive invariant is SearchInv, or TitleInv when the title bar    *)
(* solver is asked. It says what the nodes of the search are worth         *)
(* (GoodNodes), that the layout which is enhanced is Clean, that a local   *)
(* search moves its window at most once, and that only a clean layout is   *)
(* answered as solved. A node stays good because a window that is moved    *)
(* hides none above it (LowerDoesNotHide), and a layout is clean because a *)
(* scan without violations is right (ScanIsSound).                         *)
(***************************************************************************)
EXTENDS LayoutSolver, Visibility_proofs

-----------------------------------------------------------------------------
(* Windows that are moved                                                  *)

(* A window moved keeps its layer, and all others are as they were.        *)
LEMMA ShiftedType ==
  ASSUME NEW windows \in Seq(LayoutWindow), NEW t \in DOMAIN windows, NEW d \in Int \X Int
  PROVE  /\ Shifted(windows, t, d) \in Seq(LayoutWindow)
         /\ Len(Shifted(windows, t, d)) = Len(windows)
         /\ DOMAIN Shifted(windows, t, d) = DOMAIN windows
         /\ \A j \in DOMAIN windows \ {t} : Shifted(windows, t, d)[j] = windows[j]
         /\ \A j \in DOMAIN windows : Shifted(windows, t, d)[j].z = windows[j].z
         /\ \A j \in DOMAIN windows : Shifted(windows, t, d)[j].managed = windows[j].managed
<1>1. windows[t] \in LayoutWindow
  BY LayoutType
<1>2. Elsewhere(windows[t], d[1], d[2]) \in LayoutWindow
      /\ Elsewhere(windows[t], d[1], d[2]).z = windows[t].z
      /\ Elsewhere(windows[t], d[1], d[2]).managed = windows[t].managed
  BY <1>1, ElsewhereType
<1>3. DOMAIN windows = 1..Len(windows) /\ Len(windows) \in Nat /\ t \in 1..Len(windows)
  BY LayoutType
<1> DEFINE to == Elsewhere(windows[t], d[1], d[2])
           moved == [windows EXCEPT ![t] = to]
<1>4. Shifted(windows, t, d) = moved
  BY DEF Shifted
<1> HIDE DEF to
<1>5. moved \in Seq(LayoutWindow) /\ Len(moved) = Len(windows)
  BY <1>2, <1>3, ExceptSeq DEF to
<1>6. DOMAIN moved = DOMAIN windows /\ moved[t] = to
      /\ \A j \in DOMAIN windows \ {t} : moved[j] = windows[j]
  BY <1>3
<1> HIDE DEF moved
<1> QED
  BY <1>2, <1>4, <1>5, <1>6 DEF to

(* A window moved hides none that is above it: recognisable it stays.      *)
LEMMA LowerDoesNotHide ==
  ASSUME NEW windows \in Seq(LayoutWindow), NEW t \in DOMAIN windows, NEW d \in Int \X Int,
         NEW j \in DOMAIN windows \ {t}, windows[j].z <= windows[t].z, NEW g \in Goals,
         Recognisable(windows, j, g)
  PROVE  Recognisable(Shifted(windows, t, d), j, g)
<1> DEFINE other == Shifted(windows, t, d)
<1>1. /\ DOMAIN other = DOMAIN windows /\ other[j] = windows[j]
      /\ \A k \in DOMAIN windows \ {t} : other[k] = windows[k]
      /\ other[t].z = windows[t].z
  BY ShiftedType
<1>2. windows[j].z \in Int /\ windows[t].z \in Int
  BY LayoutType
<1> HIDE DEF other
<1>3. ASSUME NEW x, NEW y, PixelShown(windows, j, x, y)
      PROVE  PixelShown(other, j, x, y)
  <2>1. ~ RelevantBlocker(other[j], other[t])
    BY <1>1, <1>2 DEF RelevantBlocker
  <2> QED
    BY <1>1, <1>3, <2>1 DEF PixelShown
<1>4. ASSUME NEW e, NEW s, StripAt(windows, j, e, g, s) PROVE StripAt(other, j, e, g, s)
  BY <1>1, <1>3, <1>4 DEF StripAt
<1>5. TitleShown(windows, j) => TitleShown(other, j)
  BY <1>1, <1>3 DEF TitleShown
<1>6. Recognisable(other, j, g)
  <2>1. CASE g = "AnyRecognizableEdge"
    <3>1. \E e \in Edges : StripShown(windows, j, e, g)
      BY <2>1 DEF Recognisable
    <3> QED
      BY <1>1, <1>4, <2>1, <3>1 DEF Recognisable, StripShown
  <2>2. CASE g = "TopAndSide"
    <3>1. \E side \in {"Left", "Right"} : CornerShown(windows, j, side, g)
      BY <2>2 DEF Recognisable
    <3> QED
      BY <1>1, <1>4, <2>2, <3>1 DEF Recognisable, CornerShown
  <2>3. CASE g = "TitleBarLeftHalf"
    BY <1>5, <2>3 DEF Recognisable
  <2> QED
    BY <2>1, <2>2, <2>3 DEF Goals
<1> QED
  BY <1>6 DEF other

-----------------------------------------------------------------------------
(* Costs of candidates                                                     *)

(* The image of a finite set is finite.                                    *)
LEMMA ImageIsFinite ==
  ASSUME NEW S, IsFiniteSet(S), NEW f, DOMAIN f = S, f = [x \in S |-> f[x]], NEW T, T = {f[x] :
             x \in S}
  PROVE  IsFiniteSet(T)
<1>1. f \in Surjection(S, T)
  BY DEF Surjection
<1> QED
  BY <1>1, FS_Surjection

Size(r) == Width(r) * Height(r)

(* The area of a region as a fold.                                         *)
AreaFrom(S, iter) ==
  [T \in SUBSET S |-> IF T = {} THEN 0 ELSE Size(Latest(T)) + iter[T \ {Latest(T)}]]

(* An area is a number.                                                    *)
LEMMA AreaType ==
  ASSUME NEW S \in Regions
  PROVE  Area(S) \in Int
<1> DEFINE iter == CHOOSE f : f = AreaFrom(S, f)
           pick == [T \in SUBSET S |-> Latest(T)]
           step == [p \in S \X Int |-> Size(p[1]) + p[2]]
<1>1. Area(S) = iter[S]
  BY DEF Area, MapThenFoldSet, AreaFrom, Size
<1>2. IsFiniteSet(S) /\ S \subseteq Rect
  BY DEF Regions, Solid
<1>3. \A r \in S : Size(r) \in Int
  <2> TAKE r \in S
  <2>1. Width(r) \in Int /\ Height(r) \in Int
    BY <1>2, ExtentType
  <2> QED
    BY <2>1 DEF Size
<1>4. step \in [S \X Int -> Int]
  <2>1. ASSUME NEW p \in S \X Int PROVE Size(p[1]) + p[2] \in Int
    <3>1. Size(p[1]) \in Int /\ p[2] \in Int
      BY <1>3
    <3> QED
      BY <3>1
  <2> QED
    BY <2>1
<1>5. ASSUME NEW T \in SUBSET S, T # {} PROVE Latest(T) \in T
  BY <1>2, <1>5, FS_Subset, LatestIsIn
<1>6. /\ \A T \in SUBSET S : pick[T] = Latest(T)
      /\ \A r \in S : \A n \in Int : step[<<r, n>>] = Size(r) + n
  OBVIOUS
<1> HIDE DEF pick, step
<1>7. \A T \in SUBSET S : T # {} => pick[T] \in T
  BY <1>5, <1>6
<1>8. PICK f \in [SUBSET S -> Int] : IsFold(f, SUBSET S, pick, 0, step)
  <2>1. 0 \in Int
    OBVIOUS
  <2> QED
    BY <1>2, <1>4, <1>7, <2>1, FoldExists
<1>9. f = AreaFrom(S, f)
  <2>1. ASSUME NEW T \in SUBSET S, T # {}
        PROVE  f[T] = Size(Latest(T)) + f[T \ {Latest(T)}]
    <3>1. T \ {pick[T]} \in SUBSET S /\ pick[T] \in S
      BY <2>1, <1>7
    <3>2. f[T \ {pick[T]}] \in Int
      BY <3>1
    <3>3. f[T] = step[<<pick[T], f[T \ {pick[T]}]>>]
      BY <2>1, <1>8 DEF IsFold
    <3>4. f[T] = Size(pick[T]) + f[T \ {pick[T]}]
      BY <1>6, <3>1, <3>2, <3>3
    <3> QED
      BY <1>6, <3>4
  <2>2. f[{}] = 0
    BY <1>8 DEF IsFold
  <2> QED
    BY <2>1, <2>2 DEF AreaFrom
<1>10. iter = AreaFrom(S, iter)
  BY <1>9
<1> HIDE DEF iter
<1> DEFINE G == {T \in SUBSET S : iter[T] \in Int}
<1>11. {} \in G
  BY <1>10 DEF AreaFrom
<1>12. ASSUME NEW T \in SUBSET S, T # {}
       PROVE  \E r \in T : T \ {r} \in G => T \in G
  <2>1. Latest(T) \in T /\ Size(Latest(T)) \in Int
    BY <1>3, <1>5, <1>12
  <2>2. iter[T] = Size(Latest(T)) + iter[T \ {Latest(T)}]
    BY <1>10, <1>12 DEF AreaFrom
  <2>3. iter[T \ {Latest(T)}] \in Int => iter[T] \in Int
    BY <2>1, <2>2
  <2> QED
    BY <2>1, <2>3
<1> HIDE DEF G
<1>13. S \in G
  BY <1>2, <1>11, <1>12, SetInduction
<1> QED
  BY <1>1, <1>13 DEF G

(* What an analysis answers of areas and corners.                          *)
LEMMA AnalysisType ==
  ASSUME NEW windows \in Seq(LayoutWindow), NEW i \in DOMAIN windows, NEW g \in Goals
  PROVE  /\ Analysis(windows, i, g).area \in Int
         /\ Analysis(windows, i, g).corners \subseteq {"Left", "Right"}
<1> DEFINE seen == Seen(windows, i, g)
<1>1. seen.corners \subseteq {"Left", "Right"}
  BY SeenIsShown
<1>2. seen.area \in Int
  <2>1. CASE seen = NoSight
    BY <2>1 DEF NoSight
  <2>2. CASE seen # NoSight
    <3>1. seen.area = Area(Exposed(windows[i], windows[i].visual, Covered(windows,
              i).parts).parts)
          /\ Covered(windows, i).ok
      BY <2>2 DEF Seen, Analysed, Sight
    <3>2. Covered(windows, i).parts \in Regions
      BY CoveredPixels DEF Answers
    <3>3. Exposed(windows[i], windows[i].visual, Covered(windows, i).parts).parts \in Regions
      BY <3>2, LayoutType, ExposedPixels DEF Answers
    <3> QED
      BY <3>1, <3>3, AreaType
  <2> QED
    BY <2>1, <2>2
<1>3. CASE g # "TitleBarLeftHalf"
  BY <1>1, <1>2, <1>3 DEF Analysis, Seen
<1>4. CASE g = "TitleBarLeftHalf"
  <2>1. Analysis(windows, i, g) = ByTitleBar(windows, i, g, seen)
    BY <1>4 DEF Analysis, Seen
  <2>2. CASE ~ seen.ok
    BY <1>1, <1>2, <2>1, <2>2 DEF ByTitleBar
  <2>3. CASE seen.ok
    <3>1. DOMAIN seen = {"ok", "sized", "area", "edges", "corners"}
      <4>1. seen # NoSight
        BY <2>3 DEF NoSight
      <4> QED
        BY <4>1 DEF Seen, Analysed, Sight
    <3> HIDE DEF seen
    <3>2. ByTitleBar(windows, i, g, seen).area = seen.area
      BY <2>3, <3>1 DEF ByTitleBar
    <3>3. ByTitleBar(windows, i, g, seen).corners
            = {side \in {"Left", "Right"} : Satisfied(windows, i)
                  /\ SideFree(windows, i, side, g)}
      BY <2>3, <3>1 DEF ByTitleBar
    <3> QED
      BY <1>2, <2>1, <3>2, <3>3
  <2> QED
    BY <2>2, <2>3
<1> QED
  BY <1>3, <1>4

(* Channel loads are numbers.                                              *)
LEMMA LoadsType ==
  ASSUME NEW windows \in Seq(LayoutWindow), NEW i, NEW a, NEW g
  PROVE  /\ Loads(windows, i, a, g)["Left"] \in Nat
         /\ Loads(windows, i, a, g)["Right"] \in Nat
<1> DEFINE above == {j \in {k \in Judged(windows) \ {i, a} :
                              windows[k].z < windows[i].z /\ Analysable(windows[k])} : TRUE}
           f == [j \in above |-> [window |-> j, corners |-> Corners(Analysis(windows, j, g))]]
           shown == {f[j] : j \in above}
<1>1. IsFiniteSet(above)
  <2>1. above \in SUBSET (DOMAIN windows)
    BY DEF Judged
  <2> HIDE DEF above
  <2> QED
    BY <2>1, LayoutType, FS_Subset
<1>2. IsFiniteSet(shown)
  <2>1. DOMAIN f = above /\ f = [x \in above |-> f[x]]
    OBVIOUS
  <2> HIDE DEF f, above
  <2> QED
    BY <1>1, <2>1, ImageIsFinite
<1>3. Loads(windows, i, a, g) = Counted(shown)
  BY DEF Loads
<1> HIDE DEF shown
<1>4. ASSUME NEW side PROVE Cardinality({s \in shown : s.corners = {side}}) \in Nat
  <2> DEFINE some == {s \in shown : s.corners = {side}}
  <2>1. some \in SUBSET shown
    OBVIOUS
  <2> HIDE DEF some
  <2>2. IsFiniteSet(some)
    BY <1>2, <2>1, FS_Subset
  <2>3. Cardinality(some) \in Nat
    BY <2>2, FS_CardinalityType
  <2> QED
    BY <2>3 DEF some
<1> QED
  BY <1>3, <1>4 DEF Counted

(* Costs have 15 fields, compared one after the other.                     *)
Costs == {c \in Seq(Int) : Len(c) = 15}

LEMMA MidpointType ==
  ASSUME NEW a \in Int, NEW b \in Int
  PROVE  Midpoint(a, b) \in Int /\ Distance(a, b) \in Int
BY DEF Midpoint, Distance

LEMMA CenterDistanceType ==
  ASSUME NEW r \in Rect, NEW work \in Rect, ~ Empty(work)
  PROVE  CenterDistance(r, work) \in Int
<1> DEFINE reference == Lower(Width(work), Height(work))
           scaled(a, b, extent) == (Distance(a, b) * reference) \div extent
<1>1. /\ r.top \in Int /\ r.left \in Int /\ r.bottom \in Int /\ r.right \in Int
      /\ work.top \in Int /\ work.left \in Int /\ work.bottom \in Int /\ work.right \in Int
  BY DEF Rect
<1>2. Width(work) \in Int /\ Height(work) \in Int /\ Width(work) > 0 /\ Height(work) > 0
  BY <1>1 DEF Width, Height, Empty, Valid
<1>3. reference \in Int
  BY <1>2, BoundsType
<1> HIDE DEF reference
<1>4. ASSUME NEW a \in Int, NEW b \in Int, NEW extent \in Int, extent > 0
      PROVE  scaled(a, b, extent) \in Int
  <2>1. Distance(a, b) \in Int
    BY MidpointType
  <2>2. Distance(a, b) * reference \in Int
    BY <1>3, <2>1
  <2> QED
    BY <1>4, <2>2
<1>5. CenterDistance(r, work)
        = scaled(Midpoint(r.left, r.right), Midpoint(work.left, work.right), Width(work))
          + scaled(Midpoint(r.top, r.bottom), Midpoint(work.top, work.bottom), Height(work))
  BY DEF CenterDistance, reference
<1> HIDE DEF scaled
<1>6. /\ Midpoint(r.left, r.right) \in Int /\ Midpoint(work.left, work.right) \in Int
      /\ Midpoint(r.top, r.bottom) \in Int /\ Midpoint(work.top, work.bottom) \in Int
  BY <1>1, MidpointType
<1>7. /\ scaled(Midpoint(r.left, r.right), Midpoint(work.left, work.right), Width(work)) \in Int
      /\ scaled(Midpoint(r.top, r.bottom), Midpoint(work.top, work.bottom), Height(work)) \in Int
  BY <1>2, <1>4, <1>6
<1> QED
  BY <1>5, <1>7

(* The cost of a candidate; its last fields tell the place.                *)
LEMMA CostType ==
  ASSUME NEW w \in LayoutWindow, NEW d \in Int \X Int, NEW stableRect \in Rect, NEW seen,
         seen.area \in Int, seen.corners \subseteq {"Left", "Right"}, ~ Empty(w.work),
         NEW left \in Nat, NEW right \in Nat
  PROVE  /\ Cost(w, d, stableRect, seen, left, right) \in Costs
         /\ Cost(w, d, stableRect, seen, left, right)[14] = w.place.left + d[1]
         /\ Cost(w, d, stableRect, seen, left, right)[15] = w.place.top + d[2]
<1> DEFINE to == Translated(w.place, d[1], d[2])
           stable == IF Empty(stableRect) THEN w.place ELSE stableRect
           preference == Preference(seen)
           onLeft == preference = 0
           onRight == preference = 1
           preferLeft == IF left = right THEN w.z % 2 # 0 ELSE left < right
           hidden == Width(w.visual) * Height(w.visual) - seen.area
           c3 == IF hidden = 0 THEN 0 ELSE 1
           c4 == Boundary(to, w.work)
           c6 == Distance(left + (IF onLeft THEN 1 ELSE 0), right + (IF onRight THEN 1 ELSE 0))
           c7 == IF (onLeft \/ onRight) /\ onLeft # preferLeft THEN 1 ELSE 0
           c8 == CenterDistance(to, w.work)
           c9 == IF d = <<0, 0>> THEN 0 ELSE 1
           c10 == Distance(d[1], 0) + Distance(d[2], 0)
           c11 == Distance(to.left, stable.left) + Distance(to.top, stable.top)
           c12 == Lower(Distance(to.left, w.work.left), Distance(to.right, w.work.right))
                  + Lower(Distance(to.top, w.work.top), Distance(to.bottom, w.work.bottom))
           c13 == AgainstPreference(d)
<1>1. /\ w.place \in Rect /\ w.visual \in Rect /\ w.work \in Rect /\ w.z \in Int
      /\ d[1] \in Int /\ d[2] \in Int
  BY DEF LayoutWindow
<1>2. /\ w.place.left \in Int /\ w.place.right \in Int /\ w.place.top \in Int
             /\ w.place.bottom \in Int
      /\ w.work.left \in Int /\ w.work.right \in Int /\ w.work.top \in Int
             /\ w.work.bottom \in Int
      /\ stableRect.left \in Int /\ stableRect.top \in Int
  BY <1>1 DEF Rect
<1>3. to \in Rect /\ to.left = w.place.left + d[1] /\ to.top = w.place.top + d[2]
  BY <1>1, TranslatedType DEF Translated, R
<1>4. to.left \in Int /\ to.right \in Int /\ to.top \in Int /\ to.bottom \in Int
  BY <1>3 DEF Rect
<1>5. stable.left \in Int /\ stable.top \in Int
  BY <1>2
<1> HIDE DEF to, stable
<1>6. Direction(d) \in Int
  BY <1>1 DEF Direction
<1>7. preference \in Int
  <2>1. \/ "Left" \in seen.corners
        \/ "Left" \notin seen.corners /\ seen.corners = {"Right"}
        \/ seen.corners = {} /\ "Top" \in seen.edges
        \/ seen.corners = {} /\ "Top" \notin seen.edges
    OBVIOUS
  <2> QED
    BY <2>1 DEF Preference
<1> HIDE DEF preference
<1>8. c3 \in Int /\ c7 \in Int /\ c9 \in Int
  OBVIOUS
<1>9. hidden \in Int
  <2>1. Width(w.visual) \in Int /\ Height(w.visual) \in Int
    BY <1>1, ExtentType
  <2>2. Width(w.visual) * Height(w.visual) \in Int
    BY <2>1
  <2> QED
    BY <2>2
<1>10. c4 \in Int
  <2> DEFINE some == {e \in Edges : \/ e = "Left" /\ to.left <= w.work.left
                                    \/ e = "Right" /\ to.right >= w.work.right
                                    \/ e = "Top" /\ to.top <= w.work.top
                                    \/ e = "Bottom" /\ to.bottom >= w.work.bottom}
  <2>1. IsFiniteSet(Edges)
    <3>1. IsFiniteSet({"Left"})
      BY FS_Singleton
    <3>2. IsFiniteSet({"Left"} \cup {"Right"})
      BY <3>1, FS_AddElement
    <3>3. IsFiniteSet({"Left"} \cup {"Right"} \cup {"Top"})
      BY <3>2, FS_AddElement
    <3>4. IsFiniteSet({"Left"} \cup {"Right"} \cup {"Top"} \cup {"Bottom"})
      BY <3>3, FS_AddElement
    <3>5. Edges = {"Left"} \cup {"Right"} \cup {"Top"} \cup {"Bottom"}
      BY DEF Edges
    <3> QED
      BY <3>4, <3>5
  <2>2. some \in SUBSET Edges
    OBVIOUS
  <2>3. Boundary(to, w.work) = Cardinality(some)
    BY DEF Boundary
  <2> HIDE DEF some
  <2>4. Cardinality(some) \in Nat
    BY <2>1, <2>2, FS_Subset, FS_CardinalityType
  <2> QED
    BY <2>3, <2>4
<1>11. c6 \in Int
  <2>1. /\ left + (IF onLeft THEN 1 ELSE 0) \in Int
        /\ right + (IF onRight THEN 1 ELSE 0) \in Int
    OBVIOUS
  <2> QED
    BY <2>1, MidpointType
<1>12. c8 \in Int
  BY <1>1, <1>3, CenterDistanceType
<1>13. c10 \in Int
  <2>1. 0 \in Int
    OBVIOUS
  <2>2. Distance(d[1], 0) \in Int /\ Distance(d[2], 0) \in Int
    BY <1>1, <2>1, MidpointType
  <2> QED
    BY <2>2
<1>14. c11 \in Int
  <2>1. Distance(to.left, stable.left) \in Int /\ Distance(to.top, stable.top) \in Int
    BY <1>4, <1>5, MidpointType
  <2> QED
    BY <2>1
<1>15. c12 \in Int
  <2>1. /\ Distance(to.left, w.work.left) \in Int /\ Distance(to.right, w.work.right) \in Int
        /\ Distance(to.top, w.work.top) \in Int /\ Distance(to.bottom, w.work.bottom) \in Int
    BY <1>2, <1>4, MidpointType
  <2>2. /\ Lower(Distance(to.left, w.work.left), Distance(to.right, w.work.right)) \in Int
        /\ Lower(Distance(to.top, w.work.top), Distance(to.bottom, w.work.bottom)) \in Int
    BY <2>1, BoundsType
  <2> QED
    BY <2>2
<1>16. c13 \in Int
  BY DEF AgainstPreference
<1>17. Cost(w, d, stableRect, seen, left, right)
         = <<Direction(d), preference, c3, c4, hidden, c6, c7, c8, c9, c10, c11, c12, c13,
             to.left, to.top>>
  BY DEF Cost, to, stable, preference
<1> HIDE DEF hidden, c3, c4, c6, c7, c8, c9, c10, c11, c12, c13
<1> DEFINE c1 == Direction(d)
           c14 == to.left
           c15 == to.top
           cost == <<c1, preference, c3, c4, hidden, c6, c7, c8, c9, c10, c11, c12, c13, c14,
                 c15>>
<1>18. c1 \in Int /\ c14 \in Int /\ c15 \in Int
  BY <1>4, <1>6
<1>19. c14 = w.place.left + d[1] /\ c15 = w.place.top + d[2]
  BY <1>3
<1>20. Cost(w, d, stableRect, seen, left, right) = cost
  BY <1>17
<1> HIDE DEF c1, c14, c15
<1>21. cost \in Costs /\ cost[14] = c14 /\ cost[15] = c15
  BY <1>7, <1>8, <1>9, <1>10, <1>11, <1>12, <1>13, <1>14, <1>15, <1>16, <1>18 DEF Costs
<1> HIDE DEF cost
<1> QED
  BY <1>19, <1>20, <1>21

-----------------------------------------------------------------------------
(* Accepted candidates, and the best of them                               *)

LEMMA CostsType ==
  ASSUME NEW a \in Costs
  PROVE  DOMAIN a = 1..15 /\ \A k \in 1..15 : a[k] \in Int
<1>1. a \in Seq(Int) /\ Len(a) = 15
  BY DEF Costs
<1>2. DOMAIN a = 1..Len(a)
  BY <1>1, LenProperties
<1>3. \A k \in 1..Len(a) : a[k] \in Int
  BY <1>1, ElementOfSeq
<1> QED
  BY <1>1, <1>2, <1>3

(* Costs are ordered lexicographically: any two differ somewhere first.    *)
LEMMA CheaperIsTotal ==
  ASSUME NEW a \in Costs, NEW b \in Costs, a # b
  PROVE  Cheaper(a, b) \/ Cheaper(b, a)
<1> DEFINE differ == {k \in 1..15 : a[k] # b[k]}
           first == CHOOSE j \in differ : \A k \in differ : j <= k
<1>1. /\ DOMAIN a = 1..15 /\ DOMAIN b = 1..15
      /\ \A k \in 1..15 : a[k] \in Int /\ b[k] \in Int
  BY CostsType
<1>2. differ # {}
  <2>1. a \in Seq(Int) /\ b \in Seq(Int) /\ Len(a) = 15 /\ Len(b) = 15
    BY DEF Costs
  <2> SUFFICES ASSUME differ = {} PROVE a = b
    OBVIOUS
  <2>2. \A k \in 1..15 : a[k] = b[k]
    OBVIOUS
  <2> HIDE DEF differ
  <2> QED
    BY <2>1, <2>2, SeqEqual
<1>3. differ \subseteq Int /\ IsFiniteSet(differ)
  <2>1. 1 \in Int /\ 15 \in Int
    OBVIOUS
  <2>2. IsFiniteSet(1..15)
    BY <2>1, FS_Interval
  <2>3. differ \in SUBSET (1..15)
    OBVIOUS
  <2> QED
    BY <2>2, <2>3, FS_Subset
<1>4. \A k \in 1..15 : k \in differ <=> a[k] # b[k]
  OBVIOUS
<1>5. differ \subseteq 1..15
  OBVIOUS
<1> HIDE DEF differ
<1>6. first \in differ
  BY <1>2, <1>3, LastExists
<1>7. \A k \in differ : first <= k
  BY <1>2, <1>3, LastExists
<1> HIDE DEF first
<1>8. first \in 1..15 /\ a[first] \in Int /\ b[first] \in Int /\ a[first] # b[first]
  BY <1>1, <1>4, <1>5, <1>6
<1>9. \A j \in 1..(first - 1) : a[j] = b[j]
  <2> TAKE j \in 1..(first - 1)
  <2>1. j \in 1..15 /\ ~ (first <= j)
    BY <1>8
  <2> QED
    BY <1>4, <1>7, <2>1
<1>10. a[first] < b[first] \/ b[first] < a[first]
  BY <1>8
<1> QED
  BY <1>1, <1>8, <1>9, <1>10 DEF Cheaper

(* And the order is transitive.                                            *)
LEMMA CheaperIsTransitive ==
  ASSUME NEW a \in Costs, NEW b \in Costs, NEW c \in Costs, Cheaper(a, b), Cheaper(b, c)
  PROVE  Cheaper(a, c)
<1>1. /\ DOMAIN a = 1..15 /\ DOMAIN b = 1..15
      /\ \A k \in 1..15 : a[k] \in Int /\ b[k] \in Int /\ c[k] \in Int
  BY CostsType
<1>2. PICK m \in 1..15 : a[m] < b[m] /\ \A j \in 1..(m - 1) : a[j] = b[j]
  BY <1>1 DEF Cheaper
<1>3. PICK n \in 1..15 : b[n] < c[n] /\ \A j \in 1..(n - 1) : b[j] = c[j]
  BY <1>1 DEF Cheaper
<1> DEFINE k == Lower(m, n)
<1>4. k \in 1..15 /\ (k = m \/ k = n) /\ k <= m /\ k <= n
  BY DEF Lower
<1> HIDE DEF k
<1>5. a[k] < c[k]
  <2>0. a[k] \in Int /\ b[k] \in Int /\ c[k] \in Int
    BY <1>1, <1>4
  <2>1. CASE k = m /\ k = n
    BY <1>2, <1>3, <2>0, <2>1
  <2>2. CASE k = m /\ k < n
    <3>1. k \in 1..(n - 1)
      BY <1>4, <2>2
    <3>2. b[k] = c[k]
      BY <1>3, <3>1
    <3> QED
      BY <1>2, <2>2, <3>2
  <2>3. CASE k = n /\ k < m
    <3>1. k \in 1..(m - 1)
      BY <1>4, <2>3
    <3>2. a[k] = b[k]
      BY <1>2, <3>1
    <3> QED
      BY <1>3, <2>3, <3>2
  <2> QED
    BY <1>4, <2>1, <2>2, <2>3
<1>6. \A j \in 1..(k - 1) : a[j] = c[j]
  <2> TAKE j \in 1..(k - 1)
  <2>1. j \in 1..(m - 1) /\ j \in 1..(n - 1)
    BY <1>4
  <2> QED
    BY <1>2, <1>3, <2>1
<1> QED
  BY <1>1, <1>4, <1>5, <1>6 DEF Cheaper

(* Candidates that have an order: finitely many, each with its own cost.   *)
Sortable(S) ==
  /\ IsFiniteSet(S)
  /\ \A a \in S : a.cost \in Costs
  /\ \A a, b \in S : a.cost = b.cost => a = b

(* The best candidate is one of them.                                      *)
LEMMA BestIsIn ==
  ASSUME NEW S, Sortable(S), S # {}
  PROVE  Best(S) \in S
<1> DEFINE order == {p \in S \X S : Cheaper(p[1].cost, p[2].cost)}
<1>1. \A a, b \in S : <<a, b>> \in order <=> Cheaper(a.cost, b.cost)
  OBVIOUS
<1> HIDE DEF order
<1>2. \A a, b \in S : a # b => <<a, b>> \in order \/ <<b, a>> \in order
  BY <1>1, CheaperIsTotal DEF Sortable
<1>3. \A a, b, c \in S : <<a, b>> \in order /\ <<b, c>> \in order => <<a, c>> \in order
  BY <1>1, CheaperIsTransitive DEF Sortable
<1>4. PICK a \in S : \A b \in S \ {a} : <<a, b>> \in order
  <2>1. IsFiniteSet(S)
    BY DEF Sortable
  <2> QED
    BY <1>2, <1>3, <2>1, FirstExists
<1>5. \E x \in S : \A b \in S \ {x} : Cheaper(x.cost, b.cost)
  BY <1>1, <1>4
<1> QED
  BY <1>5 DEF Best

LEMMA SortableSubset ==
  ASSUME NEW S, Sortable(S), NEW T \in SUBSET S
  PROVE  Sortable(T)
BY FS_Subset DEF Sortable

(* A window can be moved to finitely many places of its work area.         *)
LEMMA OffsetsAreBounded ==
  ASSUME NEW place \in Rect, NEW work \in Rect, NEW d \in Int \X Int,
         FullyWithin(Translated(place, d[1], d[2]), work)
  PROVE  d \in ((work.left - place.left)..(work.right - place.right))
                \X ((work.top - place.top)..(work.bottom - place.bottom))
<1>1. /\ place.left \in Int /\ place.right \in Int /\ place.top \in Int
      /\ place.bottom \in Int /\ work.left \in Int /\ work.right \in Int
      /\ work.top \in Int /\ work.bottom \in Int /\ d[1] \in Int /\ d[2] \in Int
      /\ d = <<d[1], d[2]>>
  BY DEF Rect
<1>2. /\ work.left <= place.left + d[1] /\ place.right + d[1] <= work.right
      /\ work.top <= place.top + d[2] /\ place.bottom + d[2] <= work.bottom
  BY DEF FullyWithin, ContainsRect, Translated, R
<1>3. /\ d[1] \in (work.left - place.left)..(work.right - place.right)
      /\ d[2] \in (work.top - place.top)..(work.bottom - place.bottom)
  BY <1>1, <1>2
<1> QED
  BY <1>1, <1>3

(* What rank_candidates() asks of a candidate it accepts.                  *)
Acceptance(windows, i, d, stable, g) ==
  IF stable THEN Scan(Shifted(windows, i, d), g) = Clear
  ELSE Recognised(Analysis(Shifted(windows, i, d), i, g), g)

(* The candidates rank_candidates() accepts have an order, and each is     *)
(* what the search, or the last pass, asks for.                            *)
LEMMA RankedType ==
  ASSUME NEW windows \in Seq(LayoutWindow), NEW i \in DOMAIN windows, NEW offsets, NEW a,
         NEW stable \in BOOLEAN, NEW g \in Goals, Stable[i] \in Rect
  PROVE  LET taken == Ranked(windows, i, offsets, a, stable, g).accepted
         IN /\ Sortable(taken)
            /\ \A b \in taken :
                 b.offset \in Int \X Int /\ Acceptance(windows, i, b.offset, stable, g)
<1> DEFINE ranked == Ranked(windows, i, offsets, a, stable, g)
           w == windows[i]
           available == i # a /\ w.managed /\ w.movable /\ w.visible /\ w.current /\ w.monitor # 0
           inside == {d \in ToSet(offsets) :
                        /\ available /\ d \in Int \X Int
                        /\ FullyWithin(Translated(w.place, d[1], d[2]), w.work)}
           verdicts == {Tried(windows, i, d, stable, g) : d \in inside}
           loads == Loads(windows, i, a, g)
           cost(v) == Cost(w, v.offset, Stable[i], v.seen, loads["Left"], loads["Right"])
<1>1. ranked = Accepted(w, Stable[i], verdicts, loads)
  BY DEF Ranked
<1>2. w \in LayoutWindow /\ w.work \in Rect /\ w.place \in Rect
  BY LayoutType DEF LayoutWindow
<1>3. inside \subseteq Int \X Int /\ IsFiniteSet(inside)
  <2> DEFINE xs == (w.work.left - w.place.left)..(w.work.right - w.place.right)
             ys == (w.work.top - w.place.top)..(w.work.bottom - w.place.bottom)
  <2>1. ASSUME NEW d \in inside PROVE d \in xs \X ys
    <3>1. d \in Int \X Int /\ FullyWithin(Translated(w.place, d[1], d[2]), w.work)
      OBVIOUS
    <3> HIDE DEF inside
    <3> QED
      BY <1>2, <3>1, OffsetsAreBounded
  <2>2. IsFiniteSet(xs) /\ IsFiniteSet(ys)
    <3>1. /\ w.work.left - w.place.left \in Int /\ w.work.right - w.place.right \in Int
          /\ w.work.top - w.place.top \in Int /\ w.work.bottom - w.place.bottom \in Int
      <4> DEFINE p == w.place
                 q == w.work
      <4>1. p \in Rect /\ q \in Rect
        BY <1>2
      <4> HIDE DEF p, q, w, inside
      <4>2. q.left - p.left \in Int /\ q.right - p.right \in Int
            /\ q.top - p.top \in Int /\ q.bottom - p.bottom \in Int
        BY <4>1 DEF Rect
      <4> QED
        BY <4>2 DEF p, q
    <3> QED
      BY <3>1, FS_Interval
  <2> HIDE DEF xs, ys
  <2>3. IsFiniteSet(xs \X ys)
    BY <2>2, FS_Product
  <2>4. inside \in SUBSET (xs \X ys)
    BY <2>1
  <2>5. inside \subseteq Int \X Int
    OBVIOUS
  <2> HIDE DEF inside
  <2> QED
    BY <2>3, <2>4, <2>5, FS_Subset
<1>4. \A d \in inside : ~ Empty(w.work)
  BY DEF FullyWithin
<1>5. ASSUME NEW d \in inside
      PROVE  LET v == Tried(windows, i, d, stable, g)
                 seen == Analysis(Shifted(windows, i, d), i, g)
                 scan == IF stable THEN Scan(Shifted(windows, i, d), g) ELSE Clear
             IN /\ v.offset = d /\ v.seen = seen
                /\ v.good = IF stable THEN scan.violations = {} ELSE Recognised(seen, g)
                /\ v.complex = (scan.status # "Ok" \/ (scan.violations = {} /\ ~ seen.sized))
                /\ seen.area \in Int /\ seen.corners \subseteq {"Left", "Right"}
  <2>1. Shifted(windows, i, d) \in Seq(LayoutWindow) /\ i \in DOMAIN Shifted(windows, i, d)
    BY <1>3, <1>5, ShiftedType
  <2>2. /\ Analysis(Shifted(windows, i, d), i, g).area \in Int
        /\ Analysis(Shifted(windows, i, d), i, g).corners \subseteq {"Left", "Right"}
    BY <2>1, AnalysisType
  <2> QED
    BY <2>2 DEF Tried, Verdict
<1>6. loads["Left"] \in Nat /\ loads["Right"] \in Nat
  BY LoadsType
<1> HIDE DEF inside, loads
<1>7. CASE \E v \in verdicts : v.complex
  <2>1. ranked.accepted = {}
    BY <1>1, <1>7 DEF Accepted
  <2> QED
    BY <2>1, FS_EmptySet DEF Sortable
<1>8. CASE ~ \E v \in verdicts : v.complex
  <2> DEFINE good == {d \in inside : Tried(windows, i, d, stable, g).good}
             one(d) == [offset |-> d, cost |-> cost(Tried(windows, i, d, stable, g))]
             f == [d \in good |-> one(d)]
  <2>1. ranked.accepted = {f[d] : d \in good}
    <3>1. ranked.accepted = {[offset |-> v.offset, cost |-> cost(v)] : v \in {u \in verdicts :
              u.good}}
      BY <1>1, <1>8 DEF Accepted
    <3>2. \A d \in inside : Tried(windows, i, d, stable, g).offset = d
      BY <1>5
    <3> HIDE DEF cost
    <3> DEFINE rated == {[offset |-> v.offset, cost |-> cost(v)] : v \in {u \in verdicts :
          u.good}}
    <3>3. ASSUME NEW c \in rated PROVE \E d \in good : c = one(d)
      <4>1. PICK v \in verdicts : v.good /\ c = [offset |-> v.offset, cost |-> cost(v)]
        OBVIOUS
      <4>2. PICK d \in inside : v = Tried(windows, i, d, stable, g)
        BY <4>1
      <4>3. d \in good /\ v.offset = d
        BY <3>2, <4>1, <4>2
      <4>4. c = one(d)
        BY <4>1, <4>2, <4>3
      <4> QED
        BY <4>3, <4>4
    <3>4. ASSUME NEW d \in good PROVE one(d) \in rated
      <4>1. Tried(windows, i, d, stable, g) \in {u \in verdicts : u.good} /\ d \in inside
        OBVIOUS
      <4>2. Tried(windows, i, d, stable, g).offset = d
        BY <3>2, <4>1
      <4> QED
        BY <4>1, <4>2
    <3>5. \A d \in good : f[d] = one(d)
      OBVIOUS
    <3> HIDE DEF rated, good, one, f
    <3> QED
      BY <3>1, <3>3, <3>4, <3>5 DEF rated
  <2>2. ASSUME NEW d \in good
        PROVE  /\ f[d].offset = d /\ d \in Int \X Int
               /\ f[d].cost \in Costs
               /\ f[d].cost[14] = w.place.left + d[1] /\ f[d].cost[15] = w.place.top + d[2]
               /\ Acceptance(windows, i, d, stable, g)
    <3> DEFINE v == Tried(windows, i, d, stable, g)
    <3>1. d \in inside /\ d \in Int \X Int /\ v.good /\ ~ v.complex
      BY <1>3, <1>8
    <3>2. /\ v.offset = d /\ v.seen.area \in Int /\ v.seen.corners \subseteq {"Left", "Right"}
      BY <1>5, <3>1
    <3>3. ~ Empty(w.work)
      BY <1>4, <3>1
    <3>4. f[d] = [offset |-> d, cost |-> cost(v)]
      OBVIOUS
    <3>5. Acceptance(windows, i, d, stable, g)
      <4>1. CASE stable
        <5>1. /\ Scan(Shifted(windows, i, d), g).violations = {}
              /\ Scan(Shifted(windows, i, d), g).status = "Ok"
          BY <1>5, <3>1, <4>1
        <5>2. Scan(Shifted(windows, i, d), g) = Clear
          BY <5>1 DEF Scan, Judgement, Clear
        <5> QED
          BY <4>1, <5>2 DEF Acceptance
      <4>2. CASE ~ stable
        BY <1>5, <3>1, <4>2 DEF Acceptance
      <4> QED
        BY <4>1, <4>2
    <3> HIDE DEF v, w, f
    <3>6. /\ cost(v) \in Costs /\ cost(v)[14] = w.place.left + d[1]
          /\ cost(v)[15] = w.place.top + d[2]
      <4> DEFINE c == Cost(w, d, Stable[i], v.seen, loads["Left"], loads["Right"])
      <4>1. c \in Costs /\ c[14] = w.place.left + d[1] /\ c[15] = w.place.top + d[2]
        <5>1. /\ w \in LayoutWindow /\ d \in Int \X Int /\ Stable[i] \in Rect
              /\ v.seen.area \in Int /\ v.seen.corners \subseteq {"Left", "Right"}
              /\ ~ Empty(w.work) /\ loads["Left"] \in Nat /\ loads["Right"] \in Nat
          BY <1>2, <1>6, <3>1, <3>2, <3>3
        <5> DEFINE s == v.seen
                   l == loads["Left"]
                   r == loads["Right"]
                   p == Stable[i]
        <5>2. w \in LayoutWindow /\ d \in Int \X Int /\ p \in Rect /\ s.area \in Int
              /\ s.corners \subseteq {"Left", "Right"} /\ ~ Empty(w.work) /\ l \in Nat
                     /\ r \in Nat
          BY <5>1
        <5> HIDE DEF s, l, r, p
        <5>3. /\ Cost(w, d, p, s, l, r) \in Costs
              /\ Cost(w, d, p, s, l, r)[14] = w.place.left + d[1]
              /\ Cost(w, d, p, s, l, r)[15] = w.place.top + d[2]
          BY <5>2, CostType
        <5> QED
          BY <5>3 DEF s, l, r, p
      <4>2. cost(v) = c
        BY <3>2
      <4> QED
        BY <4>1, <4>2
    <3> HIDE DEF cost
    <3> QED
      BY <3>1, <3>4, <3>5, <3>6
  <2>3. IsFiniteSet(ranked.accepted)
    <3>1. IsFiniteSet(good)
      BY <1>3, FS_Subset
    <3>2. DOMAIN f = good /\ f = [x \in good |-> f[x]]
      OBVIOUS
    <3> HIDE DEF f, good
    <3> QED
      BY <2>1, <3>1, <3>2, ImageIsFinite
  <2> HIDE DEF f, good, one, cost
  <2>4. ASSUME NEW d \in good, NEW e \in good, f[d].cost = f[e].cost PROVE f[d] = f[e]
    <3>1. w.place.left + d[1] = w.place.left + e[1] /\ w.place.top + d[2] = w.place.top + e[2]
      BY <2>2, <2>4
    <3>2. w.place.left \in Int /\ w.place.top \in Int /\ d \in Int \X Int /\ e \in Int \X Int
      BY <1>2, <2>2 DEF Rect
    <3> HIDE DEF w
    <3>3. d = e
      BY <3>1, <3>2
    <3> QED
      BY <3>3
  <2>5. Sortable(ranked.accepted)
    BY <2>1, <2>2, <2>3, <2>4 DEF Sortable
  <2>6. \A b \in ranked.accepted :
          b.offset \in Int \X Int /\ Acceptance(windows, i, b.offset, stable, g)
    BY <2>1, <2>2
  <2> QED
    BY <2>5, <2>6
<1> QED
  BY <1>7, <1>8

(* One step of the choice of the best n.                                   *)
NextBest(S, best) == Append(best, Best(S \ ToSet(best)))

BestFrom(S, steps, iter) ==
  [T \in SUBSET steps |-> IF T = {} THEN <<>> ELSE NextBest(S, iter[T \ {Max(T)}])]

(* A sequence with one element more.                                       *)
LEMMA AppendedSet ==
  ASSUME NEW S, NEW s \in Seq(S), NEW e \in S
  PROVE  Append(s, e) \in Seq(S) /\ ToSet(Append(s, e)) = ToSet(s) \cup {e}
<1>1. Append(s, e) \in Seq(S) /\ Len(Append(s, e)) = Len(s) + 1 /\ Len(s) \in Nat
  OBVIOUS
<1>2. DOMAIN Append(s, e) = 1..(Len(s) + 1) /\ DOMAIN s = 1..Len(s)
  BY <1>1, LenProperties
<1>3. Append(s, e)[Len(s) + 1] = e /\ \A m \in 1..Len(s) : Append(s, e)[m] = s[m]
  OBVIOUS
<1>4. 1..(Len(s) + 1) = 1..Len(s) \cup {Len(s) + 1}
  BY <1>1
<1> QED
  BY <1>1, <1>2, <1>3, <1>4 DEF ToSet

(* The best n candidates are candidates.                                   *)
LEMMA BestFirstType ==
  ASSUME NEW S, Sortable(S), NEW n \in Int, n <= Cardinality(S)
  PROVE  BestFirst(S, n) \in Seq(S)
<1> DEFINE steps == 1..n
           iter == CHOOSE f : f = BestFrom(S, steps, f)
           pick == [T \in SUBSET steps |-> Max(T)]
           next == [p \in steps \X Seq(S) |->
                      IF S \ ToSet(p[2]) = {} THEN p[2] ELSE NextBest(S, p[2])]
<1>1. BestFirst(S, n) = iter[steps]
  <2>1. DOMAIN [k \in 1..n |-> k] = steps
    OBVIOUS
  <2> QED
    BY <2>1 DEF BestFirst, FoldLeft, MapThenFoldSet, BestFrom, NextBest
<1>2. IsFiniteSet(steps) /\ steps \subseteq Int /\ Cardinality(steps) = (IF n < 1 THEN 0 ELSE n)
  <2>1. 1 \in Int
    OBVIOUS
  <2> QED
    BY <2>1, FS_Interval
<1>3. IsFiniteSet(S) /\ Cardinality(S) \in Nat
  BY FS_CardinalityType DEF Sortable
<1> HIDE DEF steps
<1>4. ASSUME NEW b \in Seq(S), S \ ToSet(b) # {}
      PROVE  /\ NextBest(S, b) \in Seq(S)
             /\ \E e \in S : ToSet(NextBest(S, b)) = ToSet(b) \cup {e}
  <2>1. S \ ToSet(b) \in SUBSET S
    OBVIOUS
  <2>2. Best(S \ ToSet(b)) \in S
    BY <1>4, <2>1, BestIsIn, SortableSubset
  <2> DEFINE e == Best(S \ ToSet(b))
  <2>3. NextBest(S, b) = Append(b, e) /\ e \in S
    BY <2>2 DEF NextBest
  <2> HIDE DEF e
  <2>4. Append(b, e) \in Seq(S) /\ ToSet(Append(b, e)) = ToSet(b) \cup {e}
    BY <2>3, AppendedSet
  <2> QED
    BY <2>3, <2>4
<1>5. next \in [steps \X Seq(S) -> Seq(S)]
  BY <1>4
<1>6. /\ \A T \in SUBSET steps : pick[T] = Max(T)
      /\ \A k \in steps : \A b \in Seq(S) :
           next[<<k, b>>] = IF S \ ToSet(b) = {} THEN b ELSE NextBest(S, b)
  OBVIOUS
<1>7. ASSUME NEW T \in SUBSET steps, T # {} PROVE Max(T) \in T
  <2>1. T \subseteq Int /\ IsFiniteSet(T)
    BY <1>2, FS_Subset
  <2> QED
    BY <1>7, <2>1, LastExists
<1> HIDE DEF pick, next
<1>8. \A T \in SUBSET steps : T # {} => pick[T] \in T
  BY <1>6, <1>7
<1>9. PICK f \in [SUBSET steps -> Seq(S)] : IsFold(f, SUBSET steps, pick, <<>>, next)
  <2>1. <<>> \in Seq(S)
    OBVIOUS
  <2> QED
    BY <1>2, <1>5, <1>8, <2>1, FoldExists
<1>10. ASSUME NEW T \in SUBSET steps, T # {}
       PROVE  /\ T \ {Max(T)} \in SUBSET steps
              /\ f[T] = LET b == f[T \ {Max(T)}] IN IF S \ ToSet(b)
                     = {} THEN b ELSE NextBest(S, b)
  <2>1. T \ {pick[T]} \in SUBSET steps /\ pick[T] \in steps
    BY <1>8, <1>10
  <2>2. f[T \ {pick[T]}] \in Seq(S)
    BY <2>1
  <2>3. f[T] = next[<<pick[T], f[T \ {pick[T]}]>>]
    BY <1>9, <1>10 DEF IsFold
  <2>4. f[T] = LET b == f[T \ {pick[T]}] IN IF S \ ToSet(b) = {} THEN b ELSE NextBest(S, b)
    BY <1>6, <2>1, <2>2, <2>3
  <2> QED
    BY <1>6, <2>1, <2>4
<1>11. \A T \in SUBSET steps : IsFiniteSet(T) /\ Cardinality(T) \in Nat
  BY <1>2, FS_Subset, FS_CardinalityType
<1> DEFINE Few(T) == /\ IsFiniteSet(ToSet(f[T])) /\ Cardinality(ToSet(f[T])) <= Cardinality(T)
<1>12. \A T \in SUBSET steps : Few(T)
  <2> SUFFICES ASSUME NEW U \in SUBSET steps PROVE Few(U)
    OBVIOUS
  <2> DEFINE G == {T \in SUBSET steps : Few(T)}
  <2>1. {} \in G
    <3>1. f[{}] = <<>>
      BY <1>9 DEF IsFold
    <3>2. ToSet(f[{}]) = {}
      BY <3>1 DEF ToSet
    <3>3. IsFiniteSet({}) /\ Cardinality({}) <= Cardinality({})
      BY FS_EmptySet
    <3>4. Few({})
      BY <3>2, <3>3, Zenon
    <3> QED
      BY <3>4
  <2>2. ASSUME NEW T \in SUBSET steps, T # {}, T \ {Max(T)} \in G PROVE Few(T)
    <3> DEFINE b == f[T \ {Max(T)}]
    <3>1. Max(T) \in T /\ b \in Seq(S) /\ T \ {Max(T)} \in SUBSET steps
      BY <1>7, <1>10, <2>2
    <3>2. IsFiniteSet(ToSet(b)) /\ Cardinality(ToSet(b)) <= Cardinality(T \ {Max(T)})
      BY <2>2
    <3>3. Cardinality(T \ {Max(T)}) = Cardinality(T) - 1 /\ Cardinality(T) \in Nat
      BY <1>11, <3>1, FS_RemoveElement
    <3>4. Cardinality(ToSet(b)) \in Nat
      BY <3>2, FS_CardinalityType
    <3>5. CASE S \ ToSet(b) = {}
      <4>1. f[T] = b
        BY <1>10, <2>2, <3>5
      <4> HIDE DEF b
      <4> QED
        BY <3>2, <3>3, <3>4, <4>1
    <3>6. CASE S \ ToSet(b) # {}
      <4>1. f[T] = NextBest(S, b)
        BY <1>10, <2>2, <3>6
      <4>2. PICK e \in S : ToSet(NextBest(S, b)) = ToSet(b) \cup {e}
        BY <1>4, <3>1, <3>6
      <4> HIDE DEF b
      <4>3. IsFiniteSet(ToSet(b) \cup {e})
            /\ Cardinality(ToSet(b) \cup {e}) <= Cardinality(ToSet(b)) + 1
        <5> DEFINE B == ToSet(b)
        <5>1. IsFiniteSet(B) /\ Cardinality(B) \in Nat
          BY <3>2, <3>4
        <5> HIDE DEF B
        <5>2. /\ IsFiniteSet(B \cup {e})
              /\ Cardinality(B \cup {e}) = IF e \in B THEN Cardinality(B) ELSE Cardinality(B) + 1
          BY <5>1, FS_AddElement
        <5>3. Cardinality(B \cup {e}) <= Cardinality(B) + 1
          BY <5>1, <5>2
        <5> QED
          BY <5>2, <5>3 DEF B
      <4>4. Cardinality(ToSet(b) \cup {e}) \in Nat
        BY <4>3, FS_CardinalityType
      <4>5. ToSet(f[T]) = ToSet(b) \cup {e}
        BY <4>1, <4>2
      <4>6. Cardinality(ToSet(b) \cup {e}) <= Cardinality(T)
        BY <3>2, <3>3, <3>4, <4>3, <4>4
      <4> QED
        BY <4>3, <4>5, <4>6
    <3> QED
      BY <3>5, <3>6
  <2>3. \A T \in SUBSET U : T # {} => \E k \in T : T \ {k} \in G => T \in G
    <3> TAKE T \in SUBSET U
    <3> HAVE T # {}
    <3>1. T \in SUBSET steps /\ Max(T) \in T
      BY <1>7
    <3>2. T \ {Max(T)} \in G => T \in G
      BY <2>2, <3>1
    <3> QED
      BY <3>1, <3>2
  <2> HIDE DEF G
  <2>4. IsFiniteSet(U)
    BY <1>11
  <2>5. U \in G
    BY <2>1, <2>3, <2>4, SetInduction
  <2> QED
    BY <2>5 DEF G
<1> HIDE DEF Few
<1>13. ASSUME NEW T \in SUBSET steps, T # {}
       PROVE  f[T] = NextBest(S, f[T \ {Max(T)}])
  <2> DEFINE U == T \ {Max(T)}
             b == f[U]
  <2>1. Max(T) \in T /\ U \in SUBSET steps
    BY <1>7, <1>13
  <2>2. Cardinality(U) = Cardinality(T) - 1 /\ Cardinality(T) \in Nat /\ Cardinality(U) \in Nat
    BY <1>11, <2>1, FS_RemoveElement
  <2>3. Cardinality(T) <= Cardinality(steps)
    BY <1>2, FS_Subset
  <2>4. Cardinality(ToSet(b)) <= Cardinality(U) /\ IsFiniteSet(ToSet(b))
    BY <1>12, <2>1 DEF Few
  <2>5. Cardinality(ToSet(b)) \in Nat
    BY <2>4, FS_CardinalityType
  <2> DEFINE used == ToSet(b)
  <2>6. Cardinality(used) < Cardinality(S)
    <3> HIDE DEF used, U, b
    <3>1. Cardinality(used) <= Cardinality(U) /\ Cardinality(used) \in Nat
      BY <2>4, <2>5 DEF used
    <3>2. Cardinality(steps) <= Cardinality(S)
      BY <1>2, <1>3
    <3> QED
      BY <1>2, <1>3, <2>2, <2>3, <3>1, <3>2
  <2>7. S \ used # {}
    <3> SUFFICES ASSUME S \ used = {} PROVE FALSE
      OBVIOUS
    <3>1. S \in SUBSET used
      OBVIOUS
    <3>2. Cardinality(S) <= Cardinality(used)
      BY <2>4, <3>1, FS_Subset
    <3> HIDE DEF used
    <3> QED
      BY <1>3, <2>5, <2>6, <3>2 DEF used
  <2> QED
    BY <1>10, <1>13, <2>7
<1>14. f = BestFrom(S, steps, f)
  <2>1. f[{}] = <<>>
    BY <1>9 DEF IsFold
  <2> QED
    BY <1>13, <2>1 DEF BestFrom
<1>15. iter = BestFrom(S, steps, iter)
  BY <1>14
<1> HIDE DEF iter
<1> DEFINE H == {T \in SUBSET steps : iter[T] = f[T]}
<1>16. {} \in H
  BY <1>14, <1>15 DEF BestFrom
<1>17. \A T \in SUBSET steps : T # {} => \E k \in T : T \ {k} \in H => T \in H
  <2> TAKE T \in SUBSET steps
  <2> HAVE T # {}
  <2>1. Max(T) \in T /\ T \ {Max(T)} \in SUBSET steps
    BY <1>7
  <2>2. iter[T] = NextBest(S, iter[T \ {Max(T)}])
    BY <1>15 DEF BestFrom
  <2>3. T \ {Max(T)} \in H => T \in H
    BY <1>13, <2>2
  <2> QED
    BY <2>1, <2>3
<1> HIDE DEF H
<1>18. steps \in H
  BY <1>2, <1>16, <1>17, SetInduction
<1>19. iter[steps] = f[steps] /\ f[steps] \in Seq(S)
  BY <1>18 DEF H
<1> QED
  BY <1>1, <1>19

-----------------------------------------------------------------------------
(* Layouts of a snapshot, and staircases                                   *)

(* The window the folds over targets take last.                            *)
Furthest(S) == CHOOSE i \in S : \A j \in S \ {i} : Nearer(j, i)

(* Some windows have a nearest and a furthest one.                         *)
LEMMA NearestIsIn ==
  ASSUME given \in Seq(LayoutWindow), NEW S, S \subseteq DOMAIN given, S # {}
  PROVE  /\ Nearest(S) \in S /\ \A j \in S \ {Nearest(S)} : Nearer(Nearest(S), j)
         /\ Furthest(S) \in S
<1> DEFINE near == {p \in S \X S : Nearer(p[1], p[2])}
           far == {p \in S \X S : Nearer(p[2], p[1])}
<1>1. IsFiniteSet(S) /\ S \subseteq Int /\ \A i \in S : given[i].z \in Int
  <2>1. IsFiniteSet(S)
    BY LayoutType, FS_Subset
  <2> QED
    BY <2>1, LayoutType
<1>2. /\ \A i, j \in S : i # j => Nearer(i, j) \/ Nearer(j, i)
      /\ \A i, j, k \in S : Nearer(i, j) /\ Nearer(j, k) => Nearer(i, k)
  BY <1>1 DEF Nearer
<1>3. /\ \A i, j \in S : <<i, j>> \in near <=> Nearer(i, j)
      /\ \A i, j \in S : <<i, j>> \in far <=> Nearer(j, i)
  OBVIOUS
<1> HIDE DEF near, far
<1>4. PICK a \in S : \A b \in S \ {a} : <<a, b>> \in near
  <2>1. /\ \A i, j \in S : i # j => <<i, j>> \in near \/ <<j, i>> \in near
        /\ \A i, j, k \in S : <<i, j>> \in near /\ <<j, k>> \in near => <<i, k>> \in near
    BY <1>2, <1>3
  <2> QED
    BY <1>1, <2>1, FirstExists
<1>5. PICK z \in S : \A b \in S \ {z} : <<z, b>> \in far
  <2>1. /\ \A i, j \in S : i # j => <<i, j>> \in far \/ <<j, i>> \in far
        /\ \A i, j, k \in S : <<i, j>> \in far /\ <<j, k>> \in far => <<i, k>> \in far
    BY <1>2, <1>3
  <2> QED
    BY <1>1, <2>1, FirstExists
<1>6. /\ \E i \in S : \A j \in S \ {i} : Nearer(i, j)
      /\ \E i \in S : \A j \in S \ {i} : Nearer(j, i)
  BY <1>3, <1>4, <1>5
<1> QED
  BY <1>6 DEF Nearest, Furthest

(* Layouts of the snapshot: its windows, in its layers. *)
Layouts == {w \in Seq(LayoutWindow) :
              Len(w) = Len(given) /\ \A i \in DOMAIN given : w[i].z = given[i].z}

LEMMA LayoutsType ==
  ASSUME NEW w \in Layouts
  PROVE  /\ w \in Seq(LayoutWindow) /\ DOMAIN w = DOMAIN given
         /\ \A i \in DOMAIN given : w[i].z = given[i].z
         /\ Judged(w) \subseteq DOMAIN given
<1>1. w \in Seq(LayoutWindow) /\ Len(w) = Len(given)
          /\ \A i \in DOMAIN given : w[i].z = given[i].z
  BY DEF Layouts
<1> QED
  BY <1>1 DEF Judged

Directions == {"TopLeft", "TopRight", "Left", "Right", "Bottom"}

LEMMA StairDirectionsType ==
  /\ Len(StairDirections) \in Nat /\ 1 \in 1..Len(StairDirections)
  /\ \A k \in 1..Len(StairDirections) : StairDirections[k] \in Directions
<1>1. CASE goal = "TopAndSide"
  BY <1>1 DEF StairDirections, Directions
<1>2. CASE goal # "TopAndSide"
  BY <1>2 DEF StairDirections, Directions
<1> QED
  BY <1>1, <1>2

(* staircase_placement() moves a window within its layer.                  *)
LEMMA StairType ==
  ASSUME NEW w \in LayoutWindow, NEW from \in Rect, NEW direction \in Directions
  PROVE  Stair(w, from, direction) \in LayoutWindow /\ Stair(w, from, direction).z = w.z
<1> DEFINE top == Depth(w, "Top", goal)
           above == from.top - (top + top \div 2 + (top % 2))
           left == from.left - Depth(w, "Left", goal)
           right == from.right + Depth(w, "Right", goal) - Width(w.visual)
           below == from.bottom + Depth(w, "Bottom", goal) - Height(w.visual)
           to == CASE direction = "TopLeft"  -> <<left, above>>
                   [] direction = "TopRight" -> <<right, above>>
                   [] direction = "Left"     -> <<left, from.top>>
                   [] direction = "Right"    -> <<right, from.top>>
                   [] direction = "Bottom"   -> <<from.left, below>>
           dx == to[1] - w.visual.left
           dy == to[2] - w.visual.top
<1>1. /\ from.left \in Int /\ from.right \in Int /\ from.top \in Int /\ from.bottom \in Int
      /\ w.visual \in Rect /\ w.visual.left \in Int /\ w.visual.top \in Int
  BY DEF Rect, LayoutWindow
<1>2. Width(w.visual) \in Int /\ Height(w.visual) \in Int
  BY <1>1, ExtentType
<1>3. \A e \in Edges : Depth(w, e, goal) \in Int
  BY DepthType
<1>4. /\ top \in Int /\ Depth(w, "Left", goal) \in Int /\ Depth(w, "Right", goal) \in Int
      /\ Depth(w, "Bottom", goal) \in Int
  BY <1>3 DEF Edges
<1> HIDE DEF top
<1>5. above \in Int
  <2>1. top \div 2 \in Int /\ top % 2 \in Int
    BY <1>4
  <2> QED
    BY <1>1, <1>4, <2>1
<1>6. left \in Int /\ right \in Int /\ below \in Int
  BY <1>1, <1>2, <1>4
<1> HIDE DEF above, left, right, below
<1>7. to[1] \in Int /\ to[2] \in Int
  BY <1>1, <1>5, <1>6 DEF Directions
<1> HIDE DEF to
<1>8. dx \in Int /\ dy \in Int
  BY <1>1, <1>7
<1>9. Stair(w, from, direction) = Elsewhere(w, dx, dy)
  BY DEF Stair, to, above, left, right, below, top
<1> HIDE DEF dx, dy
<1> QED
  BY <1>8, <1>9, ElsewhereType

LEMMA TurnedType ==
  ASSUME given \in Seq(LayoutWindow), active \in DOMAIN given,
         NEW w \in LayoutWindow, NEW direction \in Directions, NEW occupied \in Rect
  PROVE  Turned(w, direction, occupied) \in Rect
<1> DEFINE r == given[active].visual
<1>1. r \in Rect
  BY LayoutType
<1>2. /\ occupied.left \in Int /\ occupied.right \in Int /\ occupied.bottom \in Int
  BY DEF Rect
<1>3. Length(w, "Top") \in Int
  BY LengthType DEF Edges
<1>4. occupied.right + Length(w, "Top") \in Int
  BY <1>2, <1>3
<1> HIDE DEF r
<1>5. \A a \in Int : /\ [r EXCEPT !.left = a] \in Rect /\ [r EXCEPT !.right = a] \in Rect
                     /\ [r EXCEPT !.bottom = a] \in Rect
  BY <1>1 DEF Rect
<1> QED
  BY <1>1, <1>2, <1>4, <1>5 DEF Turned, Directions, r

LEMMA AroundType ==
  ASSUME NEW r \in Rect, NEW s \in Rect
  PROVE  Around(r, s) \in Rect
BY DEF Around, Rect, R, Lower, Upper

Climbs == [windows : Layouts, anchor : Rect, occupied : Rect,
           direction : 1..Len(StairDirections), failed : BOOLEAN, planned : Int]

(* A round places one window after the other.                              *)
LEMMA ClimbOneType ==
  ASSUME given \in Seq(LayoutWindow), active \in DOMAIN given,
         NEW c \in Climbs, NEW i \in DOMAIN given
  PROVE  ClimbOne(c, i) \in Climbs
<1> DEFINE w == given[i]
           N == Len(StairDirections)
           Try(k) == Stair(w, IF k = c.direction THEN c.anchor
                              ELSE Turned(w, StairDirections[k], c.occupied), StairDirections[k])
           fitting == {k \in c.direction..N : FullyWithin(Try(k).place, w.work)}
           to == Try(Min(fitting))
           ends == [c EXCEPT !.failed = TRUE]
           on == [c EXCEPT !.windows[i] = to, !.anchor = to.visual,
                           !.occupied = Around(@, to.visual), !.direction = Min(fitting),
                           !.planned = @ + (IF to.place # w.place THEN 1 ELSE 0)]
<1>1. w \in LayoutWindow
  BY LayoutType
<1>2. /\ c.windows \in Layouts /\ c.anchor \in Rect /\ c.occupied \in Rect
      /\ c.direction \in 1..N /\ c.planned \in Int /\ N \in Nat
  BY StairDirectionsType DEF Climbs
<1>3. ASSUME NEW k \in 1..N PROVE Try(k) \in LayoutWindow /\ Try(k).z = w.z
  <2>1. StairDirections[k] \in Directions
    BY StairDirectionsType
  <2>2. Turned(w, StairDirections[k], c.occupied) \in Rect
    BY <1>1, <1>2, <2>1, TurnedType
  <2> DEFINE from == IF k = c.direction THEN c.anchor
                     ELSE Turned(w, StairDirections[k], c.occupied)
  <2>3. from \in Rect
    BY <1>2, <2>2
  <2> HIDE DEF from
  <2>4. /\ Stair(w, from, StairDirections[k]) \in LayoutWindow
        /\ Stair(w, from, StairDirections[k]).z = w.z
    BY <1>1, <2>1, <2>3, StairType
  <2> QED
    BY <2>4 DEF from
<1> HIDE DEF Try
<1>4. ends \in Climbs
  BY DEF Climbs
<1>5. ASSUME fitting # {} PROVE on \in Climbs
  <2>1. fitting \subseteq 1..N
    BY <1>2
  <2>2. Min(fitting) \in 1..N
    <3>1. IsFiniteSet(1..N)
      <4>1. 1 \in Int /\ N \in Int
        BY <1>2
      <4> HIDE DEF N
      <4> QED
        BY <4>1, FS_Interval
    <3> HIDE DEF fitting, N
    <3>4. fitting \in SUBSET (1..N) /\ \A k \in 1..N : k \in Int
      BY <2>1
    <3>2. IsFiniteSet(fitting) /\ fitting \subseteq Int
      BY <3>1, <3>4, FS_Subset
    <3>3. Min(fitting) \in fitting
      BY <1>5, <3>2, LastExists
    <3> QED
      BY <2>1, <3>3
  <2> DEFINE m == Min(fitting)
  <2> HIDE DEF fitting
  <2>3. to \in LayoutWindow /\ to.z = w.z
    BY <1>3, <2>2
  <2> HIDE DEF to
  <2>4. to.visual \in Rect
    BY <2>3 DEF LayoutWindow
  <2>5. Around(c.occupied, to.visual) \in Rect
    BY <1>2, <2>4, AroundType
  <2>6. [c.windows EXCEPT ![i] = to] \in Layouts
    <3>1. /\ c.windows \in Seq(LayoutWindow) /\ DOMAIN c.windows = DOMAIN given
          /\ Len(c.windows) = Len(given) /\ \A j \in DOMAIN given : c.windows[j].z = given[j].z
      BY <1>2, LayoutsType DEF Layouts
    <3>2. i \in 1..Len(c.windows)
      BY <3>1, LayoutType
    <3> DEFINE moved == [c.windows EXCEPT ![i] = to]
    <3>3. moved \in Seq(LayoutWindow) /\ Len(moved) = Len(c.windows)
      BY <2>3, <3>1, <3>2, ExceptSeq
    <3>4. \A j \in DOMAIN given : moved[j].z = given[j].z
      BY <2>3, <3>1
    <3> HIDE DEF moved
    <3>5. moved \in Layouts
      BY <3>1, <3>3, <3>4 DEF Layouts
    <3> QED
      BY <3>5 DEF moved
  <2>7. c.planned + (IF to.place # w.place THEN 1 ELSE 0) \in Int
    BY <1>2
  <2> DEFINE windows == [c.windows EXCEPT ![i] = to]
             around == Around(c.occupied, to.visual)
             planned == c.planned + (IF to.place # w.place THEN 1 ELSE 0)
  <2>8. on = [c EXCEPT !.windows = windows, !.anchor = to.visual, !.occupied = around,
                       !.direction = m, !.planned = planned]
    OBVIOUS
  <2> HIDE DEF windows, around, planned, on, m, N
  <2>9. m \in 1..N
    BY <2>2 DEF m
  <2>10. windows \in Layouts /\ around \in Rect /\ planned \in Int /\ c.failed \in BOOLEAN
    BY <2>5, <2>6, <2>7 DEF windows, around, planned, Climbs
  <2> QED
    BY <2>4, <2>8, <2>9, <2>10 DEF Climbs, N, m
<1>6. ClimbOne(c, i) \in {c, ends} \/ (fitting # {} /\ ClimbOne(c, i) = on)
  BY DEF ClimbOne, Try
<1> HIDE DEF ends, on, fitting
<1> QED
  BY <1>4, <1>5, <1>6

(* The first round before its first window.                                *)
Bottom == [windows |-> given, anchor |-> given[active].visual,
           occupied |-> given[active].visual, direction |-> 1, failed |-> FALSE, planned |-> 0]

(* A round as a fold over the targets.                                     *)
RoundFrom(iter) ==
  [T \in SUBSET Targets |->
     IF T = {} THEN Bottom ELSE ClimbOne(iter[T \ {Furthest(T)}], Furthest(T))]

(* A round answers a layout of the snapshot.                               *)
LEMMA RoundType ==
  ASSUME given \in Seq(LayoutWindow), active \in DOMAIN given
  PROVE  Round.windows \in Layouts
<1> DEFINE iter == CHOOSE f : f = RoundFrom(f)
           pick == [T \in SUBSET Targets |-> Furthest(T)]
           step == [p \in Targets \X Climbs |-> ClimbOne(p[2], p[1])]
<1>1. Round = iter[Targets]
  BY DEF Round, MapThenFoldSet, RoundFrom, Furthest, Bottom
<1>2. Targets \subseteq DOMAIN given /\ IsFiniteSet(Targets)
  <2>1. Targets \in SUBSET (DOMAIN given)
    BY DEF Targets, Judged
  <2> QED
    BY <2>1, LayoutType, FS_Subset
<1>3. Bottom \in Climbs
  <2>1. given \in Layouts
    BY DEF Layouts
  <2>2. given[active].visual \in Rect
    BY LayoutType
  <2>3. 1 \in 1..Len(StairDirections) /\ 0 \in Int
    BY StairDirectionsType
  <2> QED
    BY <2>1, <2>2, <2>3 DEF Bottom, Climbs
<1>4. step \in [Targets \X Climbs -> Climbs]
  BY <1>2, ClimbOneType
<1>5. ASSUME NEW T \in SUBSET Targets, T # {} PROVE Furthest(T) \in T
  <2>1. T \subseteq DOMAIN given
    BY <1>2
  <2> QED
    BY <1>5, <2>1, NearestIsIn
<1>6. /\ \A T \in SUBSET Targets : pick[T] = Furthest(T)
      /\ \A i \in Targets : \A c \in Climbs : step[<<i, c>>] = ClimbOne(c, i)
  OBVIOUS
<1> HIDE DEF pick, step
<1>7. \A T \in SUBSET Targets : T # {} => pick[T] \in T
  BY <1>5, <1>6
<1>8. PICK f \in [SUBSET Targets -> Climbs] : IsFold(f, SUBSET Targets, pick, Bottom, step)
  BY <1>2, <1>3, <1>4, <1>7, FoldExists
<1>9. f = RoundFrom(f)
  <2>1. ASSUME NEW T \in SUBSET Targets, T # {}
        PROVE  f[T] = ClimbOne(f[T \ {Furthest(T)}], Furthest(T))
    <3>1. T \ {pick[T]} \in SUBSET Targets /\ pick[T] \in Targets
      BY <2>1, <1>7
    <3>2. f[T \ {pick[T]}] \in Climbs
      BY <3>1
    <3>3. f[T] = step[<<pick[T], f[T \ {pick[T]}]>>]
      BY <2>1, <1>8 DEF IsFold
    <3>4. f[T] = ClimbOne(f[T \ {pick[T]}], pick[T])
      BY <1>6, <3>1, <3>2, <3>3
    <3> QED
      BY <1>6, <3>4
  <2>2. f[{}] = Bottom
    BY <1>8 DEF IsFold
  <2> QED
    BY <2>1, <2>2 DEF RoundFrom
<1>10. iter = RoundFrom(iter)
  BY <1>9
<1> HIDE DEF iter
<1> DEFINE G == {T \in SUBSET Targets : iter[T] \in Climbs}
<1>11. {} \in G
  BY <1>3, <1>10 DEF RoundFrom
<1>12. ASSUME NEW T \in SUBSET Targets, T # {}
       PROVE  \E i \in T : T \ {i} \in G => T \in G
  <2>1. Furthest(T) \in T /\ Furthest(T) \in DOMAIN given
    BY <1>2, <1>5, <1>12
  <2>2. iter[T] = ClimbOne(iter[T \ {Furthest(T)}], Furthest(T))
    BY <1>10, <1>12 DEF RoundFrom
  <2>3. iter[T \ {Furthest(T)}] \in Climbs => iter[T] \in Climbs
    BY <2>1, <2>2, ClimbOneType
  <2> QED
    BY <2>1, <2>3
<1> HIDE DEF G
<1>13. Targets \in G
  BY <1>2, <1>11, <1>12, SetInduction
<1> QED
  BY <1>1, <1>13 DEF G, Climbs

(* staircase_moves() as a fold over the windows that moved.                *)
PlanFrom(windows, S, iter) ==
  [T \in SUBSET S |->
     IF T = {} THEN <<>>
     ELSE Append(iter[T \ {Furthest(T)}],
                 [window |-> Furthest(T), from |-> given[Furthest(T)].place,
                  to |-> windows[Furthest(T)].place])]

(* staircase_moves() answers a plan.                                       *)
LEMMA PlanType ==
  ASSUME given \in Seq(LayoutWindow), NEW windows \in Layouts
  PROVE  Plan(windows) \in Seq(Move)
<1> DEFINE S == {i \in Targets : windows[i].place # given[i].place}
           move(i) == [window |-> i, from |-> given[i].place, to |-> windows[i].place]
           iter == CHOOSE f : f = PlanFrom(windows, S, f)
           pick == [T \in SUBSET S |-> Furthest(T)]
           step == [p \in S \X Seq(Move) |-> Append(p[2], move(p[1]))]
<1>1. Plan(windows) = iter[S]
  BY DEF Plan, MapThenFoldSet, PlanFrom, Furthest
<1>2. S \subseteq DOMAIN given /\ IsFiniteSet(S)
  <2>1. S \in SUBSET (DOMAIN given)
    BY DEF Targets, Judged
  <2> HIDE DEF S
  <2> QED
    BY <2>1, LayoutType, FS_Subset
<1> HIDE DEF S
<1>3. ASSUME NEW i \in S PROVE move(i) \in Move
  <2>1. i \in DOMAIN given /\ windows \in Seq(LayoutWindow) /\ DOMAIN windows = DOMAIN given
    BY <1>2, LayoutsType
  <2>2. i \in Nat /\ given[i] \in LayoutWindow /\ windows[i] \in LayoutWindow
    BY <2>1, LayoutType
  <2> QED
    BY <2>2 DEF Move, LayoutWindow
<1> HIDE DEF move
<1>4. step \in [S \X Seq(Move) -> Seq(Move)]
  BY <1>3
<1>5. ASSUME NEW T \in SUBSET S, T # {} PROVE Furthest(T) \in T
  <2>1. T \subseteq DOMAIN given
    BY <1>2
  <2> QED
    BY <1>5, <2>1, NearestIsIn
<1>6. /\ \A T \in SUBSET S : pick[T] = Furthest(T)
      /\ \A i \in S : \A s \in Seq(Move) : step[<<i, s>>] = Append(s, move(i))
  OBVIOUS
<1> HIDE DEF pick, step
<1>7. \A T \in SUBSET S : T # {} => pick[T] \in T
  BY <1>5, <1>6
<1>8. PICK f \in [SUBSET S -> Seq(Move)] : IsFold(f, SUBSET S, pick, <<>>, step)
  <2>1. <<>> \in Seq(Move)
    OBVIOUS
  <2> QED
    BY <1>2, <1>4, <1>7, <2>1, FoldExists
<1>9. f = PlanFrom(windows, S, f)
  <2>1. ASSUME NEW T \in SUBSET S, T # {}
        PROVE  f[T] = Append(f[T \ {Furthest(T)}], move(Furthest(T)))
    <3>1. T \ {pick[T]} \in SUBSET S /\ pick[T] \in S
      BY <2>1, <1>7
    <3>2. f[T \ {pick[T]}] \in Seq(Move)
      BY <3>1
    <3>3. f[T] = step[<<pick[T], f[T \ {pick[T]}]>>]
      BY <2>1, <1>8 DEF IsFold
    <3>4. f[T] = Append(f[T \ {pick[T]}], move(pick[T]))
      BY <1>6, <3>1, <3>2, <3>3
    <3> QED
      BY <1>6, <3>4
  <2>2. f[{}] = <<>>
    BY <1>8 DEF IsFold
  <2> QED
    BY <2>1, <2>2 DEF PlanFrom, move
<1>10. iter = PlanFrom(windows, S, iter)
  BY <1>9
<1> HIDE DEF iter
<1> DEFINE G == {T \in SUBSET S : iter[T] \in Seq(Move)}
<1>11. {} \in G
  BY <1>10 DEF PlanFrom
<1>12. ASSUME NEW T \in SUBSET S, T # {}
       PROVE  \E i \in T : T \ {i} \in G => T \in G
  <2>1. Furthest(T) \in T /\ move(Furthest(T)) \in Move
    BY <1>3, <1>5, <1>12
  <2>2. iter[T] = Append(iter[T \ {Furthest(T)}], move(Furthest(T)))
    BY <1>10, <1>12 DEF PlanFrom, move
  <2>3. iter[T \ {Furthest(T)}] \in Seq(Move) => iter[T] \in Seq(Move)
    BY <2>1, <2>2
  <2> QED
    BY <2>1, <2>3
<1> HIDE DEF G
<1>13. S \in G
  BY <1>2, <1>11, <1>12, SetInduction
<1> QED
  BY <1>1, <1>13 DEF G

-----------------------------------------------------------------------------
(* Nodes of the search                                                     *)

(* What a scan answers; one that succeeds has analysed every window.       *)
LEMMA ScanType ==
  ASSUME NEW windows, NEW g
  PROVE  /\ Scan(windows, g).status \in {"Ok", "GeometryTooComplex", "InvalidSnapshot"}
         /\ Scan(windows, g).violations \subseteq Judged(windows)
         /\ Scan(windows, g).status = "Ok" =>
              \A i \in Judged(windows) : Analysable(windows[i])
<1>1. CASE g = "TitleBarLeftHalf"
  BY <1>1 DEF Scan, Clear, Violations, ScanOk
<1>2. CASE g # "TitleBarLeftHalf"
  <2> DEFINE views == {View(windows, j, g) : j \in Judged(windows)}
             bad == {v.window : v \in {u \in views : ~ u.seen.ok}}
  <2>1. Scan(windows, g) = Judgement(windows, views, g)
    BY <1>2 DEF Scan
  <2>2. \A v \in views : v.window \in Judged(windows)
    BY DEF View
  <2>3. ASSUME bad = {}, NEW i \in Judged(windows) PROVE Analysable(windows[i])
    <3> DEFINE v == View(windows, i, g)
    <3>1. v \in views
      OBVIOUS
    <3>2. v.seen.ok
      BY <2>3, <3>1
    <3> QED
      BY <3>2 DEF View, NoSight
  <2> DEFINE complex == [Clear EXCEPT !.status = IF Analysable(windows[Min(bad)])
                                                 THEN "GeometryTooComplex" ELSE "InvalidSnapshot"]
             simple == [Clear EXCEPT !.violations =
                          {v.window : v \in {u \in views : ~ Recognised(u.seen, g)}}]
  <2>4. Scan(windows, g) = IF bad = {} THEN simple ELSE complex
    BY <2>1 DEF Judgement
  <2>5. complex.status \in {"GeometryTooComplex", "InvalidSnapshot"} /\ complex.violations = {}
    BY DEF Clear
  <2>6. /\ simple.status = "Ok"
        /\ simple.violations = {v.window : v \in {u \in views : ~ Recognised(u.seen, g)}}
    BY DEF Clear
  <2>7. simple.violations \subseteq Judged(windows)
    <3> HIDE DEF views, simple
    <3> QED
      BY <2>2, <2>6
  <2> HIDE DEF bad, views, complex, simple
  <2> QED
    BY <2>3, <2>4, <2>5, <2>6, <2>7
<1> QED
  BY <1>1, <1>2

(* Every window that has to be can be recognised. *)
Clean(windows) == \A i \in Judged(windows) : Recognisable(windows, i, goal)

(* A scan without violations is right.                                     *)
LEMMA ScannedClean ==
  ASSUME NEW windows \in Seq(LayoutWindow), goal \in Goals,
         Scan(windows, goal).status = "Ok", Scan(windows, goal).violations = {}
  PROVE  Clean(windows)
<1> SUFFICES ASSUME NEW i \in Judged(windows) PROVE Recognisable(windows, i, goal)
  BY DEF Clean
<1>1. i \in Judged(windows) \ Scan(windows, goal).violations
  OBVIOUS
<1> QED
  BY <1>1, ScanIsSound

(* The upper layers of a search node. *)
UpperShown(windows, plan) ==
  plan # <<>> =>
    \A j \in Judged(windows) :
      windows[j].z <= windows[plan[Len(plan)].window].z => Recognisable(windows, j, goal)

(* A SearchNode.                                                           *)
LayoutNodes == [windows : Layouts, moves : Seq(Move)]

(* A node the search has put on its stack: no more moves than allowed, and *)
(* its upper layers are fixed.                                             *)
GoodNodes ==
  {n \in LayoutNodes :
     Len(n.moves) <= allowed /\ UpperShown(n.windows, n.moves)}

(* The question of the call is one of those that are asked.                *)
Asking ==
  /\ ask \in Asked
  /\ \E s \in Snapshots : given = s.windows /\ active = s.active

(* What the assumptions say of the question.                               *)
LEMMA AskingType ==
  ASSUME Asking
  PROVE  /\ given \in Seq(LayoutWindow) /\ active \in DOMAIN given
         /\ goal \in Goals /\ MaximumStates \in Nat \ {0}
         /\ given \in Layouts
         /\ \A i \in DOMAIN given : Stable[i] \in Rect
         /\ \A i, j \in DOMAIN given : 0 <= given[i].z /\ given[i].z = given[j].z => i = j
<1>1. PICK s \in Snapshots : given = s.windows /\ active = s.active
  BY DEF Asking
<1>2. given \in Seq(LayoutWindow) /\ active \in DOMAIN given
  BY <1>1, SolverAssumption
<1>3. goal \in Goals /\ MaximumStates \in Nat \ {0}
  BY AskedAssumption DEF Asking, goal, MaximumStates
<1>4. \A i \in DOMAIN given : Stable[i] \in Rect
  BY <1>1, StableAssumption
<1>5. \A i, j \in DOMAIN given : 0 <= given[i].z /\ given[i].z = given[j].z => i = j
  BY <1>1, LayersAssumption
<1> QED
  BY <1>2, <1>3, <1>4, <1>5 DEF Layouts

(* A window moved makes a layout of the snapshot and a move of the plan.   *)
LEMMA MovingType ==
  ASSUME Asking, NEW n \in LayoutNodes, NEW t \in DOMAIN given, NEW d \in Int \X Int
  PROVE  /\ Shifted(n.windows, t, d) \in Layouts
         /\ Moving(n.windows, t, d) \in Move /\ Moving(n.windows, t, d).window = t
         /\ Append(n.moves, Moving(n.windows, t, d)) \in Seq(Move)
         /\ Len(Append(n.moves, Moving(n.windows, t, d))) = Len(n.moves) + 1
         /\ Append(n.moves, Moving(n.windows, t, d))[Len(n.moves) + 1] = Moving(n.windows, t, d)
         /\ Len(n.moves) \in Nat
<1> DEFINE w == n.windows
           move == Moving(w, t, d)
<1>1. w \in Layouts /\ n.moves \in Seq(Move)
  BY DEF LayoutNodes
<1>2. /\ w \in Seq(LayoutWindow) /\ DOMAIN w = DOMAIN given /\ Len(w) = Len(given)
      /\ \A i \in DOMAIN given : w[i].z = given[i].z
  BY <1>1, LayoutsType DEF Layouts
<1> HIDE DEF w
<1>8. t \in DOMAIN w /\ t \in Nat
  BY <1>2
<1>9. w[t] \in LayoutWindow
  BY <1>2, <1>8, LayoutType
<1>3. w[t].place \in Rect
  BY <1>9 DEF LayoutWindow
<1>4. Translated(w[t].place, d[1], d[2]) \in Rect
  BY <1>3, TranslatedType
<1>5. move \in Move /\ move.window = t
  <2>1. move = [window |-> t, from |-> w[t].place, to |-> Translated(w[t].place, d[1], d[2])]
    BY DEF Moving
  <2> QED
    BY <1>3, <1>4, <1>8, <2>1 DEF Move
<1>6. Shifted(w, t, d) \in Layouts
  <2>1. /\ Shifted(w, t, d) \in Seq(LayoutWindow) /\ Len(Shifted(w, t, d)) = Len(w)
        /\ \A j \in DOMAIN w : Shifted(w, t, d)[j].z = w[j].z
    BY <1>2, <1>8, ShiftedType
  <2> QED
    BY <1>2, <2>1 DEF Layouts
<1> HIDE DEF move
<1>7. /\ Append(n.moves, move) \in Seq(Move) /\ Len(Append(n.moves, move)) = Len(n.moves) + 1
      /\ Append(n.moves, move)[Len(n.moves) + 1] = move /\ Len(n.moves) \in Nat
  BY <1>1, <1>5, AppendedMove
<1> QED
  BY <1>5, <1>6, <1>7 DEF w, move

(* A node of the search fixes one more layer. *)
LEMMA ChildIsGood ==
  ASSUME Asking, NEW top \in GoodNodes, Len(top.moves) < allowed, allowed \in Nat,
         Scan(top.windows, goal).status = "Ok",
         NEW t, t \in Scan(top.windows, goal).violations,
         \A j \in Scan(top.windows, goal).violations \ {t} : Nearer(t, j),
         NEW d \in Int \X Int, Acceptance(top.windows, t, d, FALSE, goal)
  PROVE  [windows |-> Shifted(top.windows, t, d),
          moves |-> Append(top.moves, Moving(top.windows, t, d))] \in GoodNodes
<1> DEFINE w == top.windows
           child == Shifted(w, t, d)
           plan == Append(top.moves, Moving(w, t, d))
<1>1. /\ top \in LayoutNodes /\ w \in Layouts
  BY DEF GoodNodes, LayoutNodes
<1>2. w \in Seq(LayoutWindow) /\ DOMAIN w = DOMAIN given
          /\ \A i \in DOMAIN given : w[i].z = given[i].z
  BY <1>1, LayoutsType
<1>3. t \in Judged(w) /\ t \in DOMAIN w /\ Analysable(w[t])
  <2>1. t \in Judged(w)
    BY ScanType
  <2> QED
    BY <2>1, ScanType DEF Judged
<1>4. /\ child \in Layouts /\ plan \in Seq(Move) /\ Len(plan) = Len(top.moves) + 1
      /\ plan[Len(plan)].window = t /\ Len(top.moves) \in Nat
  BY <1>1, <1>2, <1>3, MovingType
<1>5. /\ child \in Seq(LayoutWindow) /\ DOMAIN child = DOMAIN w
      /\ \A j \in DOMAIN w \ {t} : child[j] = w[j]
      /\ \A j \in DOMAIN w : child[j].z = w[j].z
  BY <1>2, <1>3, ShiftedType
<1>6. goal \in Goals
  BY AskingType
<1>7. ASSUME NEW j \in Judged(child), child[j].z <= child[t].z
      PROVE  Recognisable(child, j, goal)
  <2>1. j \in DOMAIN w
    BY <1>5 DEF Judged
  <2>2. CASE j = t
    <3>1. Recognised(Analysis(child, t, goal), goal)
      BY DEF Acceptance
    <3> QED
      BY <1>3, <1>5, <1>6, <2>2, <3>1, AnalysisIsSound
  <2>3. CASE j # t
    <3>1. j \in Judged(w) /\ w[j].z <= w[t].z
      BY <1>3, <1>5, <1>7, <2>1, <2>3 DEF Judged
    <3>2. j \notin Scan(w, goal).violations
      <4> SUFFICES ASSUME j \in Scan(w, goal).violations PROVE FALSE
        OBVIOUS
      <4>1. Nearer(t, j)
        BY <2>3
      <4>2. given[t].z = w[t].z /\ given[j].z = w[j].z /\ w[t].z \in Int /\ w[j].z \in Int
        BY <1>2, <1>3, <2>1, LayoutType
      <4>3. given[t].z = given[j].z
        BY <3>1, <4>1, <4>2 DEF Nearer
      <4>4. 0 <= given[t].z
        BY <1>3, <4>2 DEF Analysable
      <4> QED
        BY <1>2, <1>3, <1>7, <2>1, <2>3, <4>3, <4>4, AskingType
    <3>3. Recognisable(w, j, goal)
      BY <1>2, <1>6, <3>1, <3>2, ScanIsSound
    <3>4. j \in DOMAIN w \ {t} /\ t \in DOMAIN w
      BY <1>3, <2>1, <2>3
    <3> HIDE DEF w
    <3> QED
      BY <1>2, <1>6, <3>1, <3>3, <3>4, LowerDoesNotHide DEF child
  <2> QED
    BY <2>2, <2>3
<1> HIDE DEF child, plan
<1>8. UpperShown(child, plan)
  BY <1>4, <1>7 DEF UpperShown
<1>9. Len(plan) <= allowed
  BY <1>4
<1> DEFINE n == [windows |-> child, moves |-> plan]
<1>10. n \in LayoutNodes /\ n.windows = child /\ n.moves = plan
  BY <1>4 DEF LayoutNodes
<1> HIDE DEF n
<1>11. n \in GoodNodes
  BY <1>8, <1>9, <1>10 DEF GoodNodes
<1> QED
  BY <1>11 DEF n, child, plan

-----------------------------------------------------------------------------
(* The inductive invariant                                                 *)

Unimprovable == {"Solved", "NoViolation"}

(* What the answer of a call is worth. *)
AnswerInv ==
  pc = "answered" =>
    /\ stage = "done"
    /\ status \in Unimprovable => Clean(arranged)

(* What a search works on; a local one may move one window. *)
FrameInv ==
  /\ problem \in Layouts /\ allowed \in Nat
  /\ stage \in {"searching", "enhancing"} /\ ask.method # "search" => allowed = 1

StackInv == stage = "searching" => stack \in Seq(GoodNodes) /\ IsFiniteSet(visited)

NodeInv ==
  /\ stage = "enhancing" =>
       /\ node \in LayoutNodes /\ Len(node.moves) <= allowed
       /\ Clean(node.windows) /\ todo \subseteq DOMAIN given
  /\ stage = "found" =>
       node \in LayoutNodes /\ (status = "Solved" => Len(node.moves) = 1)

OuterInv ==
  /\ outer.windows \in Layouts /\ outer.moves \in Seq(Move)
  /\ attempt.windows \in Layouts

SearchInv ==
  TypeOK /\ Asking /\ AnswerInv /\ FrameInv /\ StackInv /\ NodeInv /\ OuterInv

(* The question alone decides what layouts and nodes are.                  *)
LEMMA SameLayouts ==
  ASSUME given' = given, ask' = ask
  PROVE  /\ Layouts' = Layouts /\ LayoutNodes' = LayoutNodes /\ goal' = goal
         /\ allowed' = allowed => GoodNodes' = GoodNodes
         /\ active' = active => (Asking' = Asking)
<1>1. Layouts' = Layouts /\ goal' = goal
  BY DEF Layouts, goal
<1>2. LayoutNodes' = LayoutNodes
  BY <1>1 DEF LayoutNodes
<1>3. allowed' = allowed => GoodNodes' = GoodNodes
  BY <1>1, <1>2 DEF GoodNodes, UpperShown
<1>4. active' = active => (Asking' = Asking)
  BY DEF Asking
<1> QED
  BY <1>1, <1>2, <1>3, <1>4

(* An answer of the other solvers is an answer.                            *)
LEMMA SameTypes ==
  ASSUME TypeOK, Asking, UNCHANGED <<question, ask, accepted, anchor, reason, calls>>,
         arranged' \in Layouts, moves' \in Seq(Move), status' \in Statuses,
         pc' \in {"called", "arranging", "answered"}
  PROVE  TypeOK'
<1>1. Targets' = Targets
  BY DEF Targets, question, Judged
<1> QED
  BY <1>1 DEF TypeOK, question, Layouts

(* terminal_result() of the call.                                          *)
LEMMA AnsweredKeeps ==
  ASSUME SearchInv, NEW result \in Statuses, NEW windows \in Layouts, NEW plan \in Seq(Move),
         Answered(result, windows, plan), result \in Unimprovable => Clean(windows)
  PROVE  SearchInv'
<1>1. /\ status' = result /\ arranged' = windows /\ moves' = plan
      /\ pc' = "answered" /\ stage' = "done" /\ given' = given /\ active' = active
      /\ limit' = limit /\ ask' = ask /\ outer' = outer /\ attempt' = attempt
      /\ problem' = problem /\ allowed' = allowed
      /\ UNCHANGED <<question, ask, accepted, anchor, reason, calls>>
  BY DEF Answered, question, search
<1>2. /\ Layouts' = Layouts /\ LayoutNodes' = LayoutNodes /\ goal' = goal
      /\ GoodNodes' = GoodNodes /\ Asking'
  BY <1>1, SameLayouts DEF SearchInv
<1>3. TypeOK'
  BY <1>1, SameTypes DEF SearchInv
<1>4. AnswerInv'
  BY <1>1, <1>2 DEF AnswerInv, Clean
<1>5. FrameInv' /\ OuterInv'
  BY <1>1, <1>2 DEF FrameInv, OuterInv, SearchInv
<1>6. StackInv' /\ NodeInv'
  BY <1>1 DEF StackInv, NodeInv
<1> QED
  BY <1>2, <1>3, <1>4, <1>5, <1>6 DEF SearchInv

(* A step that leaves the answer open. *)
LEMMA OpenKeeps ==
  ASSUME SearchInv, UNCHANGED <<question, ask, title, arranged, moves>>, status' \in Statuses,
         pc # "answered"
  PROVE  /\ Layouts' = Layouts /\ LayoutNodes' = LayoutNodes /\ goal' = goal
         /\ allowed' = allowed => GoodNodes' = GoodNodes
         /\ TypeOK' /\ Asking' /\ AnswerInv'
<1>1. /\ given' = given /\ active' = active /\ limit' = limit /\ ask' = ask /\ pc' = pc
      /\ arranged' = arranged /\ moves' = moves
      /\ UNCHANGED <<question, ask, accepted, anchor, reason, calls>>
  BY DEF question, title
<1>2. /\ Layouts' = Layouts /\ LayoutNodes' = LayoutNodes /\ goal' = goal
      /\ allowed' = allowed => GoodNodes' = GoodNodes
      /\ Asking'
  BY <1>1, SameLayouts DEF SearchInv
<1>3. TypeOK'
  <2>1. TypeOK /\ UNCHANGED <<question, ask, accepted, anchor, reason, calls>>
    BY <1>1 DEF SearchInv
  <2>2. Targets' = Targets
    BY <1>1 DEF Targets, question, Judged
  <2> QED
    BY <1>1, <2>1, <2>2 DEF TypeOK
<1> QED
  BY <1>1, <1>2, <1>3 DEF AnswerInv

(* terminal_result() of a search.                                          *)
LEMMA FoundKeeps ==
  ASSUME SearchInv, pc # "answered", NEW result \in Statuses, NEW windows \in Layouts,
         NEW plan \in Seq(Move), Found(result, windows, plan),
         result \in Unimprovable => Clean(windows),
         result = "Solved" /\ ask.method # "search" => Len(plan) = 1
  PROVE  SearchInv'
<1>1. CASE ask.method = "search"
  BY <1>1, AnsweredKeeps DEF Found
<1>2. CASE ask.method # "search"
  <2>1. /\ stage' = "found" /\ node' = [windows |-> windows, moves |-> plan]
        /\ status' = result /\ UNCHANGED <<question, ask, title, arranged, moves>>
        /\ problem' = problem /\ allowed' = allowed /\ outer' = outer /\ attempt' = attempt
    BY <1>2 DEF Found
  <2>2. /\ Layouts' = Layouts /\ LayoutNodes' = LayoutNodes
        /\ TypeOK' /\ Asking' /\ AnswerInv'
    BY <2>1, OpenKeeps
  <2>3. FrameInv' /\ OuterInv' /\ StackInv'
    BY <2>1, <2>2 DEF SearchInv, FrameInv, OuterInv, StackInv
  <2>4. node' \in LayoutNodes /\ node'.moves = plan
    BY <2>1 DEF LayoutNodes
  <2>5. NodeInv'
    BY <1>2, <2>1, <2>2, <2>4 DEF NodeInv
  <2> QED
    BY <2>2, <2>3, <2>5 DEF SearchInv
<1> QED
  BY <1>1, <1>2

(* A search that ends without a layout.                                    *)
LEMMA NotFoundKeeps ==
  ASSUME SearchInv, pc # "answered", NEW result \in Statuses \ Unimprovable, NotFound(result)
  PROVE  SearchInv'
<1>1. problem \in Layouts /\ <<>> \in Seq(Move)
  BY DEF SearchInv, FrameInv
<1> QED
  BY <1>1, FoundKeeps DEF NotFound, Unimprovable

(* A search that begins.                                                   *)
LEMMA StartSearchKeeps ==
  ASSUME SearchInv, pc # "answered", NEW windows \in Layouts, NEW maximum \in Nat,
         ask.method # "search" => maximum = 1, StartSearch(windows, maximum), outer' = outer
  PROVE  SearchInv'
<1> DEFINE root == [windows |-> windows, moves |-> <<>>]
<1>1. /\ stage' = "searching" /\ problem' = windows /\ allowed' = maximum
      /\ stack' = <<root>> /\ visited' = {windows}
      /\ UNCHANGED <<question, ask, title, arranged, moves, status, chosen, attempt>>
  BY DEF StartSearch
<1>2. status \in Statuses
  BY DEF SearchInv, TypeOK
<1>3. /\ Layouts' = Layouts /\ LayoutNodes' = LayoutNodes
      /\ TypeOK' /\ Asking' /\ AnswerInv'
  BY <1>1, <1>2, OpenKeeps
<1>4. FrameInv' /\ NodeInv'
  BY <1>1, <1>3 DEF FrameInv, NodeInv
<1>5. OuterInv'
  BY <1>1, <1>3 DEF OuterInv, SearchInv
<1>6. StackInv'
  <2>1. root \in LayoutNodes /\ root.moves = <<>>
    BY DEF LayoutNodes
  <2>2. Len(root.moves) <= maximum
    BY <2>1
  <2>3. UpperShown(root.windows, root.moves)'
    BY <2>1 DEF UpperShown
  <2>4. root \in GoodNodes'
    BY <1>1, <1>3, <2>1, <2>2, <2>3 DEF GoodNodes
  <2>5. IsFiniteSet({windows})
    BY FS_Singleton
  <2> HIDE DEF root
  <2>6. <<root>> \in Seq(GoodNodes')
    BY <2>4
  <2> QED
    BY <1>1, <2>5, <2>6 DEF StackInv
<1> QED
  BY <1>3, <1>4, <1>5, <1>6 DEF SearchInv

-----------------------------------------------------------------------------
(* The depth-first search                                                  *)

(* What the invariant gives every step.                                    *)
LEMMA SearchFacts ==
  ASSUME SearchInv
  PROVE  /\ given \in Seq(LayoutWindow) /\ active \in DOMAIN given /\ goal \in Goals
         /\ given \in Layouts /\ limit \in Nat /\ MaximumStates \in Nat \ {0}
         /\ ask \in Asked /\ status \in Statuses
         /\ \A i \in DOMAIN given : Stable[i] \in Rect
         /\ <<>> \in Seq(Move)
         /\ stage # "done" => pc # "answered"
<1>1. Asking /\ TypeOK /\ AnswerInv
  BY DEF SearchInv
<1>2. limit \in Nat /\ status \in Statuses
  BY <1>1, SolverAssumption DEF TypeOK
<1>3. ask \in Asked
  BY <1>1 DEF Asking
<1>4. stage # "done" => pc # "answered"
  BY <1>1 DEF AnswerInv
<1> QED
  BY <1>1, <1>2, <1>3, <1>4, AskingType

(* A scan that fails has not solved anything.                              *)
LEMMA ScanStatus ==
  ASSUME NEW windows, NEW g
  PROVE  /\ Scan(windows, g).status \in Statuses \cup {"Ok"}
         /\ Scan(windows, g).status \notin Unimprovable
BY ScanType DEF Statuses, Unimprovable

(* A layout the scan finds nothing wrong with is clean.                    *)
LEMMA ScannedLayout ==
  ASSUME SearchInv, NEW windows \in Layouts,
         Scan(windows, goal).status = "Ok", Scan(windows, goal).violations = {}
  PROVE  Clean(windows)
BY SearchFacts, ScannedClean, LayoutsType

(* The whole call is told that nothing was found.                          *)
LEMMA RefusedKeeps ==
  ASSUME SearchInv, NEW result \in Statuses \ Unimprovable, Answered(result, given, <<>>)
  PROVE  SearchInv'
BY SearchFacts, AnsweredKeeps

(* The first scan succeeded.                                               *)
LEMMA DispatchKeeps ==
  ASSUME SearchInv, stage = "idle", Scan(given, goal).status = "Ok",
         Dispatch(Scan(given, goal).violations)
  PROVE  SearchInv'
<1> DEFINE violations == Scan(given, goal).violations
<1>1. /\ given \in Layouts /\ limit \in Nat /\ <<>> \in Seq(Move)
      /\ status \in Statuses /\ pc # "answered"
      /\ violations = {} => Clean(given)
  <2>1. violations = {} => Clean(given)
    BY SearchFacts, ScannedLayout
  <2> QED
    BY <2>1, SearchFacts
<1>2. Dispatch(violations)
  OBVIOUS
<1> HIDE DEF violations
<1>3. CASE ask.method = "search" /\ StartSearch(given, limit) /\ UNCHANGED <<states, outer>>
  BY <1>1, <1>3, StartSearchKeeps
<1>4. CASE /\ stage' = "stepping"
           /\ outer' = [windows |-> given, moves |-> <<>>, seen |-> {given}]
           /\ UNCHANGED <<question, ask, title, arranged, moves, status, search, chosen, attempt>>
  <2>1. status' \in Statuses /\ problem' = problem /\ allowed' = allowed /\ attempt' = attempt
    BY <1>1, <1>4 DEF search
  <2>2. /\ Layouts' = Layouts /\ TypeOK' /\ Asking' /\ AnswerInv'
    BY <1>1, <1>4, <2>1, OpenKeeps
  <2>3. outer'.windows = given /\ outer'.moves = <<>>
    BY <1>4
  <2>4. OuterInv'
    BY <1>1, <2>1, <2>2, <2>3 DEF OuterInv, SearchInv
  <2>5. FrameInv' /\ StackInv' /\ NodeInv'
    BY <1>4, <2>1, <2>2 DEF FrameInv, StackInv, NodeInv, SearchInv
  <2> QED
    BY <2>2, <2>4, <2>5 DEF SearchInv
<1>5. CASE /\ stage' = "climbing"
           /\ UNCHANGED <<question, ask, title, arranged, moves, status, search, outer, attempt>>
  <2>1. /\ status' \in Statuses /\ problem' = problem /\ allowed' = allowed
        /\ attempt' = attempt /\ outer' = outer
    BY <1>1, <1>5 DEF search
  <2>2. /\ Layouts' = Layouts /\ TypeOK' /\ Asking' /\ AnswerInv'
    BY <1>1, <1>5, <2>1, OpenKeeps
  <2>3. FrameInv' /\ StackInv' /\ NodeInv' /\ OuterInv'
    BY <1>5, <2>1, <2>2 DEF FrameInv, StackInv, NodeInv, OuterInv, SearchInv
  <2> QED
    BY <2>2, <2>3 DEF SearchInv
<1>6. CASE Answered("Timeout", given, <<>>)
  BY <1>6, RefusedKeeps DEF Statuses, Unimprovable
<1>7. CASE violations = {} /\ Answered("NoViolation", given, <<>>)
  BY <1>1, <1>7, AnsweredKeeps DEF Statuses
<1> QED
  BY <1>2, <1>3, <1>4, <1>5, <1>6, <1>7 DEF Dispatch

LEMMA OpenStep == SearchInv /\ Open => SearchInv'
<1> SUFFICES ASSUME SearchInv, Open PROVE SearchInv'
  OBVIOUS
<1>1. stage = "idle" /\ OpenWith(Scan(given, goal))
  BY DEF Open
<1>2. CASE limit = 0 /\ Answered("InvalidSnapshot", given, <<>>)
  BY <1>2, RefusedKeeps DEF Statuses, Unimprovable
<1>3. CASE /\ Scan(given, goal).status # "Ok"
           /\ Answered(Scan(given, goal).status, given, <<>>)
  BY <1>3, ScanStatus, RefusedKeeps
<1>4. CASE Scan(given, goal).status = "Ok" /\ Dispatch(Scan(given, goal).violations)
  BY <1>1, <1>4, DispatchKeeps
<1> QED
  BY <1>1, <1>2, <1>3, <1>4 DEF OpenWith

LEMMA SearchEndStep == SearchInv /\ (SearchTimesOut \/ Exhausted) => SearchInv'
<1>1. "Timeout" \in Statuses \ Unimprovable /\ "Unsatisfiable" \in Statuses \ Unimprovable
  BY DEF Statuses, Unimprovable
<1>2. ASSUME SearchInv, SearchTimesOut PROVE SearchInv'
  BY <1>1, <1>2, SearchFacts, NotFoundKeeps DEF SearchTimesOut
<1>3. ASSUME SearchInv, Exhausted PROVE SearchInv'
  BY <1>1, <1>3, SearchFacts, NotFoundKeeps DEF Exhausted
<1> QED
  BY <1>2, <1>3

(* A step of the search that changes its stack alone.                      *)
LEMMA StackKeeps ==
  ASSUME SearchInv, stage = "searching", stage' = stage,
         UNCHANGED <<question, ask, title, arranged, moves, status, problem, allowed,
                     outer, attempt>>,
         stack' \in Seq(GoodNodes), IsFiniteSet(visited')
  PROVE  SearchInv'
<1>1. pc # "answered" /\ status' \in Statuses
  BY SearchFacts
<1>2. /\ Layouts' = Layouts /\ GoodNodes' = GoodNodes /\ TypeOK' /\ Asking' /\ AnswerInv'
  BY <1>1, OpenKeeps
<1>3. FrameInv' /\ StackInv' /\ NodeInv' /\ OuterInv'
  BY <1>2 DEF FrameInv, StackInv, NodeInv, OuterInv, SearchInv
<1> QED
  BY <1>2, <1>3 DEF SearchInv

(* The stack without its top.                                              *)
LEMMA FrontType ==
  ASSUME NEW S, NEW s \in Seq(S), s # <<>>
  PROVE  Front(s) \in Seq(S) /\ s[Len(s)] \in S
<1>1. Len(s) \in Nat /\ Len(s) > 0
  OBVIOUS
<1>2. s[Len(s)] \in S
  BY <1>1, ElementOfSeq
<1>3. \A k \in 1..(Len(s) - 1) : s[k] \in S
  BY <1>1, ElementOfSeq
<1> QED
  BY <1>1, <1>2, <1>3, SubSeqProperties DEF Front

(* A sequence in reverse order.                                            *)
LEMMA ReverseType ==
  ASSUME NEW S, NEW s \in Seq(S)
  PROVE  Reverse(s) \in Seq(S)
<1>1. Len(s) \in Nat /\ \A k \in 1..Len(s) : s[k] \in S
  BY ElementOfSeq, LenProperties
<1>2. \A k \in 1..Len(s) : (Len(s) - k) + 1 \in 1..Len(s)
  BY <1>1
<1>3. [k \in 1..Len(s) |-> s[(Len(s) - k) + 1]] \in [1..Len(s) -> S]
  BY <1>1, <1>2
<1> DEFINE n == Len(s)
<1>4. n \in Nat /\ Reverse(s) \in [1..n -> S]
  BY <1>1, <1>3 DEF Reverse
<1> HIDE DEF n
<1> QED
  BY <1>4

(* The window the search moves next is the nearest of the violations.      *)
LEMMA PriorityType ==
  ASSUME SearchInv, NEW windows \in Layouts, Scan(windows, goal).violations # {}
  PROVE  LET violations == Scan(windows, goal).violations
             target == Priority(violations)
         IN /\ target \in violations /\ target \in DOMAIN windows /\ target \in DOMAIN given
            /\ \A j \in violations \ {target} : Nearer(target, j)
<1> DEFINE violations == Scan(windows, goal).violations
<1>1. violations \subseteq Judged(windows)
  BY ScanType
<1>2. Judged(windows) \subseteq DOMAIN given /\ DOMAIN windows = DOMAIN given
  BY LayoutsType
<1>3. given \in Seq(LayoutWindow)
  BY SearchFacts
<1>4. violations \subseteq DOMAIN given /\ violations # {}
  BY <1>1, <1>2
<1> HIDE DEF violations
<1>5. /\ Nearest(violations) \in violations
      /\ \A j \in violations \ {Nearest(violations)} : Nearer(Nearest(violations), j)
  BY <1>3, <1>4, NearestIsIn
<1> QED
  BY <1>2, <1>4, <1>5 DEF Priority, violations


(* Every place the search branches to makes a good node.                   *)
LEMMA BranchKeeps ==
  ASSUME SearchInv, stage = "searching",
         NEW top \in GoodNodes, Len(top.moves) < allowed, stack # <<>>,
         Scan(top.windows, goal).status = "Ok",
         NEW target, target \in Scan(top.windows, goal).violations,
         \A j \in Scan(top.windows, goal).violations \ {target} : Nearer(target, j),
         NEW places, Sortable(places),
         \A b \in places : /\ b.offset \in Int \X Int
                           /\ Acceptance(top.windows, target, b.offset, FALSE, goal),
         NEW truncated, Branch(top, target, truncated, places)
  PROVE  SearchInv'
<1> DEFINE fresh == {a \in places : Shifted(top.windows, target, a.offset) \notin visited}
           wanted == Lower(Branches, Cardinality(fresh))
           room == MaximumStates - Cardinality(visited)
           best == BestFirst(fresh, Lower(wanted, room))
           child(b) == [windows |-> Shifted(top.windows, target, b.offset),
                        moves |-> Append(top.moves, Moving(top.windows, target, b.offset))]
           children == [k \in DOMAIN best |-> child(best[k])]
           more == {children[k].windows : k \in DOMAIN children}
<1>1. /\ stack' = Front(stack) \o Reverse(children)
      /\ visited' = visited \cup more
      /\ stage' = stage
      /\ UNCHANGED <<question, ask, title, arranged, moves, status, problem, allowed,
                     outer, attempt>>
  BY DEF Branch
<1>2. /\ Asking /\ allowed \in Nat /\ stack \in Seq(GoodNodes) /\ IsFiniteSet(visited)
      /\ MaximumStates \in Nat
  BY SearchFacts DEF SearchInv, FrameInv, StackInv
<1>3. Sortable(fresh) /\ fresh \subseteq places
  BY SortableSubset
<1>4. ASSUME NEW b \in fresh PROVE child(b) \in GoodNodes
  <2>1. b.offset \in Int \X Int /\ Acceptance(top.windows, target, b.offset, FALSE, goal)
    BY <1>3
  <2> QED
    BY <1>2, <2>1, ChildIsGood
<1>5. /\ Lower(wanted, room) \in Int /\ Lower(wanted, room) <= Cardinality(fresh)
  <2>1. Cardinality(fresh) \in Nat /\ Cardinality(visited) \in Nat
    BY <1>2, <1>3, FS_CardinalityType DEF Sortable
  <2> HIDE DEF fresh
  <2> QED
    BY <1>2, <2>1 DEF Lower, Branches
<1> HIDE DEF fresh, child, wanted, room
<1>6. best \in Seq(fresh)
  BY <1>3, <1>5, BestFirstType
<1> HIDE DEF best
<1>7. /\ Len(best) \in Nat /\ DOMAIN best = 1..Len(best)
      /\ \A k \in 1..Len(best) : best[k] \in fresh
  BY <1>6, LenProperties, ElementOfSeq
<1>8. children \in Seq(GoodNodes) /\ DOMAIN children = 1..Len(best)
  <2>1. children \in [1..Len(best) -> GoodNodes]
    BY <1>4, <1>7
  <2> DEFINE n == Len(best)
  <2>2. n \in Nat /\ children \in [1..n -> GoodNodes]
    BY <1>7, <2>1
  <2>3. DOMAIN children = 1..Len(best)
    BY <1>7
  <2> HIDE DEF n, children
  <2> QED
    BY <2>2, <2>3
<1> HIDE DEF children
<1>9. stack' \in Seq(GoodNodes)
  <2>1. Front(stack) \in Seq(GoodNodes) /\ Reverse(children) \in Seq(GoodNodes)
    BY <1>2, <1>8, FrontType, ReverseType
  <2>2. Front(stack) \o Reverse(children) \in Seq(GoodNodes)
    BY <2>1, ConcatProperties
  <2> QED
    BY <1>1, <2>2
<1>10. IsFiniteSet(visited')
  <2> DEFINE D == 1..Len(best)
             f == [k \in D |-> children[k].windows]
  <2>1. IsFiniteSet(D)
    BY <1>7, FS_Interval
  <2>2. DOMAIN f = D /\ f = [x \in D |-> f[x]] /\ more = {f[x] : x \in D}
    BY <1>8
  <2> HIDE DEF f, D, more
  <2>3. IsFiniteSet(more)
    BY <2>1, <2>2, ImageIsFinite
  <2> QED
    BY <1>1, <1>2, <2>3, FS_Union
<1> QED
  BY <1>1, <1>9, <1>10, StackKeeps

(* Candidates are generated and ranked, and the best become nodes.         *)
LEMMA ExpandKeeps ==
  ASSUME SearchInv, stage = "searching",
         NEW top \in GoodNodes, Len(top.moves) < allowed, stack # <<>>,
         Scan(top.windows, goal).status = "Ok",
         NEW target, target \in Scan(top.windows, goal).violations,
         target \in DOMAIN top.windows, target \in DOMAIN given,
         \A j \in Scan(top.windows, goal).violations \ {target} : Nearer(target, j),
         NEW candidates, Expand(top, target, candidates)
  PROVE  SearchInv'
<1> DEFINE ranked == Ranked(top.windows, target, candidates.offsets, active, FALSE, goal)
<1>1. /\ top.windows \in Seq(LayoutWindow) /\ goal \in Goals /\ Stable[target] \in Rect
      /\ pc # "answered"
  BY SearchFacts, LayoutsType DEF GoodNodes, LayoutNodes
<1>2. CASE NotFound("InvalidSnapshot")
  BY <1>1, <1>2, NotFoundKeeps DEF Statuses, Unimprovable
<1>3. CASE BranchRanked(top, target, candidates.status = "Truncated", ranked)
  <2>1. /\ Sortable(ranked.accepted)
        /\ \A b \in ranked.accepted :
             b.offset \in Int \X Int /\ Acceptance(top.windows, target, b.offset, FALSE, goal)
    BY <1>1, RankedType
  <2>2. ranked.status \in {"Ok", "GeometryTooComplex"}
    BY DEF Ranked, Accepted
  <2> DEFINE truncated == candidates.status = "Truncated"
             places == ranked.accepted
             result == ranked.status
  <2>3. \/ result # "Ok" /\ NotFound(result)
        \/ Branch(top, target, truncated, places)
    BY <1>3 DEF BranchRanked
  <2>4. /\ Sortable(places)
        /\ \A b \in places :
             b.offset \in Int \X Int /\ Acceptance(top.windows, target, b.offset, FALSE, goal)
        /\ result \in {"Ok", "GeometryTooComplex"}
    BY <2>1, <2>2
  <2> HIDE DEF truncated, places, result, ranked
  <2>5. CASE result # "Ok" /\ NotFound(result)
    BY <1>1, <2>4, <2>5, NotFoundKeeps DEF Statuses, Unimprovable
  <2>6. CASE Branch(top, target, truncated, places)
    BY <2>4, <2>6, BranchKeeps
  <2> QED
    BY <2>3, <2>5, <2>6
<1> QED
  BY <1>2, <1>3 DEF Expand

(* A node is popped: it fails, is enhanced, is dropped or branches.        *)
LEMMA VisitKeeps ==
  ASSUME SearchInv, stage = "searching", stack # <<>>, NEW top \in GoodNodes,
         Visit(top, Scan(top.windows, goal))
  PROVE  SearchInv'
<1> DEFINE scan == Scan(top.windows, goal)
<1>1. /\ top \in LayoutNodes /\ top.windows \in Layouts /\ Len(top.moves) <= allowed
      /\ pc # "answered" /\ status \in Statuses /\ stack \in Seq(GoodNodes)
      /\ IsFiniteSet(visited)
  BY SearchFacts DEF GoodNodes, LayoutNodes, SearchInv, StackInv
<1>2. CASE scan.status # "Ok" /\ NotFound(scan.status)
  BY <1>1, <1>2, ScanStatus, NotFoundKeeps
<1>3. CASE /\ scan.status = "Ok" /\ scan.violations = {}
           /\ stage' = "enhancing" /\ node' = top
           /\ todo' = {i \in Targets : top.windows[i].managed /\ top.windows[i].movable}
           /\ UNCHANGED <<question, ask, title, arranged, moves, status, problem, allowed,
                          outer, attempt>>
  <2>1. /\ Layouts' = Layouts /\ LayoutNodes' = LayoutNodes /\ goal' = goal
        /\ TypeOK' /\ Asking' /\ AnswerInv'
    BY <1>1, <1>3, OpenKeeps
  <2>2. Clean(top.windows)
    BY <1>1, <1>3, ScannedLayout
  <2>3. Clean(node.windows)'
    BY <1>3, <2>1, <2>2 DEF Clean
  <2>4. todo' \subseteq DOMAIN given'
    BY <1>3 DEF question, Targets, Judged
  <2>5. NodeInv'
    BY <1>1, <1>3, <2>1, <2>3, <2>4 DEF NodeInv
  <2>6. FrameInv' /\ StackInv' /\ OuterInv'
    BY <1>3, <2>1 DEF FrameInv, StackInv, OuterInv, SearchInv
  <2> QED
    BY <2>1, <2>5, <2>6 DEF SearchInv
<1>4. CASE /\ stack' = Front(stack) /\ stage' = stage /\ visited' = visited
           /\ UNCHANGED <<question, ask, title, arranged, moves, status, problem, allowed,
                          outer, attempt>>
  BY <1>1, <1>4, FrontType, StackKeeps
<1>5. ASSUME scan.status = "Ok", scan.violations # {}, Len(top.moves) < allowed,
             Expand(top, Priority(scan.violations),
                    Candidates(top.windows, Priority(scan.violations),
                               BlockerOrder(top.windows, Priority(scan.violations)), goal,
                               ask.candidates))
      PROVE  SearchInv'
  BY <1>1, <1>5, PriorityType, ExpandKeeps
<1> QED
  BY <1>2, <1>3, <1>4, <1>5 DEF Visit

LEMMA PopStep == SearchInv /\ Pop => SearchInv'
<1> SUFFICES ASSUME SearchInv, Pop PROVE SearchInv'
  OBVIOUS
<1> DEFINE top == stack[Len(stack)]
<1>1. /\ stage = "searching" /\ stack # <<>>
      /\ Visit(top, Scan(top.windows, goal))
  BY DEF Pop
<1>2. top \in GoodNodes
  BY <1>1, FrontType DEF SearchInv, StackInv
<1> QED
  BY <1>1, <1>2, VisitKeeps

-----------------------------------------------------------------------------
(* The enhancement                                                         *)

LEMMA EnhancementEndsStep == SearchInv /\ EnhancementEnds => SearchInv'
<1> SUFFICES ASSUME SearchInv, EnhancementEnds PROVE SearchInv'
  OBVIOUS
<1> DEFINE result == IF node.moves = <<>> THEN "NoViolation" ELSE "Solved"
           windows == node.windows
           plan == node.moves
<1>1. /\ stage = "enhancing" /\ Found(result, windows, plan)
  BY DEF EnhancementEnds
<1>2. /\ windows \in Layouts /\ plan \in Seq(Move) /\ Len(plan) <= allowed /\ Clean(windows)
      /\ pc # "answered"
  BY <1>1, SearchFacts DEF SearchInv, NodeInv, LayoutNodes
<1>3. ask.method # "search" => allowed = 1
  BY <1>1 DEF SearchInv, FrameInv
<1>4. result \in Statuses /\ (result = "Solved" => plan # <<>>)
  BY DEF Statuses
<1> HIDE DEF result, windows, plan
<1>6. Len(plan) \in Nat /\ (plan # <<>> => Len(plan) # 0)
  BY <1>2, EmptySeq
<1>7. ask.method # "search" => Len(plan) <= 1
  BY <1>2, <1>3
<1>5. result = "Solved" /\ ask.method # "search" => Len(plan) = 1
  <2> DEFINE n == Len(plan)
  <2>1. n \in Nat /\ (result = "Solved" => n # 0) /\ (ask.method # "search" => n <= 1)
    BY <1>4, <1>6, <1>7
  <2> HIDE DEF n
  <2>2. result = "Solved" /\ ask.method # "search" => n = 1
    BY <2>1
  <2> QED
    BY <2>2 DEF n
<1> QED
  BY <1>1, <1>2, <1>4, <1>5, FoundKeeps

(* A step of the enhancement that changes its node alone.                  *)
LEMMA NodeKeeps ==
  ASSUME SearchInv, stage = "enhancing", stage' = stage,
         UNCHANGED <<question, ask, title, arranged, moves, status, problem, allowed,
                     outer, attempt>>,
         todo' \subseteq todo, node' \in LayoutNodes, Len(node'.moves) <= allowed,
         Clean(node'.windows)
  PROVE  SearchInv'
<1>1. pc # "answered" /\ status' \in Statuses
  BY SearchFacts
<1>2. /\ Layouts' = Layouts /\ LayoutNodes' = LayoutNodes /\ goal' = goal
      /\ TypeOK' /\ Asking' /\ AnswerInv'
  BY <1>1, OpenKeeps
<1>3. Clean(node.windows)'
  BY <1>2 DEF Clean
<1>4. todo' \subseteq DOMAIN given'
  BY DEF SearchInv, NodeInv, question
<1>5. NodeInv'
  BY <1>2, <1>3, <1>4 DEF NodeInv
<1>6. FrameInv' /\ StackInv' /\ OuterInv'
  BY <1>2 DEF FrameInv, StackInv, OuterInv, SearchInv
<1> QED
  BY <1>2, <1>5, <1>6 DEF SearchInv

(* The last pass takes a window only where the layout stays clean.         *)
LEMMA ImprovementType ==
  ASSUME SearchInv, NEW windows \in Layouts, NEW i \in DOMAIN given, NEW hidden, NEW candidates,
         Len(node.moves) \in Nat, allowed \in Nat,
         NEW best \in Improvement(windows, i, hidden, candidates)
  PROVE  /\ best.offset \in Int \X Int /\ Len(node.moves) < allowed
         /\ Clean(Shifted(windows, i, best.offset))
<1> DEFINE taken == Ranked(windows, i, candidates.offsets, active, TRUE, goal).accepted
           d == best.offset
<1>8. /\ ~ (hidden = 0 \/ candidates.status # "Ok" \/ Len(node.moves) >= allowed)
      /\ best \in WorthIt(windows[i], hidden,
                          Ranked(windows, i, candidates.offsets, active, TRUE, goal))
  BY Zenon DEF Improvement
<1>9. best \in taken
  BY <1>8 DEF WorthIt
<1>10. Len(node.moves) < allowed
  <2>1. ~ (Len(node.moves) >= allowed)
    BY <1>8, Zenon
  <2> QED
    BY <2>1
<1>1. best \in taken /\ Len(node.moves) < allowed
  BY <1>9, <1>10
<1>2. /\ windows \in Seq(LayoutWindow) /\ i \in DOMAIN windows /\ goal \in Goals
      /\ Stable[i] \in Rect
  BY SearchFacts, LayoutsType
<1>3. d \in Int \X Int /\ Acceptance(windows, i, d, TRUE, goal)
  BY <1>1, <1>2, RankedType
<1> HIDE DEF d
<1>4. Scan(Shifted(windows, i, d), goal) = Clear
  BY <1>3 DEF Acceptance
<1>5. Scan(Shifted(windows, i, d), goal).status = "Ok"
      /\ Scan(Shifted(windows, i, d), goal).violations = {}
  BY <1>4 DEF Clear
<1>6. Shifted(windows, i, d) \in Seq(LayoutWindow)
  BY <1>2, <1>3, ShiftedType
<1>7. Clean(Shifted(windows, i, d))
  BY <1>2, <1>5, <1>6, ScannedClean
<1> QED
  BY <1>1, <1>3, <1>7 DEF d

LEMMA EnhanceStep == SearchInv /\ Enhance => SearchInv'
<1> SUFFICES ASSUME SearchInv, Enhance PROVE SearchInv'
  OBVIOUS
<1> DEFINE i == Nearest(todo)
<1>1. /\ stage = "enhancing" /\ todo # {} /\ stage' = stage
      /\ UNCHANGED <<question, ask, title, arranged, moves, status, problem, allowed,
                     outer, attempt>>
  BY DEF Enhance
<1>2. /\ node \in LayoutNodes /\ node.windows \in Layouts /\ node.moves \in Seq(Move)
      /\ Len(node.moves) <= allowed /\ Len(node.moves) \in Nat /\ allowed \in Nat
      /\ Clean(node.windows) /\ todo \subseteq DOMAIN given
  BY <1>1 DEF SearchInv, NodeInv, FrameInv, LayoutNodes
<1>3. i \in DOMAIN given
  BY <1>1, <1>2, SearchFacts, NearestIsIn
<1>4. CASE todo' \subseteq todo /\ node' = node
  BY <1>1, <1>2, <1>4, NodeKeeps
<1> DEFINE seen == Analysis(node.windows, i, goal)
           hidden == Width(node.windows[i].visual) * Height(node.windows[i].visual) - seen.area
           places == Candidates(node.windows, i, SetToSortSeq(Blockers(node.windows, i), <), goal,
                                ask.candidates)
           better == Improvement(node.windows, i, hidden, places)
<1>5. ASSUME todo' \subseteq todo, NEW best \in better,
             node' = [windows |-> Shifted(node.windows, i, best.offset),
                      moves |-> Append(node.moves, Moving(node.windows, i, best.offset))]
      PROVE  SearchInv'
  <2> HIDE DEF i, hidden, places
  <2>1. /\ best.offset \in Int \X Int /\ Len(node.moves) < allowed
        /\ Clean(Shifted(node.windows, i, best.offset))
    BY <1>2, <1>3, ImprovementType
  <2>2. /\ Shifted(node.windows, i, best.offset) \in Layouts
        /\ Append(node.moves, Moving(node.windows, i, best.offset)) \in Seq(Move)
        /\ Len(Append(node.moves, Moving(node.windows, i, best.offset))) = Len(node.moves) + 1
    BY <1>2, <1>3, <2>1, MovingType DEF SearchInv
  <2> DEFINE w == Shifted(node.windows, i, best.offset)
             plan == Append(node.moves, Moving(node.windows, i, best.offset))
  <2>3. node' = [windows |-> w, moves |-> plan]
    BY <1>5
  <2>4. w \in Layouts /\ plan \in Seq(Move) /\ Len(plan) = Len(node.moves) + 1 /\ Clean(w)
    BY <2>1, <2>2
  <2> HIDE DEF w, plan
  <2>5. /\ node' \in LayoutNodes /\ node'.windows = w /\ Len(node'.moves) <= allowed
    BY <1>2, <2>1, <2>3, <2>4 DEF LayoutNodes
  <2>6. Clean(node'.windows)
    BY <2>4, <2>5
  <2> QED
    BY <1>1, <1>5, <2>5, <2>6, NodeKeeps
<1>6. /\ todo' \subseteq todo
      /\ node' = node \/ \E best \in better :
           node' = [windows |-> Shifted(node.windows, i, best.offset),
                    moves |-> Append(node.moves, Moving(node.windows, i, best.offset))]
  <2>1. \/ todo' = todo \ {i} /\ node' = node
        \/ EnhanceOne(node.windows, i, seen)
    BY DEF Enhance
  <2> QED
    BY <2>1 DEF EnhanceOne
<1> HIDE DEF better
<1> QED
  BY <1>4, <1>5, <1>6

-----------------------------------------------------------------------------
(* The incremental solver                                                  *)

(* best_effort_result() calls solved only what is clean.                   *)
LEMMA BestEffortKeeps ==
  ASSUME SearchInv, NEW failure \in Statuses \ Unimprovable, BestEffort(failure)
  PROVE  SearchInv'
<1> DEFINE windows == outer.windows
           plan == outer.moves
           scan == Scan(windows, goal)
<1>1. windows \in Layouts /\ plan \in Seq(Move)
  BY DEF SearchInv, OuterInv
<1>2. \/ Answered(failure, given, <<>>)
      \/ scan.status # "Ok" /\ Answered(scan.status, given, <<>>)
      \/ /\ scan.status = "Ok"
         /\ Answered(IF scan.violations = {} THEN "Solved" ELSE "PartiallySolved", windows, plan)
  BY DEF BestEffort, Kept
<1>3. scan.status # "Ok" => scan.status \in Statuses \ Unimprovable
  BY ScanStatus
<1>4. scan.status = "Ok" /\ scan.violations = {} => Clean(windows)
  BY <1>1, ScannedLayout
<1> HIDE DEF windows, plan, scan
<1>5. CASE Answered(failure, given, <<>>)
  BY <1>5, RefusedKeeps
<1>6. CASE scan.status # "Ok" /\ Answered(scan.status, given, <<>>)
  BY <1>3, <1>6, RefusedKeeps
<1>7. CASE /\ scan.status = "Ok" /\ scan.violations = {}
           /\ Answered("Solved", windows, plan)
  BY <1>1, <1>4, <1>7, AnsweredKeeps DEF Statuses
<1>8. CASE Answered("PartiallySolved", windows, plan)
  BY <1>1, <1>8, AnsweredKeeps DEF Statuses, Unimprovable
<1> QED
  BY <1>2, <1>5, <1>6, <1>7, <1>8

(* The snapshot of a local search is a layout of the snapshot.             *)
LEMMA LocalType ==
  ASSUME NEW windows \in Layouts, NEW i
  PROVE  Local(windows, i) \in Layouts
<1> DEFINE local(j) == [windows[j] EXCEPT !.managed = (j = i),
                                          !.movable = (j = i /\ windows[j].movable)]
           n == Len(windows)
<1>1. windows \in Seq(LayoutWindow) /\ n = Len(given) /\ n \in Nat /\ DOMAIN windows = 1..n
  BY LenProperties DEF Layouts
<1>2. \A j \in DOMAIN given : windows[j].z = given[j].z
  BY DEF Layouts
<1>3. ASSUME NEW j \in 1..n PROVE local(j) \in LayoutWindow /\ local(j).z = windows[j].z
  <2>1. windows[j] \in LayoutWindow
    BY <1>1, ElementOfSeq
  <2>2. windows[j].movable \in BOOLEAN
    BY <2>1 DEF LayoutWindow
  <2> DEFINE a == (j = i)
             b == (j = i /\ windows[j].movable)
             w == windows[j]
  <2>3. local(j) = [w EXCEPT !.managed = a, !.movable = b]
    OBVIOUS
  <2>4. a \in BOOLEAN /\ b \in BOOLEAN /\ w \in LayoutWindow
    BY <2>1, <2>2
  <2> HIDE DEF a, b, w, local
  <2>5. [w EXCEPT !.managed = a, !.movable = b] \in LayoutWindow
        /\ [w EXCEPT !.managed = a, !.movable = b].z = w.z
    BY <2>4 DEF LayoutWindow
  <2> QED
    BY <2>3, <2>5 DEF w
<1>4. Local(windows, i) = [j \in 1..n |-> local(j)]
  BY <1>1 DEF Local
<1> HIDE DEF local, n
<1>5. Local(windows, i) \in [1..n -> LayoutWindow]
  BY <1>3, <1>4
<1>6. Local(windows, i) \in Seq(LayoutWindow) /\ Len(Local(windows, i)) = n
  BY <1>1, <1>5
<1>7. \A j \in 1..n : Local(windows, i)[j].z = windows[j].z
  BY <1>3, <1>4
<1>8. DOMAIN given = 1..n
  BY <1>1, <1>6 DEF Layouts, n
<1> QED
  BY <1>1, <1>2, <1>6, <1>7, <1>8 DEF Layouts

LEMMA StepNextStep == SearchInv /\ StepNext => SearchInv'
<1> SUFFICES ASSUME SearchInv, StepNext PROVE SearchInv'
  OBVIOUS
<1> DEFINE windows == outer.windows
           plan == outer.moves
           scan == Scan(windows, goal)
           target == Priority(scan.violations)
<1>1. windows \in Layouts /\ plan \in Seq(Move) /\ pc # "answered"
  BY SearchFacts DEF SearchInv, OuterInv, StepNext
<1>2. \/ BestEffort("Unsatisfiable")
      \/ scan.status # "Ok" /\ Answered(scan.status, given, <<>>)
      \/ scan.status = "Ok" /\ scan.violations = {} /\ Answered("Solved", windows, plan)
      \/ StartSearch(Local(windows, target), 1) /\ outer' = outer
  BY DEF StepNext, StepWith
<1>3. scan.status # "Ok" => scan.status \in Statuses \ Unimprovable
  BY ScanStatus
<1>4. scan.status = "Ok" /\ scan.violations = {} => Clean(windows)
  BY <1>1, ScannedLayout
<1>5. Local(windows, target) \in Layouts
  BY <1>1, LocalType
<1> HIDE DEF windows, plan, scan, target
<1>6. CASE BestEffort("Unsatisfiable")
  BY <1>6, BestEffortKeeps DEF Statuses, Unimprovable
<1>7. CASE scan.status # "Ok" /\ Answered(scan.status, given, <<>>)
  BY <1>3, <1>7, RefusedKeeps
<1>8. CASE scan.status = "Ok" /\ scan.violations = {} /\ Answered("Solved", windows, plan)
  BY <1>1, <1>4, <1>8, AnsweredKeeps DEF Statuses
<1>9. CASE StartSearch(Local(windows, target), 1) /\ outer' = outer
  BY <1>1, <1>5, <1>9, StartSearchKeeps
<1> QED
  BY <1>2, <1>6, <1>7, <1>8, <1>9

(* A layout that takes one place over from another.                        *)
LEMMA TakenType ==
  ASSUME NEW a \in Layouts, NEW b \in Layouts, NEW t
  PROVE  [a EXCEPT ![t].place = b[t].place, ![t].visual = b[t].visual] \in Layouts
<1> DEFINE c == [a EXCEPT ![t].place = b[t].place, ![t].visual = b[t].visual]
           n == Len(a)
<1>1. /\ a \in Seq(LayoutWindow) /\ n \in Nat /\ DOMAIN a = 1..n /\ n = Len(given)
      /\ b \in Seq(LayoutWindow) /\ Len(b) = n
      /\ \A j \in DOMAIN given : a[j].z = given[j].z
  BY LenProperties DEF Layouts
<1>2. CASE t \notin DOMAIN a
  <2>1. c = a
    BY <1>1, <1>2
  <2> QED
    BY <2>1
<1>3. CASE t \in DOMAIN a
  <2>1. a[t] \in LayoutWindow /\ b[t] \in LayoutWindow
    BY <1>1, <1>3, ElementOfSeq
  <2> DEFINE to == [a[t] EXCEPT !.place = b[t].place, !.visual = b[t].visual]
  <2>2. to \in LayoutWindow /\ to.z = a[t].z
    <3>1. b[t].place \in Rect /\ b[t].visual \in Rect
      BY <2>1 DEF LayoutWindow
    <3> DEFINE p == b[t].place
               v == b[t].visual
               w == a[t]
    <3>2. p \in Rect /\ v \in Rect /\ w \in LayoutWindow
      BY <2>1, <3>1
    <3> HIDE DEF p, v, w
    <3>3. /\ [w EXCEPT !.place = p, !.visual = v] \in LayoutWindow
          /\ [w EXCEPT !.place = p, !.visual = v].z = w.z
      BY <3>2 DEF LayoutWindow
    <3> QED
      BY <3>3 DEF p, v, w
  <2>3. c = [a EXCEPT ![t] = to]
    BY <1>3
  <2> HIDE DEF to, c
  <2>4. c \in Seq(LayoutWindow) /\ Len(c) = n
    BY <1>1, <1>3, <2>2, <2>3, ExceptSeq
  <2>5. \A j \in 1..n : c[j].z = a[j].z
    BY <1>1, <1>3, <2>2, <2>3
  <2>6. DOMAIN given = 1..n
    BY <1>1, <2>4 DEF Layouts
  <2> QED
    BY <1>1, <2>4, <2>5, <2>6 DEF Layouts, c
<1> QED
  BY <1>2, <1>3

LEMMA StepTakenStep == SearchInv /\ StepTaken => SearchInv'
<1> SUFFICES ASSUME SearchInv, StepTaken PROVE SearchInv'
  OBVIOUS
<1> DEFINE target == node.moves[1].window
           windows == [outer.windows EXCEPT ![target].place = node.windows[target].place,
                                            ![target].visual = node.windows[target].visual]
           failure == IF status = "NoViolation" THEN "Unsatisfiable" ELSE status
<1>1. stage = "found" /\ pc # "answered" /\ status \in Statuses
  BY SearchFacts DEF StepTaken
<1>2. /\ outer.windows \in Layouts /\ outer.moves \in Seq(Move)
      /\ node.windows \in Layouts /\ node.moves \in Seq(Move)
      /\ status = "Solved" => Len(node.moves) = 1
  BY <1>1 DEF SearchInv, OuterInv, NodeInv, LayoutNodes
<1>3. CASE (status # "Solved" \/ Len(node.moves) # 1) /\ BestEffort(failure)
  <2>1. failure \in Statuses \ Unimprovable
    BY <1>1, <1>2, <1>3 DEF Statuses, Unimprovable
  <2> QED
    BY <1>3, <2>1, BestEffortKeeps
<1>4. CASE /\ outer' = [windows |-> windows, moves |-> outer.moves \o node.moves,
                        seen |-> outer.seen \cup {windows}]
           /\ stage' = IF windows \in outer.seen \/ Cardinality(outer.seen) >= MaximumStates
                       THEN "stuck" ELSE "stepping"
           /\ UNCHANGED <<question, ask, title, arranged, moves, status, search, chosen, attempt>>
  <2>1. windows \in Layouts
    BY <1>2, TakenType
  <2> HIDE DEF windows
  <2>2. status' \in Statuses /\ problem' = problem /\ allowed' = allowed /\ attempt' = attempt
        /\ stage' \in {"stuck", "stepping"}
    BY <1>1, <1>4 DEF search
  <2>3. /\ Layouts' = Layouts /\ TypeOK' /\ Asking' /\ AnswerInv'
    BY <1>1, <1>4, <2>2, OpenKeeps
  <2>4. outer'.windows = windows /\ outer'.moves = outer.moves \o node.moves
    BY <1>4
  <2>5. outer.moves \o node.moves \in Seq(Move)
    BY <1>2, ConcatProperties
  <2>6. OuterInv'
    BY <2>1, <2>2, <2>3, <2>4, <2>5 DEF OuterInv, SearchInv
  <2>7. FrameInv' /\ StackInv' /\ NodeInv'
    BY <2>2, <2>3 DEF FrameInv, StackInv, NodeInv, SearchInv
  <2> QED
    BY <2>3, <2>6, <2>7 DEF SearchInv
<1> QED
  BY <1>3, <1>4 DEF StepTaken

LEMMA StepStuckStep == SearchInv /\ StepStuck => SearchInv'
BY BestEffortKeeps DEF StepStuck, Statuses, Unimprovable

-----------------------------------------------------------------------------
(* The staircases, the title bar solver, and the theorems                  *)

(* A round that is rolled back is a layout of the snapshot.                *)
LEMMA RolledBackType ==
  ASSUME SearchInv, NEW windows \in Layouts, NEW violations
  PROVE  RolledBack(windows, violations) \in Layouts
<1> DEFINE n == Len(given)
           kept(i) == IF i \in Targets /\ windows[i].z >= windows[Priority(violations)].z
                      THEN given[i] ELSE windows[i]
           result == RolledBack(windows, violations)
<1>1. /\ given \in Seq(LayoutWindow) /\ windows \in Seq(LayoutWindow) /\ Len(windows) = n
      /\ n \in Nat /\ DOMAIN given = 1..n /\ DOMAIN windows = 1..n
      /\ \A j \in 1..n : windows[j].z = given[j].z
  BY SearchFacts, LenProperties DEF Layouts
<1>2. ASSUME NEW i \in 1..n PROVE kept(i) \in LayoutWindow /\ kept(i).z = given[i].z
  <2>1. given[i] \in LayoutWindow /\ windows[i] \in LayoutWindow
    BY <1>1, ElementOfSeq
  <2> QED
    BY <1>1, <2>1
<1>3. result = [i \in 1..n |-> kept(i)]
  BY <1>1 DEF RolledBack
<1> HIDE DEF kept, n, result
<1>4. result \in [1..n -> LayoutWindow]
  BY <1>2, <1>3
<1>5. result \in Seq(LayoutWindow) /\ Len(result) = n
  BY <1>1, <1>4
<1>6. \A j \in 1..n : result[j].z = given[j].z
  BY <1>2, <1>3
<1> QED
  BY <1>1, <1>5, <1>6 DEF Layouts, result, n

(* What is not complete is never called solved.                            *)
LEMMA SettleKeeps ==
  ASSUME SearchInv, NEW windows \in Layouts, NEW scan,
         scan.status # "Ok" => scan.status \in Statuses \ Unimprovable,
         NEW failures \in SUBSET (Statuses \ Unimprovable), Settle(windows, scan, failures)
  PROVE  SearchInv'
<1> DEFINE plan == Plan(windows)
<1>1. plan \in Seq(Move)
  BY SearchFacts, PlanType
<1>2. \/ scan.status # "Ok" /\ Answered(scan.status, given, <<>>)
      \/ Answered("PartiallySolved", windows, plan)
      \/ \E failure \in failures : Answered(failure, given, <<>>)
  BY DEF Settle, Settled
<1> HIDE DEF plan
<1>3. CASE scan.status # "Ok" /\ Answered(scan.status, given, <<>>)
  BY <1>3, RefusedKeeps
<1>4. CASE Answered("PartiallySolved", windows, plan)
  BY <1>1, <1>4, AnsweredKeeps DEF Statuses, Unimprovable
<1>5. ASSUME NEW failure \in failures, Answered(failure, given, <<>>) PROVE SearchInv'
  BY <1>5, RefusedKeeps
<1> QED
  BY <1>2, <1>3, <1>4, <1>5

LEMMA ClimbStep == SearchInv /\ Climb => SearchInv'
<1> SUFFICES ASSUME SearchInv, Climb PROVE SearchInv'
  OBVIOUS
<1> DEFINE windows == Round.windows
           scan == Scan(windows, goal)
           failures == {"Timeout"} \cup IF attempt.rounds + 2 >= MaximumStates THEN {}
                                        ELSE {"Unsatisfiable"}
           kept == RolledBack(windows, scan.violations)
           plan == Plan(windows)
           again == /\ stage' = stage
                    /\ attempt' = [windows |-> windows, violations |-> scan.violations,
                                   rounds |-> attempt.rounds + 1]
                    /\ UNCHANGED <<question, ask, title, arranged, moves, status, search, outer>>
<1>1. stage = "climbing" /\ pc # "answered" /\ status \in Statuses
  BY SearchFacts DEF Climb
<1>2. windows \in Layouts
  BY SearchFacts, RoundType
<1>3. kept \in Layouts
  BY <1>2, RolledBackType
<1>4. plan \in Seq(Move)
  BY <1>2, SearchFacts, PlanType
<1>5. failures \in SUBSET (Statuses \ Unimprovable)
  BY DEF Statuses, Unimprovable
<1>6. /\ scan.status # "Ok" => scan.status \in Statuses \ Unimprovable
      /\ Scan(kept, goal).status # "Ok" => Scan(kept, goal).status \in Statuses \ Unimprovable
  BY ScanStatus
<1>7. scan.status = "Ok" /\ scan.violations = {} => Clean(windows)
  BY <1>2, ScannedLayout
<1>8. \/ scan.status # "Ok" /\ Answered(scan.status, given, <<>>)
      \/ /\ scan.status = "Ok" /\ scan.violations = {}
         /\ Answered("Solved", windows, plan)
      \/ Settle(windows, scan, failures)
      \/ Settle(kept, Scan(kept, goal), failures)
      \/ again
  BY DEF Climb, ClimbTo
<1> HIDE DEF windows, scan, failures, kept, plan
<1>9. CASE scan.status # "Ok" /\ Answered(scan.status, given, <<>>)
  BY <1>6, <1>9, RefusedKeeps
<1>10. CASE scan.status = "Ok" /\ scan.violations = {} /\ Answered("Solved", windows, plan)
  BY <1>2, <1>4, <1>7, <1>10, AnsweredKeeps DEF Statuses
<1>11. CASE Settle(windows, scan, failures)
  BY <1>2, <1>5, <1>6, <1>11, SettleKeeps
<1>12. CASE Settle(kept, Scan(kept, goal), failures)
  BY <1>3, <1>5, <1>6, <1>12, SettleKeeps
<1>13. CASE again
  <2>1. /\ status' \in Statuses /\ problem' = problem /\ allowed' = allowed /\ outer' = outer
        /\ attempt'.windows = windows /\ stage' = "climbing"
    BY <1>1, <1>13 DEF search
  <2>2. /\ Layouts' = Layouts /\ TypeOK' /\ Asking' /\ AnswerInv'
    BY <1>1, <1>13, <2>1, OpenKeeps
  <2>3. FrameInv' /\ StackInv' /\ NodeInv' /\ OuterInv'
    BY <1>2, <2>1, <2>2 DEF FrameInv, StackInv, NodeInv, OuterInv, SearchInv
  <2> QED
    BY <2>2, <2>3 DEF SearchInv
<1> QED
  BY <1>8, <1>9, <1>10, <1>11, <1>12, <1>13

LEMMA ClimbStopsStep == SearchInv /\ ClimbStops => SearchInv'
<1> SUFFICES ASSUME SearchInv, ClimbStops PROVE SearchInv'
  OBVIOUS
<1> DEFINE windows == attempt.windows
           scan == [Clear EXCEPT !.violations = attempt.violations]
<1>1. windows \in Layouts /\ Settle(windows, scan, {"Timeout"})
  BY DEF SearchInv, OuterInv, ClimbStops
<1>2. scan.status = "Ok"
  BY DEF Clear
<1>3. {"Timeout"} \in SUBSET (Statuses \ Unimprovable)
  BY DEF Statuses, Unimprovable
<1> HIDE DEF windows, scan
<1> QED
  BY <1>1, <1>2, <1>3, SettleKeeps

LEMMA RestKeeps == SearchInv /\ UNCHANGED everything => SearchInv'
<1> SUFFICES ASSUME SearchInv, UNCHANGED everything PROVE SearchInv'
  OBVIOUS
<1>1. /\ UNCHANGED vars /\ given' = given /\ active' = active /\ ask' = ask /\ stage' = stage
      /\ problem' = problem /\ allowed' = allowed /\ stack' = stack /\ visited' = visited
      /\ node' = node /\ todo' = todo /\ outer' = outer /\ attempt' = attempt
      /\ pc' = pc /\ arranged' = arranged /\ status' = status
  BY DEF everything, vars, solver, search
<1>2. /\ Layouts' = Layouts /\ LayoutNodes' = LayoutNodes /\ goal' = goal
      /\ GoodNodes' = GoodNodes /\ Asking'
  BY <1>1, SameLayouts DEF SearchInv
<1>3. TypeOK'
  BY <1>1, TypeNext DEF SearchInv
<1>4. AnswerInv' /\ FrameInv'
  BY <1>1, <1>2 DEF AnswerInv, FrameInv, Clean, SearchInv
<1>5. StackInv' /\ NodeInv' /\ OuterInv'
  BY <1>1, <1>2 DEF StackInv, NodeInv, OuterInv, Clean, SearchInv
<1> QED
  BY <1>2, <1>3, <1>4, <1>5 DEF SearchInv

(* The title bar solver: what it calls solved has no violation.            *)
TitleInv ==
  /\ TypeOK
  /\ stage = "idle"
  /\ pc = "called" => status = "InvalidSnapshot"
  /\ pc = "answered" /\ status \in Unimprovable => Violations(arranged) = {}

LEMMA TitleStep == TitleInv /\ [Next]_vars /\ UNCHANGED <<ask, solver>> => TitleInv'
<1> SUFFICES ASSUME TitleInv, [Next]_vars, UNCHANGED <<ask, solver>> PROVE TitleInv'
  OBVIOUS
<1>1. TypeOK' /\ stage' = "idle"
  BY TypeNext DEF TitleInv, solver
<1>2. ASSUME NEW why, Answer(why) PROVE TitleInv'
  <2>1. /\ arranged' = arranged /\ pc' = "answered"
        /\ status' = IF Violations(arranged) = {}
                     THEN IF moves = <<>> THEN "NoViolation" ELSE "Solved"
                     ELSE IF moves = <<>> THEN "Unsatisfiable" ELSE "PartiallySolved"
    BY <1>2 DEF Answer
  <2>2. Violations(arranged)' = Violations(arranged)
    BY <2>1
  <2> QED
    BY <1>1, <2>1, <2>2 DEF TitleInv, Unimprovable
<1>3. CASE Refuse
  BY <1>1, <1>3 DEF TitleInv, Refuse, Unimprovable
<1>4. CASE Begin
  BY <1>1, <1>4 DEF TitleInv, Begin
<1>5. CASE Place
  BY <1>1, <1>5 DEF TitleInv, Place
<1>6. CASE Reconcile
  BY <1>1, <1>6 DEF TitleInv, Reconcile
<1>7. CASE UNCHANGED vars
  BY <1>1, <1>7 DEF TitleInv, vars, Violations, Judged
<1>8. CASE OutsideWorkArea \/ Blocked \/ OverLimit \/ Complete
  BY <1>2, <1>8 DEF OutsideWorkArea, Blocked, OverLimit, Complete
<1> QED
  BY <1>3, <1>4, <1>5, <1>6, <1>7, <1>8 DEF Next

(* No step of the other solvers changes what is asked.                     *)
LEMMA AskKept ==
  ASSUME \/ Open \/ SearchTimesOut \/ Exhausted \/ Pop \/ EnhancementEnds \/ Enhance
         \/ StepNext \/ StepTaken \/ StepStuck \/ Climb \/ ClimbStops
         \/ UNCHANGED everything
  PROVE  ask' = ask
<1>1. ASSUME NEW result, NEW windows, NEW plan, Answered(result, windows, plan) PROVE ask' = ask
  BY <1>1 DEF Answered
<1>2. ASSUME NEW result, NEW windows, NEW plan, Found(result, windows, plan) PROVE ask' = ask
  BY <1>1, <1>2 DEF Found
<1>3. ASSUME NEW result, NotFound(result) PROVE ask' = ask
  BY <1>2, <1>3 DEF NotFound
<1>4. ASSUME NEW failure, BestEffort(failure) PROVE ask' = ask
  BY <1>1, <1>4 DEF BestEffort, Kept
<1>5. ASSUME NEW windows, NEW maximum, StartSearch(windows, maximum) PROVE ask' = ask
  BY <1>5 DEF StartSearch
<1>6. ASSUME NEW windows, NEW scan, NEW failures, Settle(windows, scan, failures)
      PROVE ask' = ask
  BY <1>1, <1>6 DEF Settle, Settled
<1>7. CASE Open
  <2>1. ASSUME NEW violations, Dispatch(violations) PROVE ask' = ask
    BY <1>1, <1>5, <2>1 DEF Dispatch
  <2> QED
    BY <1>1, <1>7, <2>1 DEF Open, OpenWith
<1>8. CASE SearchTimesOut \/ Exhausted
  BY <1>3, <1>8 DEF SearchTimesOut, Exhausted
<1>9. CASE Pop
  <2>1. ASSUME NEW top, NEW target, NEW truncated, NEW places,
               Branch(top, target, truncated, places)
        PROVE  ask' = ask
    BY <2>1 DEF Branch
  <2>2. ASSUME NEW top, NEW target, NEW candidates, Expand(top, target, candidates)
        PROVE  ask' = ask
    BY <1>3, <2>1, <2>2 DEF Expand, BranchRanked
  <2>3. PICK top, scan : Visit(top, scan)
    BY <1>9 DEF Pop
  <2> QED
    BY <1>3, <2>2, <2>3 DEF Visit
<1>10. CASE EnhancementEnds
  BY <1>2, <1>10 DEF EnhancementEnds
<1>11. CASE Enhance
  BY <1>11 DEF Enhance
<1>12. CASE StepNext
  <2>1. ASSUME NEW scan, StepWith(scan) PROVE ask' = ask
    BY <1>1, <1>4, <1>5, <2>1 DEF StepWith
  <2> QED
    BY <1>4, <1>12, <2>1 DEF StepNext
<1>13. CASE StepTaken
  BY <1>4, <1>13 DEF StepTaken
<1>14. CASE StepStuck \/ ClimbStops
  BY <1>4, <1>6, <1>14 DEF StepStuck, ClimbStops
<1>15. CASE Climb
  <2>1. PICK round, scan : ClimbTo(round, scan)
    BY <1>15 DEF Climb
  <2> QED
    BY <1>1, <1>6, <2>1 DEF ClimbTo
<1>16. CASE UNCHANGED everything
  BY <1>16 DEF everything
<1> QED
  BY <1>7, <1>8, <1>9, <1>10, <1>11, <1>12, <1>13, <1>14, <1>15, <1>16

(* The invariant of all solvers.                                           *)
SolverInv == IF ByTitle THEN TitleInv ELSE SearchInv

LEMMA SolverInvInit == SolverInit => SolverInv
<1> SUFFICES ASSUME SolverInit PROVE SolverInv
  OBVIOUS
<1>1. TypeOK
  BY TypeInit DEF SolverInit
<1>2. /\ pc = "called" /\ status = "InvalidSnapshot" /\ stage = "idle" /\ ask \in Asked
      /\ problem = given /\ allowed = limit
      /\ outer = [windows |-> given, moves |-> <<>>, seen |-> {}]
      /\ attempt = [windows |-> given, violations |-> {}, rounds |-> 0]
      /\ \E s \in Snapshots : given = s.windows /\ active = s.active
  BY DEF SolverInit, Init
<1>3. Asking
  BY <1>2 DEF Asking
<1>4. given \in Layouts /\ limit \in Nat /\ <<>> \in Seq(Move)
  BY <1>1, <1>3, AskingType, SolverAssumption DEF TypeOK
<1>5. AnswerInv /\ FrameInv /\ StackInv /\ NodeInv /\ OuterInv
  BY <1>2, <1>4 DEF AnswerInv, FrameInv, StackInv, NodeInv, OuterInv
<1> QED
  BY <1>1, <1>2, <1>3, <1>5 DEF SolverInv, SearchInv, TitleInv

LEMMA SolverInvNext == SolverInv /\ [SolverNext]_everything => SolverInv'
<1> SUFFICES ASSUME SolverInv, [SolverNext]_everything PROVE SolverInv'
  OBVIOUS
<1>1. CASE ByTitle
  <2>1. TitleInv
    BY <1>1 DEF SolverInv
  <2>2. stage = "idle" /\ "idle" \notin {"searching", "enhancing", "stepping", "found",
            "stuck", "climbing"}
    BY <2>1 DEF TitleInv
  <2>3. [Next]_vars /\ UNCHANGED <<ask, solver>>
    BY <1>1, <2>2 DEF SolverNext, ArrangeTitles, Open, SearchTimesOut, Exhausted, Pop,
                      EnhancementEnds, Enhance, StepNext, StepTaken, StepStuck, Climb,
                      ClimbStops, Rest, everything
  <2>4. TitleInv'
    BY <2>1, <2>3, TitleStep
  <2>5. ByTitle'
    BY <1>1, <2>3 DEF ByTitle, goal
  <2> QED
    BY <2>4, <2>5 DEF SolverInv
<1>2. CASE ~ ByTitle
  <2>1. SearchInv
    BY <1>2 DEF SolverInv
  <2>2. \/ Open \/ SearchTimesOut \/ Exhausted \/ Pop \/ EnhancementEnds \/ Enhance
        \/ StepNext \/ StepTaken \/ StepStuck \/ Climb \/ ClimbStops
        \/ UNCHANGED everything
    BY <1>2 DEF SolverNext, ArrangeTitles, Rest
  <2>3. SearchInv'
    BY <2>1, <2>2, OpenStep, SearchEndStep, PopStep, EnhancementEndsStep, EnhanceStep,
       StepNextStep, StepTakenStep, StepStuckStep, ClimbStep, ClimbStopsStep, RestKeeps
  <2>4. ask' = ask
    BY <2>2, AskKept
  <2> QED
    BY <1>2, <2>3, <2>4 DEF SolverInv, ByTitle, goal
<1> QED
  BY <1>1, <1>2

(* The type invariant holds whichever solver is asked: layouts keep their  *)
(* windows, plans are sequences of moves.                                  *)
THEOREM SolverTypeCorrect == SolverSpec => []TypeOK
<1>1. SolverInv => TypeOK
  BY DEF SolverInv, TitleInv, SearchInv
<1> QED
  BY <1>1, SolverInvInit, SolverInvNext, PTL DEF SolverSpec

LEMMA AnsweredIsShown == SolverInv => SolvedIsRecognisable
<1> SUFFICES ASSUME SolverInv, pc = "answered", status \in Unimprovable,
                    NEW i \in Judged(arranged)
             PROVE  Recognisable(arranged, i, goal)
  BY DEF SolvedIsRecognisable, Unimprovable
<1>1. CASE ~ ByTitle
  BY <1>1 DEF SolverInv, SearchInv, AnswerInv, Clean
<1>2. CASE ByTitle
  <2>1. Violations(arranged) = {} /\ arranged \in Seq(LayoutWindow)
    BY <1>2 DEF SolverInv, TitleInv, TypeOK
  <2>2. Satisfied(arranged, i) /\ i \in DOMAIN arranged
    BY <2>1 DEF Violations, Judged
  <2>3. TitleShown(arranged, i)
    BY <2>1, <2>2, ReadableIsShown
  <2> QED
    BY <1>2, <2>3 DEF Recognisable, ByTitle
<1> QED
  BY <1>1, <1>2

(* Whatever method is asked, with whatever limits and for whatever goal: a *)
(* layout that is answered as solved, or as having no violation, lets the  *)
(* user recognise every window that has to be, pixel by pixel.             *)
THEOREM SolvedIsSeen == SolverSpec => []SolvedIsRecognisable
BY AnsweredIsShown, SolverInvInit, SolverInvNext, PTL DEF SolverSpec

LEMMA StackIsShown == SolverInv => UpperLayersStayFixed
<1> SUFFICES ASSUME SolverInv, stage = "searching", NEW n \in DOMAIN stack
             PROVE  UpperShown(stack[n].windows, stack[n].moves)
  BY DEF UpperLayersStayFixed, UpperShown
<1>1. ~ ByTitle
  BY DEF SolverInv, TitleInv
<1>2. stack \in Seq(GoodNodes)
  BY <1>1 DEF SolverInv, SearchInv, StackInv
<1>3. stack[n] \in GoodNodes
  BY <1>2, LenProperties, ElementOfSeq
<1> QED
  BY <1>3 DEF GoodNodes

(* On every layout the search still has to look at, the windows down to    *)
(* the one that was moved last can be recognised: fixing a layer never     *)
(* breaks one above it, however deep the search goes and however it        *)
(* branches.                                                               *)
THEOREM UpperLayersAreFixed == SolverSpec => []UpperLayersStayFixed
BY StackIsShown, SolverInvInit, SolverInvNext, PTL DEF SolverSpec
=============================================================================
