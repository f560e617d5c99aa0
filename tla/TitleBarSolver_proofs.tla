----------------------- MODULE TitleBarSolver_proofs -----------------------
(***************************************************************************)
(* Machine-checked safety of TitleBarSolver, for snapshots of any number   *)
(* of windows at any scale and for any requirements: what the analysis     *)
(* accepts is visible pixel by pixel, the titles the staircase has got to  *)
(* stay visible, the moves explain the layout, and a reconcile does not    *)
(* rearrange what the call before it has arranged.                         *)
(*                                                                         *)
(* The argument for the last: every window of the staircase stands where   *)
(* the one before it says, so the second call wants each of them where it  *)
(* is, and comes to the window the first call has stopped at, for the same *)
(* reason.                                                                 *)
(***************************************************************************)
EXTENDS TitleBarSolver, TLAPS, SequenceTheorems

-----------------------------------------------------------------------------
(* Windows and their titles                                                *)

LEMMA BoundsType ==
  ASSUME NEW a \in Int, NEW b \in Int
  PROVE  /\ Lower(a, b) \in Int /\ Lower(a, b) <= a /\ Lower(a, b) <= b
         /\ Upper(a, b) \in Int /\ a <= Upper(a, b) /\ b <= Upper(a, b)
BY DEF Lower, Upper

LEMMA ExtentType ==
  ASSUME NEW r \in Rect
  PROVE  Width(r) \in Int /\ Height(r) \in Int
BY DEF Rect, Width, Height

(* A title strip is at least one pixel high. *)
LEMMA ProtectedHeightType ==
  ASSUME NEW w \in LayoutWindow
  PROVE  ProtectedHeight(w) \in Int /\ ProtectedHeight(w) >= 1
<1>1. w.bar \in Nat
  BY DEF LayoutWindow
<1>2. Upper(1, w.bar) \in Int /\ 1 <= Upper(1, w.bar)
  BY <1>1 DEF Upper
<1>3. ASSUME NEW base \in Int, 1 <= base
      PROVE  base + base \div 2 + (base % 2) \in Int /\ base + base \div 2 + (base % 2) >= 1
  BY <1>3
<1> QED
  BY <1>2, <1>3 DEF ProtectedHeight

(* The requirements are numbers, whatever the scale. *)
LEMMA LengthType ==
  ASSUME NEW w \in LayoutWindow, NEW e \in Edges
  PROVE  Length(w, e) \in Int
<1>1. w.visual \in Rect /\ w.dpi \in Nat
  BY DEF LayoutWindow
<1>2. Along(w.visual, e) \in Int
  BY <1>1, ExtentType DEF Along
<1>3. Rule[e] \in EdgeRule
  BY RuleAssumption
<1>4. Rule[e].minimum \in Nat /\ Rule[e].maximum \in Nat /\ Rule[e].percent \in Nat
  BY <1>3 DEF EdgeRule
<1>5. ASSUME NEW dip \in Nat, NEW dpi \in Nat
      PROVE  ScaleDip(dip, dpi) \in Int
  <2>1. dip * dpi + 95 \in Int
    OBVIOUS
  <2> QED
    BY <2>1 DEF ScaleDip
<1>6. ASSUME NEW x \in Int, NEW y \in Nat
      PROVE  (x * y) \div 100 \in Int
  <2>1. x * y \in Int
    OBVIOUS
  <2> QED
    BY <2>1
<1> DEFINE dpi == IF w.dpi = 0 THEN 96 ELSE w.dpi
           share == (Along(w.visual, e) * Rule[e].percent) \div 100
           low == ScaleDip(Rule[e].minimum, dpi)
           high == ScaleDip(Rule[e].maximum, dpi)
<1>7. dpi \in Nat
  BY <1>1
<1>8. share \in Int /\ low \in Int /\ high \in Int
  BY <1>2, <1>4, <1>5, <1>6, <1>7
<1> HIDE DEF share, low, high
<1>9. Clamp(share, low, high) \in Int
  BY <1>8 DEF Clamp
<1>10. Lower(Along(w.visual, e), Clamp(share, low, high)) \in Int
  BY <1>2, <1>9, BoundsType
<1> QED
  BY <1>10 DEF Length, share, low, high

LEMMA RequiredWidthType ==
  ASSUME NEW w \in LayoutWindow
  PROVE  RequiredWidth(w) \in Int
<1>1. w.visual \in Rect
  BY DEF LayoutWindow
<1>2. Width(w.visual) \in Int
  BY <1>1, ExtentType
<1>3. Width(w.visual) \div 2 + (Width(w.visual) % 2) \in Int
  BY <1>2
<1>4. Length(w, "Top") \in Int
  BY LengthType DEF Edges
<1> QED
  BY <1>3, <1>4, BoundsType DEF RequiredWidth

(* What a covered pixel of a title strip says about its blocker. *)
LEMMA CoveredTitle ==
  ASSUME NEW r \in Rect, NEW b \in Rect, NEW height \in Int,
         ~ Empty(r), height >= 1,
         NEW x \in Int, NEW y \in Int,
         r.left <= x, x < r.right, r.top <= y, y < r.top + height,
         HasPixel(b, x, y)
  PROVE  /\ Intersects([r EXCEPT !.bottom = r.top + height], b)
         /\ Upper(r.left, b.left) <= x
BY DEF Rect, Empty, Valid, HasPixel, Intersects, Upper

(* The analysis of edge exposures is sound: where it calls a title         *)
(* readable, every pixel of the required part of the strip is on the       *)
(* screen and nothing in front of the window is painted over it.           *)
THEOREM ReadableIsShown ==
  ASSUME NEW windows \in Seq(LayoutWindow), NEW i \in DOMAIN windows,
         Satisfied(windows, i)
  PROVE  TitleShown(windows, i)
<1> DEFINE w == windows[i]
           r == windows[i].visual
           title == Title(windows[i])
           height == ProtectedHeight(windows[i])
           width == RequiredWidth(windows[i])
<1>1. \A j \in DOMAIN windows : windows[j] \in LayoutWindow
  BY LenProperties, ElementOfSeq
<1>2. r \in Rect /\ w.work \in Rect
  BY <1>1 DEF LayoutWindow
<1>3. height \in Int /\ height >= 1 /\ width \in Int
  BY <1>1, ProtectedHeightType, RequiredWidthType
<1>10. /\ r.left \in Int /\ r.right \in Int /\ r.top \in Int /\ r.bottom \in Int
       /\ w.work.left \in Int /\ w.work.right \in Int
       /\ w.work.top \in Int /\ w.work.bottom \in Int
  BY <1>2 DEF Rect
<1>4. title = [r EXCEPT !.bottom = r.top + height]
  BY DEF Title
<1>5. /\ title.left = r.left /\ title.right = r.right /\ title.top = r.top
      /\ title.bottom = r.top + height
  BY <1>2, <1>4 DEF Rect
<1>6. ~ Empty(r) /\ ~ Empty(w.work) /\ height <= Height(r)
  BY DEF Satisfied, Analysable
<1>7. /\ w.work.top <= r.top /\ r.top + height <= w.work.bottom
      /\ w.work.left <= r.left
      /\ Lower(r.right, w.work.right) - r.left >= width
  BY <1>5 DEF Satisfied
<1>8. ASSUME NEW j \in DOMAIN windows,
             RelevantBlocker(w, windows[j]), Intersects(title, windows[j].visual)
      PROVE  Upper(r.left, windows[j].visual.left) - r.left >= width
  BY <1>5, <1>8 DEF Satisfied
<1> HIDE DEF w, r, title, height, width
<1>9. ASSUME NEW x \in r.left..(r.left + width - 1),
             NEW y \in r.top..(r.top + height - 1)
      PROVE  PixelShown(windows, i, x, y)
  <2>1. /\ x \in Int /\ y \in Int
        /\ r.left <= x /\ x < r.left + width /\ r.top <= y /\ y < r.top + height
    BY <1>3, <1>10
  <2>2. /\ Lower(r.right, w.work.right) \in Int
        /\ Lower(r.right, w.work.right) <= r.right
        /\ Lower(r.right, w.work.right) <= w.work.right
    BY <1>10, BoundsType
  <2>3. x < r.right /\ x < w.work.right
    <3> DEFINE low == Lower(r.right, w.work.right)
    <3>1. low \in Int /\ low <= r.right /\ low <= w.work.right /\ low - r.left >= width
      BY <1>7, <2>2
    <3> HIDE DEF low
    <3>2. x < low
      BY <1>3, <1>10, <2>1, <3>1
    <3>3. x < r.right
      BY <1>10, <2>1, <3>1, <3>2
    <3>4. x < w.work.right
      BY <1>10, <2>1, <3>1, <3>2
    <3> QED
      BY <3>3, <3>4
  <2>4. HasPixel(w.work, x, y)
    <3>1. w.work.left <= x
      BY <1>7, <1>10, <2>1
    <3>2. w.work.top <= y
      BY <1>7, <1>10, <2>1
    <3>3. y < w.work.bottom
      BY <1>3, <1>7, <1>10, <2>1
    <3> QED
      BY <1>6, <2>3, <3>1, <3>2, <3>3 DEF HasPixel
  <2>5. ASSUME NEW j \in DOMAIN windows, RelevantBlocker(w, windows[j]),
               HasPixel(windows[j].visual, x, y)
        PROVE  FALSE
    <3>1. windows[j].visual \in Rect
      BY <1>1 DEF LayoutWindow
    <3>2. Intersects(title, windows[j].visual) /\ Upper(r.left, windows[j].visual.left) <= x
      BY <1>2, <1>3, <1>4, <1>6, <2>1, <2>3, <2>5, <3>1, CoveredTitle
    <3>3. Upper(r.left, windows[j].visual.left) - r.left >= width
      BY <1>8, <2>5, <3>2
    <3>4. Upper(r.left, windows[j].visual.left) \in Int
      BY <1>2, <3>1, BoundsType DEF Rect
    <3> QED
      BY <1>2, <1>3, <2>1, <3>2, <3>3, <3>4 DEF Rect
  <2> QED
    BY <2>4, <2>5 DEF PixelShown, w
<1> QED
  BY <1>6, <1>9 DEF TitleShown, r, height, width

-----------------------------------------------------------------------------
(* Moved windows                                                           *)

LEMMA TranslatedType ==
  ASSUME NEW r \in Rect, NEW dx \in Int, NEW dy \in Int
  PROVE  /\ Translated(r, dx, dy) \in Rect
         /\ Translated(r, dx, dy) = r => dx = 0 /\ dy = 0
         /\ Translated(r, 0, 0) = r
BY DEF Rect, Translated, R

(* A window moved within two screens that the platform can address is      *)
(* moved by a bounded distance, and is on the screen afterwards.           *)
LEMMA TranslationBounds ==
  ASSUME NEW r \in Rect, NEW work \in Rect, NEW dx \in Int, NEW dy \in Int,
         Native(r), Native(work), ContainsRect(work, Translated(r, dx, dy))
  PROVE  /\ dx \in -(2 * NativeLimit)..(2 * NativeLimit)
         /\ dy \in -(2 * NativeLimit)..(2 * NativeLimit)
         /\ FullyWithin(Translated(r, dx, dy), work)
<1>1. NativeLimit \in Nat
  BY SolverAssumption
<1>2. /\ r.left \in Int /\ r.right \in Int /\ r.top \in Int /\ r.bottom \in Int
      /\ work.left \in Int /\ work.right \in Int /\ work.top \in Int /\ work.bottom \in Int
  BY DEF Rect
<1>3. /\ r.left < r.right /\ r.top < r.bottom
      /\ - NativeLimit - 1 <= r.left /\ r.right <= NativeLimit
      /\ - NativeLimit - 1 <= r.top /\ r.bottom <= NativeLimit
  BY <1>2 DEF Native, Empty, Valid
<1>4. /\ - NativeLimit - 1 <= work.left /\ work.right <= NativeLimit
      /\ - NativeLimit - 1 <= work.top /\ work.bottom <= NativeLimit
      /\ ~ Empty(work)
  BY <1>2 DEF Native
<1>5. /\ work.left <= r.left + dx /\ r.right + dx <= work.right
      /\ work.top <= r.top + dy /\ r.bottom + dy <= work.bottom
  BY DEF ContainsRect, Translated, R
<1>6. dx \in -(2 * NativeLimit)..(2 * NativeLimit)
  <2>1. -(2 * NativeLimit) <= dx
    BY <1>1, <1>2, <1>3, <1>4, <1>5
  <2>2. dx <= 2 * NativeLimit
    BY <1>1, <1>2, <1>3, <1>4, <1>5
  <2> QED
    BY <1>1, <2>1, <2>2
<1>7. dy \in -(2 * NativeLimit)..(2 * NativeLimit)
  <2>1. -(2 * NativeLimit) <= dy
    BY <1>1, <1>2, <1>3, <1>4, <1>5
  <2>2. dy <= 2 * NativeLimit
    BY <1>1, <1>2, <1>3, <1>4, <1>5
  <2> QED
    BY <1>1, <2>1, <2>2
<1>8. ~ Empty(Translated(r, dx, dy))
  BY <1>2, <1>3 DEF Empty, Valid, Translated, R
<1> QED
  BY <1>4, <1>6, <1>7, <1>8 DEF FullyWithin

LEMMA StepType ==
  ASSUME NEW w \in LayoutWindow
  PROVE  Step(w) \in Int
<1>1. w.bar \in Nat
  BY DEF LayoutWindow
<1>2. Upper(1, w.bar) \in Int
  BY <1>1 DEF Upper
<1> QED
  BY <1>2 DEF Step

(* A moved window changes nothing but where it is. *)
LEMMA ElsewhereType ==
  ASSUME NEW w \in LayoutWindow, NEW dx \in Int, NEW dy \in Int
  PROVE  /\ Elsewhere(w, dx, dy) \in LayoutWindow
         /\ Elsewhere(w, dx, dy).place = Translated(w.place, dx, dy)
         /\ Elsewhere(w, dx, dy).visual = Translated(w.visual, dx, dy)
         /\ Elsewhere(w, dx, dy).z = w.z
         /\ Elsewhere(w, dx, dy).work = w.work
         /\ Elsewhere(w, dx, dy).managed = w.managed
         /\ Elsewhere(w, dx, dy).movable = w.movable
<1>1. Translated(w.place, dx, dy) \in Rect /\ Translated(w.visual, dx, dy) \in Rect
  BY TranslatedType DEF LayoutWindow
<1> QED
  BY <1>1 DEF LayoutWindow, Elsewhere

(* Where the staircase wants a window is a translation of it, and none if  *)
(* the window is to stay.                                                  *)
LEMMA DesiredIsElsewhere ==
  ASSUME NEW w \in LayoutWindow, anchor \in Rect
  PROVE  \E dx, dy \in Int :
           /\ Desired(w) = Elsewhere(w, dx, dy)
           /\ Desired(w).place = w.place => Desired(w) = w
<1> DEFINE dx == anchor.left - Step(w) - w.visual.left
           dy == anchor.top - Step(w) - w.visual.top
<1>1. w.visual \in Rect /\ w.place \in Rect
  BY DEF LayoutWindow
<1>2. dx \in Int /\ dy \in Int
  BY <1>1, StepType DEF Rect
<1>3. Desired(w) = Elsewhere(w, dx, dy)
  BY DEF Desired
<1> HIDE DEF dx, dy
<1>4. ASSUME Desired(w).place = w.place
      PROVE  Desired(w) = w
  <2>1. Translated(w.place, dx, dy) = w.place
    BY <1>2, <1>3, <1>4, ElsewhereType
  <2>2. dx = 0 /\ dy = 0
    BY <1>1, <1>2, <2>1, TranslatedType
  <2>3. Translated(w.place, 0, 0) = w.place /\ Translated(w.visual, 0, 0) = w.visual
    BY <1>1, TranslatedType
  <2>4. [w EXCEPT !.place = w.place, !.visual = w.visual] = w
    BY DEF LayoutWindow
  <2> QED
    BY <1>3, <2>2, <2>3, <2>4 DEF Elsewhere
<1> QED
  BY <1>2, <1>3, <1>4

-----------------------------------------------------------------------------
(* Type correctness                                                        *)

LEMMA TypeInit == Init => TypeOK
<1> SUFFICES ASSUME Init
             PROVE  TypeOK
  OBVIOUS
<1>1. PICK s \in Snapshots : given = s.windows /\ active = s.active
  BY DEF Init
<1>2. given \in Seq(LayoutWindow) /\ active \in DOMAIN given
  BY <1>1, SolverAssumption
<1>3. given[active] \in LayoutWindow
  BY <1>2, LenProperties, ElementOfSeq
<1>4. anchor \in Rect
  BY <1>3 DEF Init, LayoutWindow
<1>5. moves \in Seq(Move)
  BY EmptySeq DEF Init
<1> QED
  BY <1>2, <1>4, <1>5 DEF Init, TypeOK, Reasons, Statuses

(* The windows of a layout are numbered from 1. *)
LEMMA WindowsType ==
  ASSUME TypeOK
  PROVE  /\ DOMAIN given = 1..Len(given) /\ DOMAIN arranged = DOMAIN given
         /\ Len(given) \in Nat
         /\ \A i \in DOMAIN given : given[i] \in LayoutWindow /\ arranged[i] \in LayoutWindow
         /\ Targets \subseteq DOMAIN given
<1>1. given \in Seq(LayoutWindow) /\ arranged \in Seq(LayoutWindow) /\ Len(arranged) = Len(given)
  BY DEF TypeOK
<1>2. /\ DOMAIN given = 1..Len(given) /\ DOMAIN arranged = 1..Len(arranged)
      /\ Len(given) \in Nat
  BY <1>1, LenProperties
<1>3. \A i \in 1..Len(given) : given[i] \in LayoutWindow /\ arranged[i] \in LayoutWindow
  BY <1>1, ElementOfSeq
<1> QED
  BY <1>1, <1>2, <1>3 DEF Targets, Judged

(* The layout after one more window is placed. *)
LEMMA PlacedType ==
  ASSUME TypeOK, NEW i \in Left
  PROVE  /\ [arranged EXCEPT ![i] = Desired(@)] \in Seq(LayoutWindow)
         /\ Len([arranged EXCEPT ![i] = Desired(@)]) = Len(arranged)
         /\ DOMAIN [arranged EXCEPT ![i] = Desired(@)] = DOMAIN arranged
         /\ [arranged EXCEPT ![i] = Desired(@)][i] = Desired(arranged[i])
         /\ \A j \in DOMAIN arranged \ {i} :
              [arranged EXCEPT ![i] = Desired(@)][j] = arranged[j]
         /\ Desired(arranged[i]) \in LayoutWindow
         /\ i \in DOMAIN given /\ i \in DOMAIN arranged /\ i \in Nat
<1>1. i \in DOMAIN given /\ i \in DOMAIN arranged /\ i \in Nat /\ i \in 1..Len(arranged)
  BY WindowsType DEF Left, TypeOK
<1>2. arranged[i] \in LayoutWindow /\ anchor \in Rect
  BY <1>1, WindowsType DEF TypeOK
<1>3. Desired(arranged[i]) \in LayoutWindow
  BY <1>2, DesiredIsElsewhere, ElsewhereType
<1>4. arranged \in Seq(LayoutWindow)
  BY DEF TypeOK
<1> DEFINE placed == [arranged EXCEPT ![i] = Desired(arranged[i])]
<1>5. placed \in Seq(LayoutWindow) /\ Len(placed) = Len(arranged)
  BY <1>1, <1>3, <1>4, ExceptSeq
<1> QED
  BY <1>1, <1>3, <1>5

LEMMA AnswerType ==
  ASSUME TypeOK, NEW why \in Reasons, Answer(why)
  PROVE  TypeOK'
BY DEF TypeOK, Answer, question, Statuses, Targets, Judged

LEMMA TypeNext == TypeOK /\ [Next]_vars => TypeOK'
<1> SUFFICES ASSUME TypeOK, [Next]_vars
             PROVE  TypeOK'
  OBVIOUS
<1>1. CASE Refuse
  BY <1>1 DEF TypeOK, Refuse, question, Targets, Judged
<1>2. CASE Begin
  BY <1>2 DEF TypeOK, Begin, question, Targets, Judged
<1>3. CASE OutsideWorkArea
  BY <1>3, AnswerType DEF OutsideWorkArea, Reasons
<1>4. CASE Blocked
  BY <1>4, AnswerType DEF Blocked, Reasons
<1>5. CASE OverLimit
  BY <1>5, AnswerType DEF OverLimit, Reasons
<1>6. CASE Place
  <2>1. PICK i \in Left :
          /\ arranged' = [arranged EXCEPT ![i] = Desired(@)]
          /\ accepted' = accepted \cup {i}
          /\ anchor' = arranged'[i].visual
          /\ moves' = IF Stays(i) THEN moves
                      ELSE Append(moves, [window |-> i, from |-> arranged[i].place,
                                          to |-> arranged'[i].place])
    BY <1>6 DEF Place
  <2>2. arranged' \in Seq(LayoutWindow) /\ Len(arranged') = Len(given)
    BY <2>1, PlacedType DEF TypeOK
  <2>3. arranged[i] \in LayoutWindow /\ arranged'[i] \in LayoutWindow /\ i \in Nat
    BY <2>1, PlacedType, WindowsType
  <2>4. anchor' \in Rect
    BY <2>1, <2>3 DEF LayoutWindow
  <2>5. moves' \in Seq(Move)
    <3>1. [window |-> i, from |-> arranged[i].place, to |-> arranged'[i].place] \in Move
      BY <2>3 DEF LayoutWindow, Move
    <3> QED
      BY <2>1, <3>1 DEF TypeOK
  <2>6. accepted' \subseteq Targets'
    BY <1>6, <2>1 DEF TypeOK, Place, question, Targets, Judged, Left
  <2> QED
    BY <1>6, <2>2, <2>4, <2>5, <2>6 DEF TypeOK, Place, question
<1>7. CASE Complete
  BY <1>7, AnswerType DEF Complete, Reasons
<1>8. CASE Reconcile
  <2>1. active \in DOMAIN given'
    BY <1>8, WindowsType DEF Reconcile, TypeOK
  <2>2. anchor' \in Rect
    BY <1>8, WindowsType DEF Reconcile, TypeOK, LayoutWindow
  <2>3. moves' \in Seq(Move)
    BY <1>8, EmptySeq DEF Reconcile
  <2> QED
    BY <1>8, <2>1, <2>2, <2>3 DEF Reconcile, TypeOK, Reasons, Statuses
<1>9. CASE UNCHANGED vars
  BY <1>9 DEF TypeOK, vars, question, Targets, Judged
<1> QED
  BY <1>1, <1>2, <1>3, <1>4, <1>5, <1>6, <1>7, <1>8, <1>9 DEF Next

(* The type invariant: the windows the staircase has got to are among      *)
(* those it is built of, and no call adds or loses a window.               *)
THEOREM TypeCorrect == Spec => []TypeOK
BY TypeInit, TypeNext, PTL DEF Spec

-----------------------------------------------------------------------------
(* The moves explain the layout                                            *)

(* A move was made for each window placed elsewhere, and for those only;   *)
(* what the staircase has not got to is where it was.                      *)
PlanInv ==
  /\ PlanExplainsLayout
  /\ pc = "arranging" => Solvable(given)
  /\ \A i \in DOMAIN given \ accepted : arranged[i] = given[i]
  /\ \A m \in DOMAIN moves : moves[m].window \in accepted

LEMMA PlanInit == Init => PlanInv
<1> SUFFICES ASSUME Init
             PROVE  PlanInv
  OBVIOUS
<1>1. limit \in Nat
  BY SolverAssumption DEF Init
<1>2. moves = <<>> /\ arranged = given /\ pc = "called"
  BY DEF Init
<1>3. DOMAIN moves = {} /\ Len(moves) = 0
  BY <1>2
<1> QED
  BY <1>1, <1>2, <1>3 DEF PlanInv, PlanExplainsLayout

LEMMA AppendedMove ==
  ASSUME NEW s \in Seq(Move), NEW e \in Move
  PROVE  /\ Len(Append(s, e)) = Len(s) + 1 /\ Len(s) \in Nat
         /\ DOMAIN Append(s, e) = 1..(Len(s) + 1) /\ DOMAIN s = 1..Len(s)
         /\ Append(s, e)[Len(s) + 1] = e
         /\ \A m \in DOMAIN s : Append(s, e)[m] = s[m]
         /\ \A m \in DOMAIN Append(s, e) : m \in DOMAIN s \/ m = Len(s) + 1
<1>1. Len(s) \in Nat /\ DOMAIN s = 1..Len(s)
  BY LenProperties
<1>2. /\ Len(Append(s, e)) = Len(s) + 1 /\ DOMAIN Append(s, e) = 1..(Len(s) + 1)
      /\ Append(s, e)[Len(s) + 1] = e /\ \A m \in 1..Len(s) : Append(s, e)[m] = s[m]
  OBVIOUS
<1>3. ASSUME NEW m \in 1..(Len(s) + 1)
      PROVE  m \in 1..Len(s) \/ m = Len(s) + 1
  BY <1>1
<1> QED
  BY <1>1, <1>2, <1>3

(* A window that stays where it is changes nothing but that it counts as   *)
(* placed.                                                                 *)
LEMMA PlacedInPlace ==
  ASSUME TypeOK, NEW i \in Left, Stays(i)
  PROVE  [arranged EXCEPT ![i] = Desired(@)] = arranged
<1>1. i \in DOMAIN arranged /\ arranged[i] \in LayoutWindow /\ anchor \in Rect
  BY PlacedType, WindowsType DEF TypeOK
<1>2. Desired(arranged[i]) = arranged[i]
  BY <1>1, DesiredIsElsewhere DEF Stays
<1> QED
  BY <1>1, <1>2 DEF TypeOK

(* The move of a window the staircase places elsewhere. *)
LEMMA PlacedElsewhere ==
  ASSUME TypeOK, PlanInv, pc = "arranging",
         NEW i \in Left, Fits(i), Acceptable(i), ~ Stays(i)
  PROVE  /\ given[i].movable /\ arranged[i] = given[i] /\ i \in DOMAIN given
         /\ FullyWithin(Desired(given[i]).place, given[i].work)
         /\ \E dx, dy \in -(2 * NativeLimit)..(2 * NativeLimit) :
              Desired(given[i]) = Elsewhere(given[i], dx, dy)
<1>1. i \in DOMAIN given /\ arranged[i] = given[i] /\ given[i] \in LayoutWindow
  BY PlacedType, WindowsType DEF PlanInv, Left
<1>2. given[i].movable
  BY <1>1 DEF Acceptable
<1>3. PICK dx, dy \in Int : Desired(given[i]) = Elsewhere(given[i], dx, dy)
  BY <1>1, DesiredIsElsewhere DEF TypeOK
<1>4. given[i].place \in Rect /\ given[i].work \in Rect
  BY <1>1 DEF LayoutWindow
<1>5. Native(given[i].place) /\ Native(given[i].work)
  BY <1>1 DEF PlanInv, Solvable
<1>6. Desired(given[i]).place = Translated(given[i].place, dx, dy)
  BY <1>1, <1>3, ElsewhereType
<1>7. ContainsRect(given[i].work, Translated(given[i].place, dx, dy))
  BY <1>1, <1>6 DEF Fits
<1> QED
  BY <1>1, <1>2, <1>3, <1>4, <1>5, <1>6, <1>7, TranslationBounds

LEMMA ExplanationKept ==
  PlanExplainsLayout /\ UNCHANGED <<active, given, limit, arranged, moves>>
    => PlanExplainsLayout'
<1> SUFFICES ASSUME PlanExplainsLayout,
                    UNCHANGED <<active, given, limit, arranged, moves>>
             PROVE  PlanExplainsLayout'
  OBVIOUS
<1>1. /\ active' = active /\ given' = given /\ limit' = limit
      /\ arranged' = arranged /\ moves' = moves
  OBVIOUS
<1>2. Targets' = Targets
  BY <1>1 DEF Targets, Judged
<1> QED
  BY <1>1, <1>2 DEF PlanExplainsLayout

LEMMA PlaceExplained == TypeOK /\ PlanInv /\ Place => PlanInv'
<1> SUFFICES ASSUME TypeOK, PlanInv, Place
             PROVE  PlanInv'
  OBVIOUS
<1>1. PICK i \in Left :
        /\ IsNext(i) /\ Fits(i) /\ Acceptable(i)
        /\ Stays(i) \/ Len(moves) < limit
        /\ arranged' = [arranged EXCEPT ![i] = Desired(@)]
        /\ accepted' = accepted \cup {i}
        /\ anchor' = arranged'[i].visual
        /\ moves' = IF Stays(i) THEN moves
                    ELSE Append(moves, [window |-> i, from |-> arranged[i].place,
                                        to |-> arranged'[i].place])
  BY DEF Place
<1>2. pc = "arranging" /\ UNCHANGED <<active, given, limit, pc>>
  BY DEF Place, question
<1>3. Targets' = Targets /\ Solvable(given)' = Solvable(given)
  BY <1>2 DEF Targets, Judged, Solvable, ScanOk, Analysable, Native
<1>4. \A j \in DOMAIN given \ accepted' : arranged'[j] = given[j]
  BY <1>1, PlacedType, WindowsType DEF PlanInv
<1>5. CASE Stays(i)
  <2>1. arranged' = arranged /\ moves' = moves
    BY <1>1, <1>5, PlacedInPlace
  <2> QED
    <3>1. PlanExplainsLayout'
      BY <1>2, <2>1, ExplanationKept DEF PlanInv
    <3>2. \A m \in DOMAIN moves' : moves'[m].window \in accepted'
      BY <1>1, <2>1 DEF PlanInv
    <3> QED
      BY <1>2, <1>3, <1>4, <3>1, <3>2 DEF PlanInv
<1>6. CASE ~ Stays(i)
  <2> DEFINE e == [window |-> i, from |-> arranged[i].place, to |-> arranged'[i].place]
  <2>1. /\ given[i].movable /\ arranged[i] = given[i] /\ i \in DOMAIN given
        /\ FullyWithin(Desired(given[i]).place, given[i].work)
    BY <1>1, <1>2, <1>6, PlacedElsewhere
  <2>2. PICK dx, dy \in -(2 * NativeLimit)..(2 * NativeLimit) :
          Desired(given[i]) = Elsewhere(given[i], dx, dy)
    BY <1>1, <1>2, <1>6, PlacedElsewhere
  <2>3. /\ arranged'[i] = Desired(given[i])
        /\ \A j \in DOMAIN given \ {i} : arranged'[j] = arranged[j]
        /\ i \in Nat /\ arranged'[i] \in LayoutWindow
    BY <1>1, <2>1, PlacedType, WindowsType
  <2>4. e \in Move /\ moves \in Seq(Move)
    BY <2>1, <2>3, WindowsType DEF TypeOK, Move, LayoutWindow
  <2>5. moves' = Append(moves, e)
    BY <1>1, <1>6
  <2>6. /\ Len(moves') = Len(moves) + 1 /\ Len(moves) \in Nat
        /\ Len(moves) + 1 \in DOMAIN moves' /\ DOMAIN moves \subseteq DOMAIN moves'
        /\ moves'[Len(moves) + 1] = e
        /\ \A m \in DOMAIN moves : moves'[m] = moves[m]
        /\ \A m \in DOMAIN moves' : m \in DOMAIN moves \/ m = Len(moves) + 1
    BY <2>4, <2>5, AppendedMove
  <2> HIDE DEF e
  <2>7. e.window = i /\ e.from = given[i].place /\ e.to = arranged'[i].place
    BY <2>1 DEF e
  <2>8. \A m \in DOMAIN moves : moves[m].window \in accepted /\ moves[m].window # i
    BY <1>1 DEF PlanInv, Left
  <2>9. Len(moves') <= limit'
    BY <1>1, <1>2, <1>6, <2>6, SolverAssumption DEF TypeOK
  <2>10. \A m, n \in DOMAIN moves' : moves'[m].window = moves'[n].window => m = n
    <3> SUFFICES ASSUME NEW m \in DOMAIN moves', NEW n \in DOMAIN moves',
                        moves'[m].window = moves'[n].window
                 PROVE  m = n
      OBVIOUS
    <3>1. CASE m \in DOMAIN moves /\ n \in DOMAIN moves
      <4>1. moves[m].window = moves[n].window
        BY <2>6, <3>1
      <4> QED
        BY <3>1, <4>1 DEF PlanInv, PlanExplainsLayout
    <3>2. CASE m = Len(moves) + 1 /\ n \in DOMAIN moves
      BY <2>6, <2>7, <2>8, <3>2
    <3>3. CASE m \in DOMAIN moves /\ n = Len(moves) + 1
      BY <2>6, <2>7, <2>8, <3>3
    <3> QED
      BY <2>6, <3>1, <3>2, <3>3
  <2>11. \A m \in DOMAIN moves' :
           LET k == moves'[m].window IN
           /\ k \in Targets' /\ given'[k].movable
           /\ moves'[m].from = given'[k].place /\ moves'[m].to = arranged'[k].place
           /\ FullyWithin(moves'[m].to, given'[k].work)
    <3> SUFFICES ASSUME NEW m \in DOMAIN moves'
                 PROVE  /\ moves'[m].window \in Targets /\ given[moves'[m].window].movable
                        /\ moves'[m].from = given[moves'[m].window].place
                        /\ moves'[m].to = arranged'[moves'[m].window].place
                        /\ FullyWithin(moves'[m].to, given[moves'[m].window].work)
      BY <1>2, <1>3
    <3>1. CASE m \in DOMAIN moves
      <4>1. /\ moves'[m] = moves[m] /\ moves[m].window \in Targets
            /\ moves[m].window # i /\ moves[m].window \in DOMAIN given
        BY <2>6, <2>8, <3>1, WindowsType DEF PlanInv, PlanExplainsLayout
      <4>2. arranged'[moves[m].window] = arranged[moves[m].window]
        BY <2>3, <4>1
      <4>3. /\ given[moves[m].window].movable
            /\ moves[m].from = given[moves[m].window].place
            /\ moves[m].to = arranged[moves[m].window].place
            /\ FullyWithin(moves[m].to, given[moves[m].window].work)
        BY <3>1 DEF PlanInv, PlanExplainsLayout
      <4> QED
        BY <4>1, <4>2, <4>3
    <3>2. CASE m = Len(moves) + 1
      <4>1. moves'[m] = e
        BY <2>6, <3>2
      <4> QED
        BY <1>1, <2>1, <2>3, <2>7, <4>1 DEF Left
    <3> QED
      BY <2>6, <3>1, <3>2
  <2>12. \A k \in DOMAIN given :
           \/ arranged'[k] = given[k]
           \/ /\ \E m \in DOMAIN moves' : moves'[m].window = k
              /\ \E x, y \in -(2 * NativeLimit)..(2 * NativeLimit) :
                   arranged'[k] = Elsewhere(given[k], x, y)
    <3> SUFFICES ASSUME NEW k \in DOMAIN given, arranged'[k] # given[k]
                 PROVE  /\ \E m \in DOMAIN moves' : moves'[m].window = k
                        /\ \E x, y \in -(2 * NativeLimit)..(2 * NativeLimit) :
                             arranged'[k] = Elsewhere(given[k], x, y)
      OBVIOUS
    <3>1. CASE k = i
      BY <2>2, <2>3, <2>6, <2>7, <3>1
    <3>2. CASE k # i
      <4>1. arranged'[k] = arranged[k]
        BY <2>3, <3>2
      <4>2. /\ \E m \in DOMAIN moves : moves[m].window = k
            /\ \E x, y \in -(2 * NativeLimit)..(2 * NativeLimit) :
                 arranged[k] = Elsewhere(given[k], x, y)
        BY <4>1 DEF PlanInv, PlanExplainsLayout
      <4> QED
        BY <2>6, <4>1, <4>2
    <3> QED
      BY <3>1, <3>2
  <2>13. PlanExplainsLayout'
    BY <1>2, <2>9, <2>10, <2>11, <2>12 DEF PlanExplainsLayout
  <2>14. \A m \in DOMAIN moves' : moves'[m].window \in accepted'
    BY <1>1, <2>6, <2>7, <2>8
  <2> QED
    BY <1>2, <1>3, <1>4, <2>13, <2>14 DEF PlanInv
<1> QED
  BY <1>5, <1>6

LEMMA AnswerExplained ==
  ASSUME PlanInv, NEW why, Answer(why)
  PROVE  PlanInv'
<1>1. PlanExplainsLayout'
  BY ExplanationKept DEF PlanInv, Answer, question
<1> QED
  BY <1>1 DEF PlanInv, Answer, question

LEMMA PlanNext == TypeOK /\ PlanInv /\ [Next]_vars => PlanInv'
<1> SUFFICES ASSUME TypeOK, PlanInv, [Next]_vars
             PROVE  PlanInv'
  OBVIOUS
<1>1. CASE Refuse
  <2>1. PlanExplainsLayout'
    BY <1>1, ExplanationKept DEF PlanInv, Refuse, question
  <2> QED
    BY <1>1, <2>1 DEF PlanInv, Refuse, question
<1>2. CASE Begin
  <2>1. PlanExplainsLayout'
    BY <1>2, ExplanationKept DEF PlanInv, Begin, question
  <2>2. Solvable(given)'
    BY <1>2 DEF Begin, question, Solvable, Native, ScanOk, Judged, Analysable
  <2> QED
    BY <1>2, <2>1, <2>2 DEF PlanInv, Begin, question
<1>3. CASE OutsideWorkArea
  BY <1>3, AnswerExplained DEF OutsideWorkArea
<1>4. CASE Blocked
  BY <1>4, AnswerExplained DEF Blocked
<1>5. CASE OverLimit
  BY <1>5, AnswerExplained DEF OverLimit
<1>6. CASE Place
  BY <1>6, PlaceExplained
<1>7. CASE Complete
  BY <1>7, AnswerExplained DEF Complete
<1>8. CASE Reconcile
  <2>1. /\ moves' = <<>> /\ DOMAIN moves' = {} /\ Len(moves') = 0
        /\ limit' = limit /\ given' = arranged /\ arranged' = arranged /\ pc' = "called"
    BY <1>8 DEF Reconcile
  <2>2. limit' \in Nat
    BY <2>1, SolverAssumption DEF TypeOK
  <2>3. PlanExplainsLayout'
    BY <2>1, <2>2 DEF PlanExplainsLayout
  <2> QED
    BY <2>1, <2>3 DEF PlanInv
<1>9. CASE UNCHANGED vars
  <2>1. PlanExplainsLayout'
    BY <1>9, ExplanationKept DEF PlanInv, vars, question
  <2>2. pc' = pc /\ given' = given /\ arranged' = arranged /\ accepted' = accepted
        /\ moves' = moves
    BY <1>9 DEF vars, question
  <2>3. Solvable(given)' = Solvable(given)
    BY <2>2 DEF Solvable, Native, ScanOk, Judged, Analysable
  <2> QED
    BY <2>1, <2>2, <2>3 DEF PlanInv
<1> QED
  BY <1>1, <1>2, <1>3, <1>4, <1>5, <1>6, <1>7, <1>8, <1>9 DEF Next

(* Every plan is the difference of the layout found and the layout given:  *)
(* one move for each window that is elsewhere, of a movable window other   *)
(* than the active one, onto its work area and without a change of size,   *)
(* and no more of them than allowed, wherever the staircase ends.          *)
THEOREM MovesExplainLayout == Spec => []PlanExplainsLayout
<1>1. Init => TypeOK /\ PlanInv
  BY TypeInit, PlanInit
<1>2. TypeOK /\ PlanInv /\ [Next]_vars => (TypeOK /\ PlanInv)'
  BY TypeNext, PlanNext
<1>3. PlanInv => PlanExplainsLayout
  BY DEF PlanInv
<1> QED
  BY <1>1, <1>2, <1>3, PTL DEF Spec

-----------------------------------------------------------------------------
(* What the staircase has got to stays readable                            *)

(* The staircase goes down the z-order, and when it has got to a window,   *)
(* the title bars of that one and of all managed ones above are readable.  *)
ShownInv ==
  /\ \A i \in accepted, k \in Left : given[i].z <= given[k].z
  /\ \A i \in accepted : \A j \in DOMAIN arranged :
       arranged[j].managed /\ arranged[j].z <= arranged[i].z => Satisfied(arranged, j)

(* The depth of a window does not change. *)
DepthKept == \A i \in DOMAIN given : arranged[i].z = given[i].z /\ given[i].z \in Int

LEMMA FrameKept == TypeOK /\ PlanInv => DepthKept
<1> SUFFICES ASSUME TypeOK, PlanInv, NEW i \in DOMAIN given
             PROVE  arranged[i].z = given[i].z /\ given[i].z \in Int
  BY DEF DepthKept
<1>1. given[i] \in LayoutWindow
  BY WindowsType
<1>2. CASE arranged[i] = given[i]
  BY <1>1, <1>2 DEF LayoutWindow
<1>3. CASE arranged[i] # given[i]
  <2>1. PICK dx, dy \in -(2 * NativeLimit)..(2 * NativeLimit) :
          arranged[i] = Elsewhere(given[i], dx, dy)
    BY <1>3 DEF PlanInv, PlanExplainsLayout
  <2>2. dx \in Int /\ dy \in Int
    BY SolverAssumption
  <2> QED
    BY <1>1, <2>1, <2>2, ElsewhereType DEF LayoutWindow
<1> QED
  BY <1>2, <1>3

LEMMA FrameKeptNext == TypeOK' /\ PlanInv' => DepthKept'
BY FrameKept, PTL

LEMMA PlaceShown == TypeOK /\ PlanInv /\ PlanInv' /\ TypeOK' /\ ShownInv /\ Place => ShownInv'
<1> SUFFICES ASSUME TypeOK, PlanInv, PlanInv', TypeOK', ShownInv, Place
             PROVE  ShownInv'
  OBVIOUS
<1>1. PICK i \in Left :
        /\ IsNext(i) /\ Acceptable(i)
        /\ arranged' = [arranged EXCEPT ![i] = Desired(@)]
        /\ accepted' = accepted \cup {i}
  BY DEF Place
<1>2. given' = given /\ active' = active
  BY DEF Place, question
<1>3. Left' = Left \ {i}
  BY <1>1, <1>2 DEF Left, Targets, Judged
<1>4. i \in DOMAIN given /\ Left \subseteq DOMAIN given /\ accepted \subseteq DOMAIN given
  BY WindowsType DEF Left, TypeOK
<1>5. \A k \in DOMAIN given : given[k].z \in Int /\ arranged'[k].z = given[k].z
  BY <1>2, FrameKeptNext DEF DepthKept
<1>6. \A k \in Left \ {i} : given[i].z <= given[k].z
  BY <1>1, <1>4, <1>5 DEF IsNext, Nearer
<1>7. \A a \in accepted', k \in Left' : given'[a].z <= given'[k].z
  BY <1>1, <1>2, <1>3, <1>6 DEF ShownInv
<1>8. \A a \in accepted' : given[a].z <= given[i].z
  BY <1>1, <1>4, <1>5 DEF ShownInv
<1>9. ASSUME NEW a \in accepted', NEW j \in DOMAIN arranged',
             arranged'[j].managed, arranged'[j].z <= arranged'[a].z
      PROVE  Satisfied(arranged', j)
  <2>1. j \in DOMAIN given /\ a \in DOMAIN given
    BY <1>1, <1>4, PlacedType, WindowsType
  <2>2. arranged'[j].z <= arranged'[i].z
    BY <1>4, <1>5, <1>8, <1>9, <2>1
  <2>3. Safe(arranged', i)
    BY <1>1 DEF Acceptable
  <2> QED
    BY <1>9, <2>2, <2>3 DEF Safe
<1> QED
  BY <1>7, <1>9 DEF ShownInv

LEMMA AnswerShown ==
  ASSUME ShownInv, NEW why, Answer(why)
  PROVE  ShownInv'
BY DEF ShownInv, Answer, question, Left, Targets, Judged

LEMMA ShownNext == TypeOK /\ TypeOK' /\ PlanInv /\ PlanInv' /\ ShownInv /\ [Next]_vars => ShownInv'
<1> SUFFICES ASSUME TypeOK, TypeOK', PlanInv, PlanInv', ShownInv, [Next]_vars
             PROVE  ShownInv'
  OBVIOUS
<1>1. CASE Refuse
  BY <1>1 DEF ShownInv, Refuse, question, Left, Targets, Judged
<1>2. CASE Begin
  BY <1>2 DEF ShownInv, Begin, question, Left, Targets, Judged
<1>3. CASE OutsideWorkArea
  BY <1>3, AnswerShown DEF OutsideWorkArea
<1>4. CASE Blocked
  BY <1>4, AnswerShown DEF Blocked
<1>5. CASE OverLimit
  BY <1>5, AnswerShown DEF OverLimit
<1>6. CASE Place
  BY <1>6, PlaceShown
<1>7. CASE Complete
  BY <1>7, AnswerShown DEF Complete
<1>8. CASE Reconcile
  BY <1>8 DEF ShownInv, Reconcile
<1>9. CASE UNCHANGED vars
  BY <1>9 DEF ShownInv, vars, question, Left, Targets, Judged
<1> QED
  BY <1>1, <1>2, <1>3, <1>4, <1>5, <1>6, <1>7, <1>8, <1>9 DEF Next

LEMMA ShownIsVisible == TypeOK /\ ShownInv => AcceptedAreShown
<1> SUFFICES ASSUME TypeOK, ShownInv, NEW i \in accepted, NEW j \in DOMAIN arranged,
                    arranged[j].managed, arranged[j].z <= arranged[i].z
             PROVE  TitleShown(arranged, j)
  BY DEF AcceptedAreShown
<1>1. Satisfied(arranged, j)
  BY DEF ShownInv
<1> QED
  BY <1>1, ReadableIsShown DEF TypeOK

(* Every title bar the staircase has got to, that of the active window and *)
(* those of the other managed windows above them can be seen pixel by      *)
(* pixel, at every moment and in particular when the layout stops halfway. *)
THEOREM AcceptedTitlesAreSeen == Spec => []AcceptedAreShown
<1>1. Init => TypeOK /\ PlanInv /\ ShownInv
  BY TypeInit, PlanInit DEF Init, ShownInv
<1>2. TypeOK /\ PlanInv /\ ShownInv /\ [Next]_vars => (TypeOK /\ PlanInv /\ ShownInv)'
  BY TypeNext, PlanNext, ShownNext
<1>3. TypeOK /\ ShownInv => AcceptedAreShown
  BY ShownIsVisible
<1> QED
  BY <1>1, <1>2, <1>3, PTL DEF Spec
-----------------------------------------------------------------------------
(* The staircase as a property of a layout                                 *)

TargetsOf(G, a) == Judged(G) \ {a}
Ahead(G, i, j) == G[i].z < G[j].z \/ (G[i].z = G[j].z /\ i < j)
AheadOf(G, a, i) == {j \in TargetsOf(G, a) : Ahead(G, j, i)}

(* S is a beginning of the targets, p the last window of it.               *)
Beginning(G, a, S) ==
  /\ S \subseteq TargetsOf(G, a)
  /\ \A i \in S, j \in TargetsOf(G, a) \ S : Ahead(G, i, j)
LastIn(G, a, p, S) ==
  \/ S = {} /\ p = a
  \/ p \in S /\ \A q \in S \ {p} : Ahead(G, q, p)
NextIn(G, a, i, S) ==
  i \in TargetsOf(G, a) \ S /\ \A j \in (TargetsOf(G, a) \ S) \ {i} : Ahead(G, i, j)

(* Where a window goes after one that is painted at r.                     *)
From(w, r) == Elsewhere(w, r.left - Step(w) - w.visual.left, r.top - Step(w) - w.visual.top)

Put(G, k, r) == [G EXCEPT ![k] = From(@, r)]

InPlace(G, k, r) == ContainsRect(G[k].work, From(G[k], r).place)
Keeps(G, k, r) == From(G[k], r).place = G[k].place
Allowed(G, k, r) ==
  /\ G[k].movable \/ Keeps(G, k, r)
  /\ Safe([G EXCEPT ![k] = From(@, r)], k)

(* The windows of S stand in a staircase.                                  *)
Chained(G, a, S) ==
  /\ Beginning(G, a, S)
  /\ \A i \in S :
       /\ ContainsRect(G[i].work, G[i].place)
       /\ \A p \in DOMAIN G : LastIn(G, a, p, AheadOf(G, a, i)) => From(G[i], G[p].visual) = G[i]
AllSafe(G, S) == \A i \in S : Safe(G, i)

(* Why it ends there.                                                      *)
Stopped(G, a, S, why) ==
  \/ why = "none" /\ S = TargetsOf(G, a)
  \/ /\ why # "none"
     /\ \E k \in DOMAIN G, p \in DOMAIN G :
          /\ NextIn(G, a, k, S) /\ LastIn(G, a, p, S)
          /\ \/ why # "move_limit" /\ ~ (InPlace(G, k, G[p].visual) /\ Allowed(G, k, G[p].visual))
             \/ /\ why = "move_limit" /\ InPlace(G, k, G[p].visual) /\ Allowed(G, k, G[p].visual)
                /\ ~ Keeps(G, k, G[p].visual)

(* Real frames: what is painted of a window that may be moved lies within  *)
(* its rectangle.                                                          *)
Framed(G, a) == \A i \in DOMAIN G \ {a} : ContainsRect(G[i].place, G[i].visual)
FramedSnapshots == \A s \in Snapshots : Framed(s.windows, s.active)

-----------------------------------------------------------------------------
(* The present call, the call before it, and the two together.             *)
ProgressInv ==
  /\ Chained(arranged, active, accepted)
  /\ \E p \in DOMAIN arranged :
       LastIn(arranged, active, p, accepted) /\ anchor = arranged[p].visual
  /\ pc = "answered" /\ status # "InvalidSnapshot" =>
       Solvable(given) /\ Stopped(arranged, active, accepted, reason)
  /\ pc # "answered" => status = "InvalidSnapshot"
  /\ Framed(given, active)

BeforeInv ==
  calls > 1 =>
    /\ Chained(given, active, before.accepted) /\ AllSafe(given, before.accepted)
    /\ Stopped(given, active, before.accepted, before.reason)
    /\ Solvable(given)

RepeatInv ==
  /\ calls > 1 /\ pc # "answered" =>
       /\ accepted \subseteq before.accepted => arranged = given /\ moves = <<>>
       /\ before.reason # "move_limit" => accepted \subseteq before.accepted
  /\ ReconcileSettles

-----------------------------------------------------------------------------
(* The order of the windows                                                *)

LEMMA Asymmetric ==
  ASSUME NEW G \in Seq(LayoutWindow), NEW i \in DOMAIN G, NEW j \in DOMAIN G
  PROVE  ~ (Ahead(G, i, j) /\ Ahead(G, j, i))
<1>1. i \in Nat /\ j \in Nat /\ G[i] \in LayoutWindow /\ G[j] \in LayoutWindow
  BY LenProperties, ElementOfSeq
<1>2. G[i].z \in Int /\ G[j].z \in Int
  BY <1>1 DEF LayoutWindow
<1> QED
  BY <1>1, <1>2 DEF Ahead

LEMMA TargetsAreWindows ==
  ASSUME NEW G, NEW a
  PROVE  TargetsOf(G, a) \subseteq DOMAIN G /\ a \notin TargetsOf(G, a)
BY DEF TargetsOf, Judged

(* Two beginnings are comparable, and what is next after one is its last   *)
(* window's successor.                                                     *)
LEMMA Comparable ==
  ASSUME NEW G \in Seq(LayoutWindow), NEW a, NEW S, NEW T,
         Beginning(G, a, S), Beginning(G, a, T)
  PROVE  S \subseteq T \/ T \subseteq S
<1> SUFFICES ASSUME NEW s \in S \ T, NEW t \in T \ S
             PROVE  FALSE
  OBVIOUS
<1>1. Ahead(G, s, t) /\ Ahead(G, t, s) /\ s \in DOMAIN G /\ t \in DOMAIN G
  BY TargetsAreWindows DEF Beginning
<1> QED
  BY <1>1, Asymmetric

LEMMA AheadOfNext ==
  ASSUME NEW G \in Seq(LayoutWindow), NEW a, NEW S, NEW i,
         Beginning(G, a, S), NextIn(G, a, i, S)
  PROVE  AheadOf(G, a, i) = S
<1>1. i \in TargetsOf(G, a) \ S /\ TargetsOf(G, a) \subseteq DOMAIN G
  BY TargetsAreWindows DEF NextIn
<1>2. ASSUME NEW j \in S
      PROVE  j \in AheadOf(G, a, i)
  BY <1>1 DEF AheadOf, Beginning
<1>3. ASSUME NEW j \in AheadOf(G, a, i), j \notin S
      PROVE  FALSE
  <2>1. j \in TargetsOf(G, a) \ S /\ Ahead(G, j, i)
    BY <1>3 DEF AheadOf
  <2>2. CASE j = i
    BY <1>1, <2>1, <2>2, Asymmetric
  <2>3. CASE j # i
    <3>1. Ahead(G, i, j)
      BY <2>1, <2>3 DEF NextIn
    <3> QED
      BY <1>1, <2>1, <3>1, Asymmetric
  <2> QED
    BY <2>2, <2>3
<1> QED
  BY <1>2, <1>3

LEMMA AheadOfEarlier ==
  ASSUME NEW G \in Seq(LayoutWindow), NEW a, NEW S, NEW i \in S, Beginning(G, a, S)
  PROVE  AheadOf(G, a, i) \subseteq S
<1> SUFFICES ASSUME NEW j \in AheadOf(G, a, i), j \notin S
             PROVE  FALSE
  OBVIOUS
<1>1. j \in TargetsOf(G, a) \ S /\ Ahead(G, j, i) /\ i \in DOMAIN G /\ j \in DOMAIN G
  BY TargetsAreWindows DEF AheadOf, Beginning
<1>2. Ahead(G, i, j)
  BY <1>1 DEF Beginning
<1> QED
  BY <1>1, <1>2, Asymmetric

LEMMA OneLast ==
  ASSUME NEW G \in Seq(LayoutWindow), NEW a, NEW S, S \subseteq DOMAIN G,
         NEW p, NEW q, LastIn(G, a, p, S), LastIn(G, a, q, S)
  PROVE  p = q
<1>1. CASE S = {}
  BY <1>1 DEF LastIn
<1>2. CASE S # {}
  <2> SUFFICES ASSUME p # q
               PROVE  FALSE
    OBVIOUS
  <2>1. p \in S /\ q \in S /\ Ahead(G, p, q) /\ Ahead(G, q, p)
    BY <1>2 DEF LastIn
  <2> QED
    BY <2>1, Asymmetric
<1> QED
  BY <1>1, <1>2

LEMMA OneNext ==
  ASSUME NEW G \in Seq(LayoutWindow), NEW a, NEW S, NEW i, NEW k,
         NextIn(G, a, i, S), NextIn(G, a, k, S)
  PROVE  i = k
<1> SUFFICES ASSUME i # k
             PROVE  FALSE
  OBVIOUS
<1>1. Ahead(G, i, k) /\ Ahead(G, k, i) /\ i \in DOMAIN G /\ k \in DOMAIN G
  BY TargetsAreWindows DEF NextIn
<1> QED
  BY <1>1, Asymmetric

(* The next window after a beginning that another one goes beyond belongs  *)
(* to that other one.                                                      *)
LEMMA NextIsWithin ==
  ASSUME NEW G \in Seq(LayoutWindow), NEW a, NEW S, NEW T, NEW i,
         S \subseteq T, S # T, Beginning(G, a, T), NextIn(G, a, i, S)
  PROVE  i \in T
<1> SUFFICES ASSUME i \notin T
             PROVE  FALSE
  OBVIOUS
<1>1. PICK t \in T : t \notin S
  OBVIOUS
<1>2. t # i /\ t \in TargetsOf(G, a) \ S /\ i \in TargetsOf(G, a) \ T
  BY <1>1 DEF Beginning, NextIn
<1>3. Ahead(G, i, t) /\ Ahead(G, t, i) /\ i \in DOMAIN G /\ t \in DOMAIN G
  BY <1>2, TargetsAreWindows DEF Beginning, NextIn
<1> QED
  BY <1>3, Asymmetric

-----------------------------------------------------------------------------
(* Moved windows and the layouts they make                                 *)

(* H is G with windows moved.                                              *)
Moves(w, v) == \E dx, dy \in Int : v = Elsewhere(w, dx, dy)
Rearranged(G, H) == DOMAIN H = DOMAIN G /\ \A i \in DOMAIN G : Moves(G[i], H[i])

LEMMA MovedFrame ==
  ASSUME NEW w \in LayoutWindow, NEW v, Moves(w, v)
  PROVE  /\ v \in LayoutWindow /\ v.z = w.z /\ v.work = w.work /\ v.bar = w.bar
         /\ v.managed = w.managed /\ v.movable = w.movable /\ v.visible = w.visible
         /\ v.current = w.current /\ Step(v) = Step(w)
         /\ \E dx, dy \in Int : /\ v.place = Translated(w.place, dx, dy)
                                /\ v.visual = Translated(w.visual, dx, dy)
<1>1. PICK dx, dy \in Int : v = Elsewhere(w, dx, dy)
  BY DEF Moves
<1>2. v \in LayoutWindow /\ v.place = Translated(w.place, dx, dy)
      /\ v.visual = Translated(w.visual, dx, dy)
  BY <1>1, ElsewhereType
<1>3. /\ v.z = w.z /\ v.work = w.work /\ v.bar = w.bar
      /\ v.managed = w.managed /\ v.movable = w.movable /\ v.visible = w.visible
      /\ v.current = w.current
  BY <1>1 DEF LayoutWindow, Elsewhere
<1>4. Step(v) = Step(w)
  BY <1>3 DEF Step
<1> QED
  BY <1>2, <1>3, <1>4

LEMMA NotMoved ==
  ASSUME NEW w \in LayoutWindow
  PROVE  Moves(w, w)
<1>1. w.place \in Rect /\ w.visual \in Rect
  BY DEF LayoutWindow
<1>2. Translated(w.place, 0, 0) = w.place /\ Translated(w.visual, 0, 0) = w.visual
  BY <1>1, TranslatedType
<1>3. [w EXCEPT !.place = w.place, !.visual = w.visual] = w
  BY DEF LayoutWindow
<1>4. Elsewhere(w, 0, 0) = w
  BY <1>2, <1>3 DEF Elsewhere
<1> QED
  BY <1>4 DEF Moves

(* The order of the windows does not depend on where they are. *)
LEMMA SameOrder ==
  ASSUME NEW G \in Seq(LayoutWindow), NEW H, Rearranged(G, H), NEW a
  PROVE  /\ TargetsOf(H, a) = TargetsOf(G, a)
         /\ \A i, j \in DOMAIN G : Ahead(H, i, j) <=> Ahead(G, i, j)
         /\ \A i \in TargetsOf(G, a) : AheadOf(H, a, i) = AheadOf(G, a, i)
<1>1. \A i \in DOMAIN G : G[i] \in LayoutWindow
  BY LenProperties, ElementOfSeq
<1>2. \A i \in DOMAIN G : /\ H[i].z = G[i].z /\ H[i].managed = G[i].managed
                          /\ H[i].visible = G[i].visible /\ H[i].current = G[i].current
  BY <1>1, MovedFrame DEF Rearranged
<1>3. DOMAIN H = DOMAIN G
  BY DEF Rearranged
<1>4. /\ TargetsOf(H, a) = TargetsOf(G, a) /\ TargetsOf(G, a) \subseteq DOMAIN G
      /\ \A i, j \in DOMAIN G : Ahead(H, i, j) <=> Ahead(G, i, j)
  BY <1>2, <1>3 DEF TargetsOf, Judged, Ahead
<1>5. \A i \in TargetsOf(G, a) : AheadOf(H, a, i) = AheadOf(G, a, i)
  BY <1>4 DEF AheadOf
<1> QED
  BY <1>4, <1>5

LEMMA SameBeginning ==
  ASSUME NEW G \in Seq(LayoutWindow), NEW H, Rearranged(G, H), NEW a, NEW S
  PROVE  /\ Beginning(H, a, S) <=> Beginning(G, a, S)
         /\ S \subseteq DOMAIN G => \A p : LastIn(H, a, p, S) <=> LastIn(G, a, p, S)
         /\ \A i : NextIn(H, a, i, S) <=> NextIn(G, a, i, S)
<1>1. TargetsOf(H, a) = TargetsOf(G, a) /\ TargetsOf(G, a) \subseteq DOMAIN G
  BY SameOrder, TargetsAreWindows
<1>2. \A i, j \in DOMAIN G : Ahead(H, i, j) <=> Ahead(G, i, j)
  BY SameOrder
<1>3. Beginning(H, a, S) <=> Beginning(G, a, S)
  BY <1>1, <1>2 DEF Beginning
<1>5. S \subseteq DOMAIN G => \A p : LastIn(H, a, p, S) <=> LastIn(G, a, p, S)
  BY <1>2 DEF LastIn
<1>6. \A i : NextIn(H, a, i, S) <=> NextIn(G, a, i, S)
  BY <1>1, <1>2 DEF NextIn
<1> QED
  BY <1>3, <1>5, <1>6

(* A window put after another one is where it is wanted. *)
LEMMA FromIsStable ==
  ASSUME NEW w \in LayoutWindow, NEW r \in Rect
  PROVE  /\ Moves(w, From(w, r)) /\ From(w, r) \in LayoutWindow
         /\ From(From(w, r), r) = From(w, r)
         /\ From(w, r).place = w.place => From(w, r) = w
<1> DEFINE dx == r.left - Step(w) - w.visual.left
           dy == r.top - Step(w) - w.visual.top
           v == From(w, r)
<1>1. w.visual \in Rect /\ w.place \in Rect /\ Step(w) \in Int
  BY StepType DEF LayoutWindow
<1>2. dx \in Int /\ dy \in Int
  BY <1>1 DEF Rect
<1>3. v = Elsewhere(w, dx, dy)
  BY DEF From
<1> HIDE DEF dx, dy, v
<1>4. Moves(w, v)
  BY <1>2, <1>3 DEF Moves
<1>5. v \in LayoutWindow /\ Step(v) = Step(w)
  BY <1>4, MovedFrame
<1>6. v.visual = Translated(w.visual, dx, dy) /\ v.place = Translated(w.place, dx, dy)
  BY <1>2, <1>3, ElsewhereType
<1>7. r.left - Step(v) - v.visual.left = 0 /\ r.top - Step(v) - v.visual.top = 0
  BY <1>1, <1>5, <1>6 DEF Rect, Translated, R, dx, dy
<1>8. Elsewhere(v, 0, 0) = v
  <2>1. Translated(v.place, 0, 0) = v.place /\ Translated(v.visual, 0, 0) = v.visual
    BY <1>5, TranslatedType DEF LayoutWindow
  <2>2. [v EXCEPT !.place = v.place, !.visual = v.visual] = v
    BY <1>5 DEF LayoutWindow
  <2> QED
    BY <2>1, <2>2 DEF Elsewhere
<1>9. From(v, r) = v
  BY <1>7, <1>8 DEF From
<1>10. ASSUME v.place = w.place
       PROVE  v = w
  <2>1. dx = 0 /\ dy = 0
    BY <1>1, <1>2, <1>6, <1>10, TranslatedType
  <2>2. Translated(w.place, 0, 0) = w.place /\ Translated(w.visual, 0, 0) = w.visual
    BY <1>1, TranslatedType
  <2>3. [w EXCEPT !.place = w.place, !.visual = w.visual] = w
    BY DEF LayoutWindow
  <2> QED
    BY <1>3, <2>1, <2>2, <2>3 DEF Elsewhere
<1> QED
  BY <1>4, <1>5, <1>9, <1>10 DEF v

(* What the solver looks at, said of the layout. *)
LEMMA ProgramTerms ==
  ASSUME TypeOK, PlanInv
  PROVE  /\ arranged \in Seq(LayoutWindow) /\ given \in Seq(LayoutWindow)
         /\ DOMAIN arranged = DOMAIN given
         /\ Rearranged(given, arranged) /\ Rearranged(arranged, arranged)
         /\ Targets = TargetsOf(arranged, active) /\ Targets = TargetsOf(given, active)
         /\ arranged[active] = given[active]
         /\ \A i : i \in Left /\ IsNext(i) <=> NextIn(arranged, active, i, accepted)
<1>1. /\ arranged \in Seq(LayoutWindow) /\ given \in Seq(LayoutWindow)
      /\ DOMAIN arranged = DOMAIN given /\ active \in DOMAIN given
      /\ \A i \in DOMAIN given : given[i] \in LayoutWindow /\ arranged[i] \in LayoutWindow
  BY WindowsType DEF TypeOK
<1>2. ASSUME NEW i \in DOMAIN given
      PROVE  Moves(given[i], arranged[i])
  <2>1. CASE arranged[i] = given[i]
    BY <1>1, <2>1, NotMoved
  <2>2. CASE arranged[i] # given[i]
    <3>1. PICK dx, dy \in -(2 * NativeLimit)..(2 * NativeLimit) :
            arranged[i] = Elsewhere(given[i], dx, dy)
      BY <2>2 DEF PlanInv, PlanExplainsLayout
    <3>2. dx \in Int /\ dy \in Int
      BY SolverAssumption
    <3> QED
      BY <3>1, <3>2 DEF Moves
  <2> QED
    BY <2>1, <2>2
<1>3. Rearranged(given, arranged)
  BY <1>1, <1>2 DEF Rearranged
<1>4. Rearranged(arranged, arranged)
  BY <1>1, NotMoved DEF Rearranged
<1>5. Targets = TargetsOf(given, active)
  BY DEF Targets, TargetsOf
<1>6. Targets = TargetsOf(arranged, active)
  BY <1>1, <1>3, <1>5, SameOrder
<1>7. arranged[active] = given[active]
  BY <1>1 DEF PlanInv, TypeOK, Targets
<1>8. ASSUME NEW i
      PROVE  i \in Left /\ IsNext(i) <=> NextIn(given, active, i, accepted)
  BY <1>5 DEF Left, IsNext, NextIn, Nearer, Ahead
<1>9. \A i : i \in Left /\ IsNext(i) <=> NextIn(arranged, active, i, accepted)
  BY <1>1, <1>3, <1>8, SameBeginning
<1> QED
  BY <1>1, <1>3, <1>4, <1>5, <1>6, <1>7, <1>9

-----------------------------------------------------------------------------
(* A staircase grows                                                       *)

LEMMA DesiredIsFrom ==
  ASSUME NEW G, NEW k
  PROVE  /\ Desired(G[k]) = From(G[k], anchor)
         /\ [G EXCEPT ![k] = Desired(@)] = [G EXCEPT ![k] = From(@, anchor)]
BY DEF Desired, From

(* One more window in its place after the last one. *)
LEMMA ChainGrows ==
  ASSUME NEW G \in Seq(LayoutWindow), NEW a \in DOMAIN G, NEW S, NEW i, NEW p \in DOMAIN G,
         Chained(G, a, S), NextIn(G, a, i, S), LastIn(G, a, p, S),
         NEW r, r = G[p].visual, InPlace(G, i, r), NEW H, H = Put(G, i, r)
  PROVE  /\ Chained(H, a, S \cup {i})
         /\ LastIn(H, a, i, S \cup {i})
         /\ Rearranged(G, H) /\ H \in Seq(LayoutWindow)
<1> DEFINE T == S \cup {i}
<1>1. \A j \in DOMAIN G : G[j] \in LayoutWindow
  BY LenProperties, ElementOfSeq
<1>2. i \in DOMAIN G /\ i \notin S /\ i # a /\ S \subseteq DOMAIN G /\ Beginning(G, a, S)
  BY TargetsAreWindows DEF NextIn, Chained, Beginning
<1>3. r \in Rect
  BY <1>1 DEF LayoutWindow
<1>4. /\ H[i] = From(G[i], r) /\ DOMAIN H = DOMAIN G
      /\ \A j \in DOMAIN G \ {i} : H[j] = G[j]
  BY <1>2 DEF Put
<1>5. Moves(G[i], H[i]) /\ H[i] \in LayoutWindow /\ From(H[i], r) = H[i]
  BY <1>1, <1>2, <1>3, <1>4, FromIsStable
<1>6. Rearranged(G, H)
  BY <1>1, <1>4, <1>5, NotMoved DEF Rearranged
<1>7. H \in Seq(LayoutWindow)
  <2>1. i \in 1..Len(G)
    BY <1>2, LenProperties
  <2> QED
    BY <1>4, <1>5, <2>1, ExceptSeq DEF Put
<1>8. p # i
  BY <1>2 DEF LastIn
<1>9. Beginning(G, a, T)
  BY DEF Chained, Beginning, NextIn
<1>10. LastIn(G, a, i, T)
  BY <1>2 DEF Chained, Beginning, NextIn, LastIn
<1>11. Beginning(H, a, T) /\ LastIn(H, a, i, T)
  <2>1. T \subseteq DOMAIN G
    BY <1>2
  <2> QED
    BY <1>6, <1>9, <1>10, <2>1, SameBeginning
<1>12. ASSUME NEW j \in T
       PROVE  /\ ContainsRect(H[j].work, H[j].place)
              /\ \A q \in DOMAIN H : LastIn(H, a, q, AheadOf(H, a, j)) => From(H[j], H[q].visual) = H[j]
  <2> SUFFICES ASSUME NEW q \in DOMAIN H, LastIn(H, a, q, AheadOf(H, a, j))
               PROVE  From(H[j], H[q].visual) = H[j]
    <3>1. CASE j = i
      <4>1. H[i].work = G[i].work
        BY <1>1, <1>2, <1>5, MovedFrame
      <4> QED
        BY <1>4, <3>1, <4>1 DEF InPlace
    <3>2. CASE j # i
      <4>1. j \in S /\ H[j] = G[j]
        BY <1>2, <1>4, <3>2
      <4>2. ContainsRect(H[j].work, H[j].place)
        BY <4>1 DEF Chained
      <4> QED
        BY <4>2
    <3> QED
      BY <3>1, <3>2
  <2>1. j \in TargetsOf(G, a) /\ AheadOf(G, a, j) \subseteq DOMAIN G
    BY TargetsAreWindows DEF Chained, Beginning, NextIn, AheadOf
  <2>2. LastIn(G, a, q, AheadOf(G, a, j))
    <3> DEFINE above == AheadOf(G, a, j)
    <3> HIDE DEF above
    <3>0. AheadOf(H, a, j) = AheadOf(G, a, j)
      BY <1>6, <2>1, SameOrder
    <3>1. AheadOf(H, a, j) = above
      BY <3>0 DEF above
    <3>2. LastIn(H, a, q, above) /\ above \subseteq DOMAIN G
      BY <2>1, <3>1 DEF above
    <3>3. LastIn(G, a, q, above)
      BY <1>6, <3>2, SameBeginning
    <3> QED
      BY <3>3 DEF above
  <2>3. CASE j = i
    <3>1. LastIn(G, a, q, S)
      BY <1>2, <2>2, <2>3, AheadOfNext
    <3>2. q = p
      BY <1>2, <3>1, OneLast
    <3> QED
      BY <1>4, <1>5, <1>8, <2>3, <3>2
  <2>4. CASE j # i
    <3>1. j \in S
      BY <2>4
    <3>2. AheadOf(G, a, j) \subseteq S
      BY <1>2, <3>1, AheadOfEarlier
    <3>3. q # i
      BY <1>2, <2>2, <3>2 DEF LastIn
    <3>4. From(G[j], G[q].visual) = G[j]
      BY <1>4, <2>2, <3>1 DEF Chained
    <3> QED
      BY <1>2, <1>4, <3>1, <3>3, <3>4
  <2> QED
    BY <2>3, <2>4
<1> QED
  BY <1>6, <1>7, <1>11, <1>12 DEF Chained

(* Where the program looks for the next window is where the chain says.    *)
LEMMA Choice ==
  ASSUME TypeOK, PlanInv, NEW i, NEW p \in DOMAIN arranged, anchor = arranged[p].visual
  PROVE  /\ Fits(i) <=> InPlace(arranged, i, arranged[p].visual)
         /\ Stays(i) <=> Keeps(arranged, i, arranged[p].visual)
         /\ Acceptable(i) <=> Allowed(arranged, i, arranged[p].visual)
<1>1. Desired(arranged[i]) = From(arranged[i], arranged[p].visual)
  BY DEF Desired, From
<1>2. [arranged EXCEPT ![i] = Desired(@)] = [arranged EXCEPT ![i] = From(@, arranged[p].visual)]
  BY DEF Desired, From
<1>3. Fits(i) <=> InPlace(arranged, i, arranged[p].visual)
  BY <1>1 DEF Fits, InPlace
<1>4. Stays(i) <=> Keeps(arranged, i, arranged[p].visual)
  BY <1>1 DEF Stays, Keeps
<1> QED
  BY <1>2, <1>3, <1>4 DEF Acceptable, Allowed

-----------------------------------------------------------------------------
(* The present call                                                        *)

LEMMA ContainsTranslated ==
  ASSUME NEW r \in Rect, NEW s \in Rect, ContainsRect(r, s), NEW dx \in Int, NEW dy \in Int
  PROVE  ContainsRect(Translated(r, dx, dy), Translated(s, dx, dy))
<1>1. /\ r.left \in Int /\ r.right \in Int /\ r.top \in Int /\ r.bottom \in Int
      /\ s.left \in Int /\ s.right \in Int /\ s.top \in Int /\ s.bottom \in Int
  BY DEF Rect
<1> QED
  BY <1>1 DEF ContainsRect, Valid, Translated, R

LEMMA FramedKept ==
  ASSUME NEW G \in Seq(LayoutWindow), NEW H, Rearranged(G, H), NEW a, Framed(G, a)
  PROVE  Framed(H, a)
<1> SUFFICES ASSUME NEW i \in DOMAIN G \ {a}
             PROVE  ContainsRect(H[i].place, H[i].visual)
  BY DEF Framed, Rearranged
<1>1. G[i] \in LayoutWindow /\ Moves(G[i], H[i])
  BY LenProperties, ElementOfSeq DEF Rearranged
<1>2. PICK dx, dy \in Int : /\ H[i].place = Translated(G[i].place, dx, dy)
                            /\ H[i].visual = Translated(G[i].visual, dx, dy)
  BY <1>1, MovedFrame
<1>3. G[i].place \in Rect /\ G[i].visual \in Rect
  BY <1>1 DEF LayoutWindow
<1>4. ContainsRect(G[i].place, G[i].visual)
  BY DEF Framed
<1>5. ContainsRect(Translated(G[i].place, dx, dy), Translated(G[i].visual, dx, dy))
  BY <1>3, <1>4, ContainsTranslated
<1> QED
  BY <1>2, <1>5

LEMMA NothingPlaced ==
  ASSUME NEW G, NEW a
  PROVE  Chained(G, a, {}) /\ LastIn(G, a, a, {})
BY DEF Chained, Beginning, LastIn

LEMMA ProgressInit ==
  ASSUME FramedSnapshots, Init
  PROVE  ProgressInv
<1>1. arranged = given /\ accepted = {} /\ anchor = given[active].visual
      /\ pc = "called" /\ status = "InvalidSnapshot"
  BY DEF Init
<1>2. PICK s \in Snapshots : given = s.windows /\ active = s.active
  BY DEF Init
<1>3. active \in DOMAIN arranged /\ Framed(given, active)
  BY <1>1, <1>2, SolverAssumption DEF FramedSnapshots
<1> QED
  BY <1>1, <1>3, NothingPlaced DEF ProgressInv

LEMMA PlaceProgress ==
  ASSUME TypeOK, PlanInv, ProgressInv, Place
  PROVE  ProgressInv'
<1>1. PICK i \in Left :
        /\ IsNext(i) /\ Fits(i)
        /\ arranged' = [arranged EXCEPT ![i] = Desired(@)]
        /\ accepted' = accepted \cup {i}
        /\ anchor' = arranged'[i].visual
  BY DEF Place
<1>2. pc = "arranging" /\ UNCHANGED <<active, given, limit, pc, status>>
  BY DEF Place, question
<1>3. PICK p \in DOMAIN arranged :
        LastIn(arranged, active, p, accepted) /\ anchor = arranged[p].visual
  BY DEF ProgressInv
<1>4. /\ arranged \in Seq(LayoutWindow) /\ active \in DOMAIN arranged
      /\ NextIn(arranged, active, i, accepted) /\ i \in DOMAIN arranged
  BY <1>1, ProgramTerms, PlacedType DEF TypeOK
<1>5. InPlace(arranged, i, arranged[p].visual)
  BY <1>1, <1>3, Choice
<1>6. arranged' = [arranged EXCEPT ![i] = From(@, arranged[p].visual)]
  BY <1>1, <1>3 DEF Desired, From
<1>7. /\ Chained(arranged', active, accepted \cup {i})
      /\ LastIn(arranged', active, i, accepted \cup {i})
      /\ Rearranged(arranged, arranged')
  <2> DEFINE H == arranged'
  <2>1. H = Put(arranged, i, arranged[p].visual)
    BY <1>6 DEF Put
  <2>2. Chained(arranged, active, accepted) /\ LastIn(arranged, active, p, accepted)
        /\ NextIn(arranged, active, i, accepted) /\ p \in DOMAIN arranged
    BY <1>3, <1>4 DEF ProgressInv
  <2> DEFINE G == arranged
             S == accepted
             r == arranged[p].visual
             a == active
  <2>4. /\ G \in Seq(LayoutWindow) /\ a \in DOMAIN G /\ p \in DOMAIN G
        /\ Chained(G, a, S) /\ NextIn(G, a, i, S) /\ LastIn(G, a, p, S)
        /\ r = G[p].visual /\ InPlace(G, i, r) /\ H = Put(G, i, r)
    BY <1>4, <1>5, <2>1, <2>2
  <2> HIDE DEF H, G, S, a, r
  <2>5. Chained(H, a, S \cup {i}) /\ LastIn(H, a, i, S \cup {i}) /\ Rearranged(G, H)
    BY <2>4, ChainGrows
  <2>3. Chained(H, active, accepted \cup {i}) /\ LastIn(H, active, i, accepted \cup {i})
        /\ Rearranged(arranged, H)
    BY <2>5 DEF G, S, a
  <2> QED
    BY <2>3 DEF H
<1>8. i \in DOMAIN arranged'
  BY <1>4, <1>7 DEF Rearranged
<1> QED
  BY <1>1, <1>2, <1>7, <1>8 DEF ProgressInv

LEMMA AnswerProgress ==
  ASSUME TypeOK, PlanInv, ProgressInv, pc = "arranging",
         NEW why, Answer(why), Stopped(arranged, active, accepted, why)
  PROVE  ProgressInv'
<1>1. UNCHANGED <<active, given, arranged, accepted, anchor>>
      /\ pc' = "answered" /\ reason' = why
  BY DEF Answer, question
<1>2. Solvable(given)
  BY DEF PlanInv
<1>3. Solvable(given')
  BY <1>1, <1>2
<1> QED
  BY <1>1, <1>3 DEF ProgressInv

(* What the end of the program's loop says about the staircase. *)
LEMMA StopReasons ==
  ASSUME TypeOK, PlanInv, ProgressInv
  PROVE  /\ OutsideWorkArea => Stopped(arranged, active, accepted, "staircase_outside_work_area")
         /\ \A i \in Left : \A why :
              /\ IsNext(i) /\ Fits(i) /\ ~ Acceptable(i)
              /\ why \notin {"none", "move_limit"}
              => Stopped(arranged, active, accepted, why)
         /\ OverLimit => Stopped(arranged, active, accepted, "move_limit")
         /\ Left = {} => Stopped(arranged, active, accepted, "none")
<1>1. PICK p \in DOMAIN arranged :
        LastIn(arranged, active, p, accepted) /\ anchor = arranged[p].visual
  BY DEF ProgressInv
<1>2. \A i : i \in Left /\ IsNext(i) => NextIn(arranged, active, i, accepted) /\ i \in DOMAIN arranged
  BY ProgramTerms, PlacedType
<1>3. ASSUME OutsideWorkArea
      PROVE  Stopped(arranged, active, accepted, "staircase_outside_work_area")
  <2>1. PICK i \in Left : IsNext(i) /\ ~ Fits(i)
    BY <1>3 DEF OutsideWorkArea
  <2>2. ~ InPlace(arranged, i, arranged[p].visual)
    BY <1>1, <2>1, Choice
  <2> QED
    BY <1>1, <1>2, <2>1, <2>2 DEF Stopped
<1>4. ASSUME NEW i \in Left, IsNext(i), Fits(i), ~ Acceptable(i), NEW why,
             why \notin {"none", "move_limit"}
      PROVE  Stopped(arranged, active, accepted, why)
  <2>1. ~ Allowed(arranged, i, arranged[p].visual)
    BY <1>1, <1>4, Choice
  <2> QED
    BY <1>1, <1>2, <1>4, <2>1 DEF Stopped
<1>5. ASSUME OverLimit
      PROVE  Stopped(arranged, active, accepted, "move_limit")
  <2>1. PICK i \in Left : IsNext(i) /\ Fits(i) /\ Acceptable(i) /\ ~ Stays(i)
    BY <1>5 DEF OverLimit
  <2>2. /\ InPlace(arranged, i, arranged[p].visual) /\ Allowed(arranged, i, arranged[p].visual)
        /\ ~ Keeps(arranged, i, arranged[p].visual)
    BY <1>1, <2>1, Choice
  <2> QED
    BY <1>1, <1>2, <2>1, <2>2 DEF Stopped
<1>6. ASSUME Left = {}
      PROVE  Stopped(arranged, active, accepted, "none")
  <2>1. accepted = TargetsOf(arranged, active)
    BY <1>6, ProgramTerms DEF Left, TypeOK
  <2> QED
    BY <2>1 DEF Stopped
<1> QED
  BY <1>3, <1>4, <1>5, <1>6

LEMMA ProgressNext ==
  ASSUME TypeOK, PlanInv, ProgressInv, [Next]_vars
  PROVE  ProgressInv'
<1>1. CASE Refuse
  BY <1>1 DEF ProgressInv, Refuse, question
<1>2. CASE Begin
  BY <1>2 DEF ProgressInv, Begin, question
<1>3. CASE OutsideWorkArea
  BY <1>3, StopReasons, AnswerProgress DEF OutsideWorkArea
<1>4. CASE Blocked
  <2>1. PICK i \in Left :
          /\ IsNext(i) /\ Fits(i) /\ ~ Acceptable(i)
          /\ Answer(IF arranged[i].movable THEN "staircase_blocked" ELSE "window_fixed")
    BY <1>4 DEF Blocked
  <2> DEFINE why == IF arranged[i].movable THEN "staircase_blocked" ELSE "window_fixed"
  <2>2. why \notin {"none", "move_limit"} /\ Answer(why) /\ pc = "arranging"
    BY <1>4, <2>1 DEF Blocked
  <2> HIDE DEF why
  <2>3. Stopped(arranged, active, accepted, why)
    BY <2>1, <2>2, StopReasons
  <2> QED
    BY <2>2, <2>3, AnswerProgress
<1>5. CASE OverLimit
  BY <1>5, StopReasons, AnswerProgress DEF OverLimit
<1>6. CASE Place
  BY <1>6, PlaceProgress
<1>7. CASE Complete
  BY <1>7, StopReasons, AnswerProgress DEF Complete
<1>8. CASE Reconcile
  <2>1. /\ given' = arranged /\ arranged' = arranged /\ active' = active /\ accepted' = {}
        /\ anchor' = arranged[active].visual /\ pc' = "called" /\ status' = "InvalidSnapshot"
    BY <1>8 DEF Reconcile
  <2>2. active \in DOMAIN arranged
    BY ProgramTerms DEF TypeOK
  <2>3. Framed(arranged, active)
    BY ProgramTerms, FramedKept DEF ProgressInv
  <2>4. Chained(arranged', active', accepted') /\ LastIn(arranged', active', active, accepted')
    BY <2>1, NothingPlaced
  <2> QED
    BY <2>1, <2>2, <2>3, <2>4 DEF ProgressInv
<1>9. CASE UNCHANGED vars
  <2>1. UNCHANGED <<active, given, arranged, accepted, anchor, pc, status, reason>>
    BY <1>9 DEF vars, question
  <2>2. Solvable(given) => Solvable(given')
    BY <2>1
  <2> QED
    BY <2>1, <2>2 DEF ProgressInv
<1> QED
  BY <1>1, <1>2, <1>3, <1>4, <1>5, <1>6, <1>7, <1>8, <1>9 DEF Next

-----------------------------------------------------------------------------
(* What the call leaves behind can be worked on again                      *)

LEMMA NativeInside ==
  ASSUME NEW r \in Rect, NEW o \in Rect, Native(o), ContainsRect(o, r), ~ Empty(r)
  PROVE  Native(r)
<1>1. /\ r.left \in Int /\ r.right \in Int /\ r.top \in Int /\ r.bottom \in Int
      /\ o.left \in Int /\ o.right \in Int /\ o.top \in Int /\ o.bottom \in Int
      /\ NativeLimit \in Nat
  BY SolverAssumption DEF Rect
<1>2. /\ o.left <= r.left /\ r.right <= o.right /\ o.top <= r.top /\ r.bottom <= o.bottom
      /\ r.left <= r.right /\ r.top <= r.bottom /\ o.left <= o.right /\ o.top <= o.bottom
  BY DEF ContainsRect, Valid
<1>3. /\ - NativeLimit - 1 <= o.left /\ o.right <= NativeLimit
      /\ - NativeLimit - 1 <= o.top /\ o.bottom <= NativeLimit
      /\ o.right - o.left <= NativeLimit /\ o.bottom - o.top <= NativeLimit
  BY <1>2 DEF Native, Width, Height, Valid
<1>4. Width(r) = r.right - r.left /\ Height(r) = r.bottom - r.top
  BY <1>2 DEF Width, Height, Valid
<1>5. Width(r) <= NativeLimit /\ Height(r) <= NativeLimit
  BY <1>1, <1>2, <1>3, <1>4
<1>6. /\ - NativeLimit - 1 <= r.left /\ r.right <= NativeLimit
      /\ - NativeLimit - 1 <= r.top /\ r.bottom <= NativeLimit
  BY <1>1, <1>2, <1>3
<1> QED
  BY <1>5, <1>6 DEF Native

LEMMA NotEmptied ==
  ASSUME NEW r \in Rect, ~ Empty(r), NEW dx \in Int, NEW dy \in Int
  PROVE  ~ Empty(Translated(r, dx, dy))
<1>1. r.left \in Int /\ r.right \in Int /\ r.top \in Int /\ r.bottom \in Int
  BY DEF Rect
<1>2. r.left < r.right /\ r.top < r.bottom
  BY <1>1 DEF Empty, Valid
<1>3. /\ Translated(r, dx, dy).left = r.left + dx /\ Translated(r, dx, dy).right = r.right + dx
      /\ Translated(r, dx, dy).top = r.top + dy /\ Translated(r, dx, dy).bottom = r.bottom + dy
  BY DEF Translated, R
<1>4. r.left + dx < r.right + dx /\ r.top + dy < r.bottom + dy
  BY <1>1, <1>2
<1>5. r.left + dx \in Int /\ r.right + dx \in Int /\ r.top + dy \in Int /\ r.bottom + dy \in Int
  BY <1>1
<1> HIDE DEF Translated
<1> QED
  BY <1>3, <1>4, <1>5 DEF Empty, Valid

(* A moved window lies within its work area, and what is painted of it     *)
(* within its rectangle.                                                   *)
LEMMA SolvableKept ==
  ASSUME TypeOK, PlanInv, Solvable(given), Framed(given, active)
  PROVE  Solvable(arranged)
<1>1. /\ DOMAIN arranged = DOMAIN given /\ Rearranged(given, arranged)
      /\ given \in Seq(LayoutWindow) /\ Framed(arranged, active)
  BY ProgramTerms, FramedKept
<1>2. \A i \in DOMAIN given : given[i] \in LayoutWindow
  BY WindowsType
<1>3. ASSUME NEW i \in DOMAIN arranged
      PROVE  Native(arranged[i].visual) /\ Native(arranged[i].place) /\ Native(arranged[i].work)
  <2>1. i \in DOMAIN given /\ Native(given[i].visual) /\ Native(given[i].work)
        /\ Native(given[i].place)
    BY <1>1 DEF Solvable
  <2>2. CASE arranged[i] = given[i]
    BY <2>1, <2>2
  <2>3. CASE arranged[i] # given[i]
    <3>1. PICK m \in DOMAIN moves : moves[m].window = i
      BY <2>1, <2>3 DEF PlanInv, PlanExplainsLayout
    <3>2. i \in Targets /\ FullyWithin(arranged[i].place, given[i].work)
      BY <3>1 DEF PlanInv, PlanExplainsLayout
    <3>3. /\ arranged[i].work = given[i].work /\ arranged[i] \in LayoutWindow
          /\ \E dx, dy \in Int : arranged[i].visual = Translated(given[i].visual, dx, dy)
      BY <1>1, <1>2, <2>1, MovedFrame DEF Rearranged
    <3>4. arranged[i].place \in Rect /\ arranged[i].visual \in Rect
          /\ given[i].visual \in Rect /\ given[i].work \in Rect
      BY <1>2, <2>1, <3>3 DEF LayoutWindow
    <3>5. Native(arranged[i].place)
      BY <2>1, <3>2, <3>4, NativeInside DEF FullyWithin
    <3>6. ContainsRect(arranged[i].place, arranged[i].visual)
      BY <1>1, <3>2 DEF Framed, Targets
    <3>7. ~ Empty(arranged[i].visual)
      BY <2>1, <3>3, <3>4, NotEmptied DEF Native
    <3> QED
      BY <2>1, <3>3, <3>4, <3>5, <3>6, <3>7, NativeInside
  <2> QED
    BY <2>2, <2>3
<1>4. ASSUME NEW i \in Judged(arranged)
      PROVE  Analysable(arranged[i])
  <2>1. i \in DOMAIN given /\ i \in DOMAIN arranged
    BY <1>1 DEF Judged
  <2>2. /\ arranged[i].managed = given[i].managed /\ arranged[i].visible = given[i].visible
        /\ arranged[i].current = given[i].current /\ arranged[i].z = given[i].z
    BY <1>1, <1>2, <2>1, MovedFrame DEF Rearranged
  <2>3. i \in Judged(given)
    BY <2>1, <2>2 DEF Judged
  <2>4. given[i].z >= 0
    BY <2>3 DEF Solvable, ScanOk, Analysable
  <2>5. ~ Empty(arranged[i].visual) /\ ~ Empty(arranged[i].work)
    BY <1>3, <2>1 DEF Native
  <2> QED
    BY <2>2, <2>4, <2>5 DEF Analysable
<1> QED
  BY <1>3, <1>4 DEF Solvable, ScanOk

LEMMA ShownMeansSafe ==
  ASSUME TypeOK, PlanInv, ShownInv
  PROVE  AllSafe(arranged, accepted)
<1> SUFFICES ASSUME NEW i \in accepted
             PROVE  Safe(arranged, i)
  BY DEF AllSafe
<1>1. i \in Targets /\ Targets = TargetsOf(arranged, active) /\ arranged \in Seq(LayoutWindow)
  BY ProgramTerms DEF TypeOK
<1>2. i \in DOMAIN arranged /\ arranged[i].managed
  BY <1>1 DEF TargetsOf, Judged
<1>3. arranged[i] \in LayoutWindow
  BY <1>1, <1>2, LenProperties, ElementOfSeq
<1>4. arranged[i].z <= arranged[i].z
  BY <1>3 DEF LayoutWindow
<1>5. \A j \in DOMAIN arranged :
        arranged[j].managed /\ arranged[j].z <= arranged[i].z => Satisfied(arranged, j)
  BY DEF ShownInv
<1> QED
  BY <1>2, <1>4, <1>5 DEF Safe

-----------------------------------------------------------------------------
(* The call before                                                         *)

LEMMA BeforeKept ==
  ASSUME BeforeInv, UNCHANGED <<given, active, before, calls>>
  PROVE  BeforeInv'
<1>1. given' = given /\ active' = active /\ before' = before /\ calls' = calls
  OBVIOUS
<1> QED
  BY <1>1 DEF BeforeInv

LEMMA BeforeNext ==
  ASSUME TypeOK, PlanInv, ShownInv, ProgressInv, BeforeInv, [Next]_vars
  PROVE  BeforeInv'
<1>1. CASE Reconcile
  <2>1. pc = "answered" /\ status # "InvalidSnapshot"
    BY <1>1 DEF Reconcile
  <2>2. /\ Chained(arranged, active, accepted) /\ Solvable(given) /\ Framed(given, active)
        /\ Stopped(arranged, active, accepted, reason)
    BY <2>1 DEF ProgressInv
  <2>3. Solvable(arranged) /\ AllSafe(arranged, accepted)
    BY <2>2, SolvableKept, ShownMeansSafe
  <2>4. /\ given' = arranged /\ active' = active
        /\ before'.accepted = accepted /\ before'.reason = reason
    BY <1>1 DEF Reconcile
  <2> QED
    BY <2>2, <2>3, <2>4 DEF BeforeInv
<1>2. CASE UNCHANGED <<given, active, before, calls>>
  BY <1>2, BeforeKept
<1>3. CASE Refuse \/ Begin \/ Place
  BY <1>2, <1>3 DEF Refuse, Begin, Place, question
<1>4. CASE OutsideWorkArea \/ Blocked \/ OverLimit \/ Complete
  BY <1>2, <1>4 DEF OutsideWorkArea, Blocked, OverLimit, Complete, Answer, question
<1>5. CASE UNCHANGED vars
  BY <1>2, <1>5 DEF vars, question
<1> QED
  BY <1>1, <1>3, <1>4, <1>5 DEF Next

-----------------------------------------------------------------------------
(* The second call meets what the first has met                            *)

(* As long as the staircase has not gone beyond where the call before has  *)
(* got to, nothing has moved, and the next window of that call is where it *)
(* is wanted.                                                              *)
LEMMA StillThere ==
  ASSUME TypeOK, PlanInv, ProgressInv, BeforeInv, RepeatInv, pc = "arranging", calls > 1,
         accepted \subseteq before.accepted,
         NEW i \in Left, IsNext(i), i \in before.accepted
  PROVE  Fits(i) /\ Stays(i) /\ Acceptable(i)
<1>1. arranged = given
  BY DEF RepeatInv
<1>2. PICK p \in DOMAIN arranged :
        LastIn(arranged, active, p, accepted) /\ anchor = arranged[p].visual
  BY DEF ProgressInv
<1>3. /\ arranged \in Seq(LayoutWindow) /\ NextIn(arranged, active, i, accepted)
      /\ Beginning(arranged, active, accepted) /\ i \in DOMAIN arranged
  BY ProgramTerms, PlacedType DEF ProgressInv, Chained
<1>4. AheadOf(arranged, active, i) = accepted
  BY <1>3, AheadOfNext
<1>5. Chained(arranged, active, before.accepted) /\ AllSafe(arranged, before.accepted)
  BY <1>1 DEF BeforeInv
<1>6. From(arranged[i], arranged[p].visual) = arranged[i]
  BY <1>2, <1>4, <1>5 DEF Chained
<1>7. Desired(arranged[i]) = arranged[i]
  BY <1>2, <1>6 DEF Desired, From
<1>8. ContainsRect(arranged[i].work, arranged[i].place)
  BY <1>5 DEF Chained
<1>9. Fits(i) /\ Stays(i)
  BY <1>7, <1>8 DEF Fits, Stays
<1>10. [arranged EXCEPT ![i] = Desired(@)] = arranged
  BY <1>9, PlacedInPlace
<1>11. Safe(arranged, i)
  BY <1>5 DEF AllSafe
<1> QED
  BY <1>9, <1>10, <1>11 DEF Acceptable

(* Where the call before has ended for another reason than its limit, the  *)
(* next window cannot be placed now either; where it has ended for its     *)
(* limit, the next window can be moved.                                    *)
LEMMA AtTheEnd ==
  ASSUME TypeOK, PlanInv, ProgressInv, BeforeInv, RepeatInv, pc = "arranging", calls > 1,
         accepted = before.accepted
  PROVE  /\ before.reason # "move_limit" =>
              \A i \in Left : IsNext(i) => ~ (Fits(i) /\ Acceptable(i))
         /\ before.reason = "move_limit" =>
              \E i \in Left : IsNext(i) /\ Fits(i) /\ Acceptable(i) /\ ~ Stays(i)
<1>1. arranged = given
  BY DEF RepeatInv
<1>2. PICK p \in DOMAIN arranged :
        LastIn(arranged, active, p, accepted) /\ anchor = arranged[p].visual
  BY DEF ProgressInv
<1>3. /\ arranged \in Seq(LayoutWindow) /\ Targets = TargetsOf(arranged, active)
      /\ accepted \subseteq DOMAIN arranged
      /\ \A i : i \in Left /\ IsNext(i) <=> NextIn(arranged, active, i, accepted)
  BY ProgramTerms, TargetsAreWindows DEF TypeOK
<1>4. Stopped(arranged, active, accepted, before.reason)
  BY <1>1 DEF BeforeInv
<1>5. ASSUME before.reason # "move_limit", NEW i \in Left, IsNext(i), Fits(i), Acceptable(i)
      PROVE  FALSE
  <2>1. before.reason # "none"
    BY <1>3, <1>4, <1>5 DEF Stopped, Left
  <2>2. PICK k \in DOMAIN arranged, q \in DOMAIN arranged :
          /\ NextIn(arranged, active, k, accepted) /\ LastIn(arranged, active, q, accepted)
          /\ ~ (InPlace(arranged, k, arranged[q].visual) /\ Allowed(arranged, k, arranged[q].visual))
    BY <1>4, <1>5, <2>1 DEF Stopped
  <2>3. k = i /\ q = p
    BY <1>2, <1>3, <1>5, <2>2, OneNext, OneLast
  <2> QED
    BY <1>2, <1>5, <2>2, <2>3, Choice
<1>6. ASSUME before.reason = "move_limit"
      PROVE  \E i \in Left : IsNext(i) /\ Fits(i) /\ Acceptable(i) /\ ~ Stays(i)
  <2>1. PICK k \in DOMAIN arranged, q \in DOMAIN arranged :
          /\ NextIn(arranged, active, k, accepted) /\ LastIn(arranged, active, q, accepted)
          /\ InPlace(arranged, k, arranged[q].visual) /\ Allowed(arranged, k, arranged[q].visual)
          /\ ~ Keeps(arranged, k, arranged[q].visual)
    BY <1>4, <1>6 DEF Stopped
  <2>2. q = p
    BY <1>2, <1>3, <2>1, OneLast
  <2>3. k \in Left /\ IsNext(k)
    BY <1>3, <2>1
  <2>4. Fits(k) /\ Acceptable(k) /\ ~ Stays(k)
    BY <1>2, <2>1, <2>2, Choice
  <2> QED
    BY <2>3, <2>4
<1> QED
  BY <1>5, <1>6

LEMMA PlaceRepeats ==
  ASSUME TypeOK, PlanInv, ProgressInv, BeforeInv, RepeatInv, Place
  PROVE  RepeatInv'
<1>1. PICK i \in Left :
        /\ IsNext(i) /\ Fits(i) /\ Acceptable(i)
        /\ arranged' = [arranged EXCEPT ![i] = Desired(@)]
        /\ accepted' = accepted \cup {i}
        /\ Stays(i) => moves' = moves
  BY DEF Place
<1>2. pc = "arranging" /\ UNCHANGED <<active, given, limit, pc, calls, before>>
  BY DEF Place, question
<1> SUFFICES ASSUME calls > 1
             PROVE  /\ accepted' \subseteq before.accepted => arranged' = given /\ moves' = <<>>
                    /\ before.reason # "move_limit" => accepted' \subseteq before.accepted
  BY <1>2 DEF RepeatInv, ReconcileSettles
<1>3. ASSUME i \in before.accepted, accepted \subseteq before.accepted
      PROVE  arranged' = given /\ moves' = <<>>
  <2>1. Stays(i)
    BY <1>1, <1>2, <1>3, StillThere
  <2>2. arranged' = arranged
    BY <1>1, <2>1, PlacedInPlace
  <2>3. arranged = given /\ moves = <<>>
    BY <1>2, <1>3 DEF RepeatInv
  <2> QED
    BY <1>1, <2>1, <2>2, <2>3
<1>4. ASSUME before.reason # "move_limit"
      PROVE  accepted \subseteq before.accepted /\ i \in before.accepted
  <2>1. accepted \subseteq before.accepted
    BY <1>2, <1>4 DEF RepeatInv
  <2>2. accepted # before.accepted
    BY <1>1, <1>2, <1>4, AtTheEnd
  <2>3. /\ given \in Seq(LayoutWindow) /\ arranged = given
        /\ NextIn(arranged, active, i, accepted)
    BY <1>1, <1>2, <2>1, ProgramTerms DEF RepeatInv
  <2>4. Beginning(given, active, before.accepted)
    BY DEF BeforeInv, Chained
  <2>5. i \in before.accepted
    BY <2>1, <2>2, <2>3, <2>4, NextIsWithin
  <2> QED
    BY <2>1, <2>5
<1> QED
  BY <1>1, <1>3, <1>4

(* Nothing more can be placed, for whatever reason.                        *)
Stuck ==
  \/ Left = {}
  \/ \E i \in Left :
       IsNext(i) /\ ~ (Fits(i) /\ Acceptable(i) /\ (Stays(i) \/ Len(moves) < limit))

LEMMA AnswerRepeats ==
  ASSUME TypeOK, PlanInv, ProgressInv, BeforeInv, RepeatInv, pc = "arranging",
         Stuck, NEW why, Answer(why)
  PROVE  RepeatInv'
<1>1. pc' = "answered" /\ UNCHANGED <<limit, accepted, moves, calls, before>>
  BY DEF Answer, question
<1> SUFFICES ASSUME calls > 1
             PROVE  /\ before.reason # "move_limit" => moves = <<>> /\ accepted = before.accepted
                    /\ before.reason = "move_limit" =>
                         /\ before.accepted \subseteq accepted
                         /\ limit > 0 => before.accepted # accepted
  BY <1>1 DEF RepeatInv, ReconcileSettles
<1>2. /\ given \in Seq(LayoutWindow) /\ arranged \in Seq(LayoutWindow)
      /\ Rearranged(given, arranged) /\ Targets = TargetsOf(given, active)
      /\ \A i : i \in Left /\ IsNext(i) <=> NextIn(arranged, active, i, accepted)
  BY ProgramTerms
<1>3. Beginning(given, active, before.accepted) /\ Beginning(given, active, accepted)
  BY <1>2, SameBeginning DEF BeforeInv, ProgressInv, Chained
<1>4. ASSUME accepted \subseteq before.accepted, accepted # before.accepted
      PROVE  FALSE
  <2>1. Left # {}
    BY <1>2, <1>3, <1>4 DEF Beginning, Left
  <2>2. PICK i \in Left :
          IsNext(i) /\ ~ (Fits(i) /\ Acceptable(i) /\ (Stays(i) \/ Len(moves) < limit))
    BY <2>1 DEF Stuck
  <2>3. NextIn(given, active, i, accepted)
    BY <1>2, <2>2, SameBeginning
  <2>4. i \in before.accepted
    BY <1>2, <1>3, <1>4, <2>3, NextIsWithin
  <2>5. Fits(i) /\ Stays(i) /\ Acceptable(i)
    BY <1>4, <2>2, <2>4, StillThere
  <2> QED
    BY <2>2, <2>5
<1>5. before.accepted \subseteq accepted
  BY <1>2, <1>3, <1>4, Comparable
<1>6. ASSUME before.reason # "move_limit"
      PROVE  moves = <<>> /\ accepted = before.accepted
  BY <1>5, <1>6 DEF RepeatInv
<1>7. ASSUME before.reason = "move_limit", limit > 0, before.accepted = accepted
      PROVE  FALSE
  <2>1. moves = <<>>
    BY <1>7 DEF RepeatInv
  <2>2. Len(moves) < limit
    BY <1>7, <2>1
  <2>3. PICK i \in Left : IsNext(i) /\ Fits(i) /\ Acceptable(i)
    BY <1>7, AtTheEnd
  <2>4. PICK k \in Left : IsNext(k) /\ ~ (Fits(k) /\ Acceptable(k))
    BY <2>2, <2>3 DEF Stuck
  <2>5. i = k
    BY <1>2, <2>3, <2>4, OneNext
  <2> QED
    BY <2>3, <2>4, <2>5
<1> QED
  BY <1>5, <1>6, <1>7

LEMMA RepeatNext ==
  ASSUME TypeOK, PlanInv, ProgressInv, BeforeInv, RepeatInv, [Next]_vars
  PROVE  RepeatInv'
<1>1. CASE Refuse
  <2>1. calls <= 1 \/ calls \notin Int
    BY <1>1 DEF Refuse, BeforeInv, TypeOK
  <2>2. ~ (calls > 1)
    BY <2>1 DEF TypeOK
  <2> QED
    BY <1>1, <2>2 DEF Refuse, RepeatInv, ReconcileSettles
<1>2. CASE Begin
  BY <1>2 DEF Begin, question, RepeatInv, ReconcileSettles
<1>3. CASE OutsideWorkArea
  <2>1. Stuck
    BY <1>3 DEF OutsideWorkArea, Stuck
  <2> QED
    BY <1>3, <2>1, AnswerRepeats DEF OutsideWorkArea
<1>4. CASE Blocked
  <2>1. Stuck
    BY <1>4 DEF Blocked, Stuck
  <2>2. pc = "arranging" /\ \E why : Answer(why)
    BY <1>4 DEF Blocked
  <2> QED
    BY <2>1, <2>2, AnswerRepeats
<1>5. CASE OverLimit
  <2>1. PICK i \in Left : IsNext(i) /\ ~ Stays(i) /\ Len(moves) >= limit
    BY <1>5 DEF OverLimit
  <2>2. ~ (Len(moves) < limit)
    <3>1. Len(moves) \in Nat /\ limit \in Nat
      BY SolverAssumption, LenProperties DEF TypeOK
    <3> QED
      BY <2>1, <3>1
  <2>3. Stuck
    BY <2>1, <2>2 DEF Stuck
  <2> QED
    BY <1>5, <2>3, AnswerRepeats DEF OverLimit
<1>6. CASE Place
  BY <1>6, PlaceRepeats
<1>7. CASE Complete
  <2>1. Stuck
    BY <1>7 DEF Complete, Stuck
  <2> QED
    BY <1>7, <2>1, AnswerRepeats DEF Complete
<1>8. CASE Reconcile
  BY <1>8 DEF Reconcile, RepeatInv, ReconcileSettles
<1>9. CASE UNCHANGED vars
  BY <1>9 DEF vars, question, RepeatInv, ReconcileSettles
<1> QED
  BY <1>1, <1>2, <1>3, <1>4, <1>5, <1>6, <1>7, <1>8, <1>9 DEF Next

-----------------------------------------------------------------------------
(* A reconcile of the layout a call has left behind moves nothing and gets *)
(* exactly as far, unless that call had used up its moves; then it gets    *)
(* further.  So with no window opened, closed or moved, the reconciles     *)
(* that follow an activation leave the desktop alone.                      *)
THEOREM ReconcilesAreStable ==
  ASSUME FramedSnapshots
  PROVE  Spec => []ReconcileSettles
<1> DEFINE Inv == TypeOK /\ PlanInv /\ ShownInv /\ ProgressInv /\ BeforeInv /\ RepeatInv
<1>1. Init => Inv
  <2> SUFFICES ASSUME Init
               PROVE  Inv
    OBVIOUS
  <2>1. TypeOK /\ PlanInv /\ ProgressInv
    BY TypeInit, PlanInit, ProgressInit
  <2>2. calls = 1 /\ accepted = {} /\ pc = "called"
    BY DEF Init
  <2>3. ShownInv
    BY <2>2 DEF ShownInv
  <2>4. ~ (calls > 1)
    BY <2>2
  <2>5. BeforeInv /\ RepeatInv
    BY <2>4 DEF BeforeInv, RepeatInv, ReconcileSettles
  <2> QED
    BY <2>1, <2>3, <2>5
<1>2. Inv /\ [Next]_vars => Inv'
  <2> SUFFICES ASSUME Inv, [Next]_vars
               PROVE  Inv'
    OBVIOUS
  <2>1. TypeOK' /\ PlanInv'
    BY TypeNext, PlanNext
  <2>2. ShownInv' /\ ProgressInv' /\ BeforeInv' /\ RepeatInv'
    BY <2>1, ShownNext, ProgressNext, BeforeNext, RepeatNext
  <2> QED
    BY <2>1, <2>2
<1>3. Inv => ReconcileSettles
  BY DEF RepeatInv
<1> QED
  BY <1>1, <1>2, <1>3, PTL DEF Spec
=============================================================================
