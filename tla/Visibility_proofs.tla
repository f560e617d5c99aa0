------------------------- MODULE Visibility_proofs --------------------------
(***************************************************************************)
(* What edge_exposure() calls recognisable can be seen: every pixel of a   *)
(* strip, or of two strips that meet in a corner, is on the work area and  *)
(* no relevant window in front is painted over it.                         *)
(*                                                                         *)
(* The argument goes through the regions: subtract(), unite() and          *)
(* intersect() answer exactly the pixels they should, however their        *)
(* rectangles are joined, or say that they are too complex; so what is     *)
(* exposed of a window is shown, and a part of it that is long and deep    *)
(* enough along an edge holds a strip, of a corner's channel the one that  *)
(* starts at the corner.                                                   *)
(*                                                                         *)
(* The regions are made by folds over finite sets. A fold is what its      *)
(* recursive definition says because a function that does exists:          *)
(* FoldExists.                                                             *)
(***************************************************************************)
EXTENDS Visibility, TitleBarSolver_proofs, FiniteSetTheorems, WellFoundedInduction

-----------------------------------------------------------------------------
(* Induction over numbers and finite sets, and folds                       *)

(* Induction over the natural numbers, with a set for the predicate.       *)
LEMMA NumberInduction ==
  ASSUME NEW G, 0 \in G, \A n \in Nat : n \in G => n + 1 \in G
  PROVE  \A n \in Nat : n \in G
<1> DEFINE T == Nat \ G
<1> SUFFICES ASSUME T # {} PROVE FALSE
  OBVIOUS
<1>1. \E n \in T : \A m \in T : ~ <<m, n>> \in OpToRel(<, Nat)
  <2>1. T \subseteq Nat
    OBVIOUS
  <2> HIDE DEF T
  <2> QED
    BY <2>1, NatLessThanWellFounded, WFMin
<1>2. PICK n \in T : \A m \in T : ~ <<m, n>> \in OpToRel(<, Nat)
  BY <1>1
<1>3. \A m \in T : ~ (m < n)
  BY <1>2 DEF OpToRel
<1>4. n # 0 /\ n \in Nat
  OBVIOUS
<1>5. n - 1 \in Nat /\ n - 1 < n /\ (n - 1) + 1 = n
  BY <1>4
<1> QED
  BY <1>3, <1>5

(* What holds of the empty set, and of every subset if it holds of the     *)
(* subset without one of its elements, holds of a finite set.              *)
LEMMA SetInduction ==
  ASSUME NEW S, IsFiniteSet(S), NEW G, {} \in G,
         \A T \in SUBSET S : T # {} => \E x \in T : T \ {x} \in G => T \in G
  PROVE  S \in G
<1> DEFINE Upto == {n \in Nat : \A T \in SUBSET S : Cardinality(T) = n => T \in G}
<1>1. \A T \in SUBSET S : IsFiniteSet(T) /\ Cardinality(T) \in Nat
  BY FS_Subset, FS_CardinalityType
<1>2. 0 \in Upto
  BY <1>1, FS_EmptySet
<1>3. ASSUME NEW n \in Nat, n \in Upto PROVE n + 1 \in Upto
  <2>1. ASSUME NEW T \in SUBSET S, Cardinality(T) = n + 1 PROVE T \in G
    <3>1. T # {}
      BY <2>1, <1>1, FS_EmptySet
    <3>2. PICK x \in T : T \ {x} \in G => T \in G
      BY <3>1
    <3>3. Cardinality(T \ {x}) = n
      <4>1. IsFiniteSet(T) /\ Cardinality(T) = n + 1 /\ x \in T
        BY <2>1, <1>1
      <4>2. Cardinality(T \ {x}) = Cardinality(T) - 1
        BY <4>1, FS_RemoveElement
      <4> QED
        BY <4>1, <4>2
    <3>4. T \ {x} \in SUBSET S
      OBVIOUS
    <3> QED
      BY <1>3, <3>2, <3>3, <3>4
  <2> QED
    BY <2>1
<1> HIDE DEF Upto
<1>4. \A n \in Nat : n \in Upto
  BY <1>2, <1>3, NumberInduction
<1> QED
  BY <1>1, <1>4 DEF Upto

(* A fold over a finite set is a function of its subsets. *)
IsFold(iter, sets, pick, base, step) ==
  \A T \in sets :
    iter[T] = IF T = {} THEN base ELSE step[<<pick[T], iter[T \ {pick[T]}]>>]

(* The subsets of at most n elements.                                      *)
Sized(S, n) == {T \in SUBSET S : Cardinality(T) <= n}

(* A function that satisfies the recursive definition of a fold exists.    *)
LEMMA FoldExists ==
  ASSUME NEW S, IsFiniteSet(S), NEW A, NEW base \in A, NEW step \in [S \X A -> A],
         NEW pick, \A T \in SUBSET S : T # {} => pick[T] \in T
  PROVE  \E iter \in [SUBSET S -> A] : IsFold(iter, SUBSET S, pick, base, step)
<1> DEFINE Upto == {n \in Nat : \E iter \in [Sized(S, n) -> A] :
                                  IsFold(iter, Sized(S, n), pick, base, step)}
<1>1. \A T \in SUBSET S : IsFiniteSet(T) /\ Cardinality(T) \in Nat
  BY FS_Subset, FS_CardinalityType
<1>2. 0 \in Upto
  <2>1. Sized(S, 0) = {{}}
    BY <1>1, FS_EmptySet DEF Sized
  <2> DEFINE iter == [T \in Sized(S, 0) |-> base]
  <2>2. iter \in [Sized(S, 0) -> A] /\ IsFold(iter, Sized(S, 0), pick, base, step)
    BY <2>1 DEF IsFold
  <2> QED
    BY <2>2
<1>3. ASSUME NEW n \in Nat, n \in Upto PROVE n + 1 \in Upto
  <2>1. PICK iter \in [Sized(S, n) -> A] : IsFold(iter, Sized(S, n), pick, base, step)
    BY <1>3
  <2> DEFINE more == [T \in Sized(S, n + 1) |->
                        IF T = {} THEN base ELSE step[<<pick[T], iter[T \ {pick[T]}]>>]]
  <2>2. Sized(S, n) \subseteq Sized(S, n + 1)
    BY <1>1 DEF Sized
  <2>3. ASSUME NEW T \in Sized(S, n + 1), T # {}
        PROVE  pick[T] \in S /\ T \ {pick[T]} \in Sized(S, n)
    <3>1. T \in SUBSET S /\ pick[T] \in T /\ IsFiniteSet(T) /\ Cardinality(T) \in Nat
          /\ Cardinality(T) <= n + 1
      BY <2>3, <1>1 DEF Sized
    <3>2. Cardinality(T \ {pick[T]}) = Cardinality(T) - 1
      BY <3>1, FS_RemoveElement
    <3> QED
      BY <3>1, <3>2 DEF Sized
  <2>4. ASSUME NEW T \in Sized(S, n) PROVE more[T] = iter[T]
    BY <2>1, <2>2 DEF IsFold
  <2>5. more \in [Sized(S, n + 1) -> A]
    <3>1. ASSUME NEW T \in Sized(S, n + 1), T # {}
          PROVE  step[<<pick[T], iter[T \ {pick[T]}]>>] \in A
      <4>1. iter[T \ {pick[T]}] \in A
        BY <3>1, <2>3
      <4>2. <<pick[T], iter[T \ {pick[T]}]>> \in S \X A
        BY <3>1, <2>3, <4>1
      <4> QED
        BY <4>2
    <3> QED
      BY <3>1
  <2>6. IsFold(more, Sized(S, n + 1), pick, base, step)
    <3>1. ASSUME NEW T \in Sized(S, n + 1), T # {}
          PROVE  more[T \ {pick[T]}] = iter[T \ {pick[T]}]
      BY <3>1, <2>3, <2>4
    <3>2. ASSUME NEW T \in Sized(S, n + 1)
          PROVE  more[T] = IF T = {} THEN base ELSE step[<<pick[T], iter[T \ {pick[T]}]>>]
      OBVIOUS
    <3> HIDE DEF more
    <3> QED
      BY <3>1, <3>2 DEF IsFold
  <2> HIDE DEF more
  <2>7. \E it \in [Sized(S, n + 1) -> A] : IsFold(it, Sized(S, n + 1), pick, base, step)
    BY <2>5, <2>6
  <2> QED
    BY <2>7
<1> HIDE DEF Upto
<1>4. \A n \in Nat : n \in Upto
  BY <1>2, <1>3, NumberInduction
<1>5. Cardinality(S) \in Nat /\ Sized(S, Cardinality(S)) = SUBSET S
  BY <1>1, FS_Subset, FS_CardinalityType DEF Sized
<1>6. Cardinality(S) \in Upto
  BY <1>4, <1>5
<1>7. PICK iter \in [Sized(S, Cardinality(S)) -> A] :
        IsFold(iter, Sized(S, Cardinality(S)), pick, base, step)
  BY <1>6 DEF Upto
<1> QED
  BY <1>5, <1>7

-----------------------------------------------------------------------------
(* Rectangles in order, joined to canonical regions                        *)

(* A finite set has a first element in any total order. *)
LEMMA FirstExists ==
  ASSUME NEW S, IsFiniteSet(S), S # {}, NEW order,
         \A a, b \in S : a # b => <<a, b>> \in order \/ <<b, a>> \in order,
         \A a, b, c \in S : <<a, b>> \in order /\ <<b, c>> \in order => <<a, c>> \in order
  PROVE  \E a \in S : \A b \in S \ {a} : <<a, b>> \in order
<1> DEFINE G == {T \in SUBSET S : T # {} => \E a \in T : \A b \in T \ {a} : <<a, b>> \in order}
<1>1. {} \in G
  OBVIOUS
<1>2. ASSUME NEW T \in SUBSET S, NEW x \in T, T \ {x} \in G PROVE T \in G
  <2>1. CASE T \ {x} = {}
    <3>1. T = {x}
      BY <2>1
    <3> QED
      BY <3>1
  <2>2. CASE T \ {x} # {}
    <3>1. PICK a \in T \ {x} : \A b \in (T \ {x}) \ {a} : <<a, b>> \in order
      BY <1>2, <2>2
    <3>2. CASE <<a, x>> \in order
      <4>1. \A b \in T \ {a} : <<a, b>> \in order
        BY <3>1, <3>2
      <4> QED
        BY <4>1
    <3>3. CASE <<x, a>> \in order
      <4>1. \A b \in T \ {x} : <<x, b>> \in order
        BY <3>1, <3>3
      <4> QED
        BY <4>1
    <3> QED
      BY <3>1, <3>2, <3>3
  <2> QED
    BY <2>1, <2>2
<1> HIDE DEF G
<1>3. S \in G
  <2>1. \A T \in SUBSET S : T # {} => \E x \in T : T \ {x} \in G => T \in G
    BY <1>2
  <2> QED
    BY <1>1, <2>1, SetInduction
<1> QED
  BY <1>3 DEF G

(* Rectangles with pixels, finite sets of them, and the pixels of such a   *)
(* set.                                                                    *)
Solid == {r \in Rect : ~ Empty(r)}
Regions == {S \in SUBSET Solid : IsFiniteSet(S)}

Fills(S, x, y) == \E r \in S : HasPixel(r, x, y)
SamePixels(S, T) == \A x, y \in Int : Fills(S, x, y) <=> Fills(T, x, y)

LEMMA BeforeIsTotal ==
  ASSUME NEW a \in Rect, NEW b \in Rect
  PROVE  a # b => Before(a, b) \/ Before(b, a)
BY DEF Rect, Before

LEMMA BeforeIsTransitive ==
  ASSUME NEW a \in Rect, NEW b \in Rect, NEW c \in Rect, Before(a, b), Before(b, c)
  PROVE  Before(a, c)
<1>1. /\ a.top \in Int /\ a.left \in Int /\ a.bottom \in Int /\ a.right \in Int
      /\ b.top \in Int /\ b.left \in Int /\ b.bottom \in Int /\ b.right \in Int
      /\ c.top \in Int /\ c.left \in Int /\ c.bottom \in Int /\ c.right \in Int
  BY DEF Rect
<1> QED
  BY <1>1 DEF Before

(* A finite region has a rectangle that comes last.                        *)
LEMMA LatestIsIn ==
  ASSUME NEW S, S \subseteq Rect, IsFiniteSet(S), S # {}
  PROVE  Latest(S) \in S
<1> DEFINE order == {p \in S \X S : Before(p[2], p[1])}
<1>1. \A a, b \in S : a # b => <<a, b>> \in order \/ <<b, a>> \in order
  BY BeforeIsTotal
<1>2. \A a, b, c \in S : <<a, b>> \in order /\ <<b, c>> \in order => <<a, c>> \in order
  BY BeforeIsTransitive
<1>3. \A a, b \in S : <<a, b>> \in order => Before(b, a)
  OBVIOUS
<1> HIDE DEF order
<1>4. PICK a \in S : \A b \in S \ {a} : <<a, b>> \in order
  BY <1>1, <1>2, FirstExists
<1>5. \A b \in S \ {a} : Before(b, a)
  BY <1>3, <1>4
<1> QED
  BY <1>5 DEF Latest

FirstPair(p, q) == Before(p[1], q[1]) \/ (p[1] = q[1] /\ Before(p[2], q[2]))

(* The pair canonicalize() joins is one that can be joined.                *)
LEMMA FirstOfIsIn ==
  ASSUME NEW S, S \subseteq Rect, IsFiniteSet(S), Joinable(S) # {}
  PROVE  FirstOf(Joinable(S)) \in Joinable(S)
<1> DEFINE J == Joinable(S)
           order == {p \in J \X J : FirstPair(p[1], p[2])}
<1>1. IsFiniteSet(J)
  <2>1. IsFiniteSet(S \X S)
    BY FS_Product
  <2>2. J \in SUBSET (S \X S)
    BY DEF Joinable
  <2> QED
    BY <2>1, <2>2, FS_Subset
<1>2. \A p \in J : p[1] \in Rect /\ p[2] \in Rect /\ p = <<p[1], p[2]>>
  BY DEF Joinable
<1>3. \A p, q \in J : p # q => <<p, q>> \in order \/ <<q, p>> \in order
  <2> SUFFICES ASSUME NEW p \in J, NEW q \in J, p # q PROVE FirstPair(p, q) \/ FirstPair(q, p)
    OBVIOUS
  <2>1. p[1] # q[1] \/ p[2] # q[2]
    BY <1>2
  <2> QED
    BY <1>2, <2>1, BeforeIsTotal DEF FirstPair
<1>4. \A p, q, s \in J : <<p, q>> \in order /\ <<q, s>> \in order => <<p, s>> \in order
  <2> SUFFICES ASSUME NEW p \in J, NEW q \in J, NEW s \in J, FirstPair(p, q), FirstPair(q, s)
               PROVE  FirstPair(p, s)
    OBVIOUS
  <2> QED
    BY <1>2, BeforeIsTransitive DEF FirstPair
<1>5. \A p, q \in J : <<p, q>> \in order => FirstPair(p, q)
  OBVIOUS
<1> HIDE DEF order, J
<1>6. J # {}
  BY DEF J
<1>7. PICK p \in J : \A q \in J \ {p} : <<p, q>> \in order
  BY <1>1, <1>3, <1>4, <1>6, FirstExists
<1>8. \A q \in J \ {p} : FirstPair(p, q)
  BY <1>5, <1>7
<1> QED
  BY <1>8 DEF J, FirstOf, FirstPair

(* Two rectangles that join have the pixels of the rectangle they make.    *)
LEMMA JoinPixels ==
  ASSUME NEW a \in Solid, NEW b \in Solid, Joins(a, b)
  PROVE  /\ Join(a, b) \in Solid
         /\ \A x, y \in Int : HasPixel(Join(a, b), x, y)
                <=> HasPixel(a, x, y) \/ HasPixel(b, x, y)
<1>1. /\ a.top \in Int /\ a.left \in Int /\ a.bottom \in Int /\ a.right \in Int
      /\ b.top \in Int /\ b.left \in Int /\ b.bottom \in Int /\ b.right \in Int
      /\ a.left < a.right /\ a.top < a.bottom /\ b.left < b.right /\ b.top < b.bottom
  BY DEF Solid, Rect, Empty, Valid
<1>2. Join(a, b) \in Solid
  BY <1>1 DEF Join, Joins, R, Solid, Rect, Empty, Valid
<1>3. ASSUME NEW x \in Int, NEW y \in Int
      PROVE  HasPixel(Join(a, b), x, y) <=> HasPixel(a, x, y) \/ HasPixel(b, x, y)
  BY <1>1 DEF Join, Joins, R, HasPixel, Empty, Valid
<1> QED
  BY <1>2, <1>3

(* One step of canonicalize() changes no pixel.                            *)
LEMMA JoinedOncePixels ==
  ASSUME NEW S \in Regions
  PROVE  JoinedOnce(S) \in Regions /\ SamePixels(JoinedOnce(S), S)
<1>1. CASE Joinable(S) = {}
  BY <1>1 DEF JoinedOnce, SamePixels
<1>2. CASE Joinable(S) # {}
  <2> DEFINE p == FirstOf(Joinable(S))
  <2>1. p \in Joinable(S)
    BY <1>2, FirstOfIsIn DEF Regions, Solid
  <2>2. p[1] \in S /\ p[2] \in S /\ Joins(p[1], p[2]) /\ p[1] \in Solid /\ p[2] \in Solid
    BY <2>1 DEF Joinable, Regions
  <2>3. JoinedOnce(S) = (S \ {p[1], p[2]}) \cup {Join(p[1], p[2])}
    BY <1>2 DEF JoinedOnce, Joined
  <2> HIDE DEF p
  <2>4. JoinedOnce(S) \subseteq Solid
    BY <2>2, <2>3, JoinPixels DEF Regions
  <2>5. IsFiniteSet(JoinedOnce(S))
    <3>1. IsFiniteSet(S \ {p[1], p[2]})
      BY FS_Subset DEF Regions
    <3> QED
      BY <2>3, <3>1, FS_AddElement
  <2>6. ASSUME NEW x \in Int, NEW y \in Int
        PROVE  Fills(JoinedOnce(S), x, y) <=> Fills(S, x, y)
    <3>1. HasPixel(Join(p[1], p[2]), x, y) <=> HasPixel(p[1], x, y) \/ HasPixel(p[2], x, y)
      BY <2>2, JoinPixels
    <3> QED
      BY <2>2, <2>3, <3>1 DEF Fills
  <2> QED
    BY <2>4, <2>5, <2>6 DEF Regions, SamePixels
<1> QED
  BY <1>1, <1>2

(* canonicalize() as a fold: one step for each rectangle.                  *)
CanonicalFrom(S, iter) ==
  [T \in SUBSET S |-> IF T = {} THEN S ELSE JoinedOnce(iter[T \ {CHOOSE r \in T : TRUE}])]

(* canonicalize() changes no pixel.                                        *)
LEMMA CanonicalPixels ==
  ASSUME NEW S \in Regions
  PROVE  Canonical(S) \in Regions /\ SamePixels(Canonical(S), S)
<1> DEFINE iter == CHOOSE f : f = CanonicalFrom(S, f)
           pick == [T \in SUBSET S |-> CHOOSE r \in T : TRUE]
           step == [p \in S \X Regions |-> JoinedOnce(p[2])]
<1>1. Canonical(S) = iter[S]
  BY DEF Canonical, FoldSet, MapThenFoldSet, CanonicalFrom
<1>2. IsFiniteSet(S)
  BY DEF Regions
<1>3. step \in [S \X Regions -> Regions]
  BY JoinedOncePixels
<1>4. \A T \in SUBSET S : pick[T] = CHOOSE r \in T : TRUE
  OBVIOUS
<1>5. \A T \in SUBSET S : T # {} => pick[T] \in T
  BY <1>4
<1>6. \A r \in S : \A T \in Regions : step[<<r, T>>] = JoinedOnce(T)
  OBVIOUS
<1> HIDE DEF pick, step
<1>7. PICK f \in [SUBSET S -> Regions] : IsFold(f, SUBSET S, pick, S, step)
  BY <1>2, <1>3, <1>5, FoldExists
<1>8. f = CanonicalFrom(S, f)
  <2>1. ASSUME NEW T \in SUBSET S, T # {}
        PROVE  f[T] = JoinedOnce(f[T \ {CHOOSE r \in T : TRUE}])
    <3>1. T \ {pick[T]} \in SUBSET S /\ pick[T] \in S
      BY <2>1, <1>5
    <3>2. f[T \ {pick[T]}] \in Regions
      BY <3>1
    <3>3. f[T] = step[<<pick[T], f[T \ {pick[T]}]>>]
      BY <2>1, <1>7 DEF IsFold
    <3>4. f[T] = JoinedOnce(f[T \ {pick[T]}])
      BY <1>6, <3>1, <3>2, <3>3
    <3> QED
      BY <1>4, <3>4
  <2>2. f[{}] = S
    BY <1>7 DEF IsFold
  <2> QED
    BY <2>1, <2>2 DEF CanonicalFrom
<1>9. iter = CanonicalFrom(S, iter)
  BY <1>8
<1> HIDE DEF iter
<1> DEFINE G == {T \in SUBSET S : iter[T] \in Regions /\ SamePixels(iter[T], S)}
<1>10. {} \in G
  BY <1>9 DEF CanonicalFrom, SamePixels
<1>11. ASSUME NEW T \in SUBSET S, T # {}, T \ {CHOOSE r \in T : TRUE} \in G PROVE T \in G
  <2>1. iter[T] = JoinedOnce(iter[T \ {CHOOSE r \in T : TRUE}])
    BY <1>9, <1>11 DEF CanonicalFrom
  <2> QED
    BY <1>11, <2>1, JoinedOncePixels DEF SamePixels
<1>12. ASSUME NEW T \in SUBSET S, T # {}
       PROVE  \E x \in T : T \ {x} \in G => T \in G
  BY <1>11, <1>12
<1> HIDE DEF G
<1>13. S \in G
  BY <1>2, <1>10, <1>12, SetInduction
<1> QED
  BY <1>1, <1>13 DEF G

-----------------------------------------------------------------------------
(* Subtraction and union of regions                                        *)

(* subtract_rectangle() leaves the pixels that are not the blocker's.      *)
LEMMA MinusPixels ==
  ASSUME NEW r \in Solid, NEW b \in Solid
  PROVE  /\ Minus(r, b) \in Regions
         /\ \A x, y \in Int : Fills(Minus(r, b), x, y)
                <=> HasPixel(r, x, y) /\ ~ HasPixel(b, x, y)
<1>1. /\ r.top \in Int /\ r.left \in Int /\ r.bottom \in Int /\ r.right \in Int
      /\ b.top \in Int /\ b.left \in Int /\ b.bottom \in Int /\ b.right \in Int
      /\ r.left < r.right /\ r.top < r.bottom /\ b.left < b.right /\ b.top < b.bottom
  BY DEF Solid, Rect, Empty, Valid
<1>2. CASE ~ Intersects(r, b)
  <2>1. Minus(r, b) = {r}
    BY <1>2 DEF Minus
  <2>2. {r} \in Regions
    BY FS_Singleton DEF Regions
  <2>3. ASSUME NEW x \in Int, NEW y \in Int
        PROVE  HasPixel(r, x, y) => ~ HasPixel(b, x, y)
    BY <1>1, <1>2 DEF HasPixel, Intersects, Empty, Valid
  <2> QED
    BY <2>1, <2>2, <2>3 DEF Fills
<1>3. CASE Intersects(r, b)
  <2> DEFINE o == Intersection(r, b)
             s1 == R(r.left, r.top, r.right, o.top)
             s2 == R(r.left, o.bottom, r.right, r.bottom)
             s3 == R(r.left, o.top, o.left, o.bottom)
             s4 == R(o.right, o.top, r.right, o.bottom)
  <2>1. Minus(r, b) = {s \in {s1, s2, s3, s4} : ~ Empty(s)}
    BY <1>3 DEF Minus
  <2>2. /\ o.top \in Int /\ o.left \in Int /\ o.bottom \in Int /\ o.right \in Int
        /\ r.left <= o.left /\ o.left < o.right /\ o.right <= r.right
        /\ r.top <= o.top /\ o.top < o.bottom /\ o.bottom <= r.bottom
    BY <1>1, <1>3 DEF Intersection, Intersects, R, Upper, Lower
  <2>3. ASSUME NEW x \in Int, NEW y \in Int, HasPixel(r, x, y)
        PROVE  HasPixel(b, x, y) <=> o.left <= x /\ x < o.right /\ o.top <= y /\ y < o.bottom
    BY <1>1, <2>3 DEF HasPixel, Intersection, R, Upper, Lower, Empty, Valid
  <2> HIDE DEF o
  <2>4. s1 \in Rect /\ s2 \in Rect /\ s3 \in Rect /\ s4 \in Rect
    BY <1>1, <2>2 DEF R, Rect
  <2>5. ASSUME NEW x \in Int, NEW y \in Int
        PROVE  (HasPixel(s1, x, y) \/ HasPixel(s2, x, y) \/ HasPixel(s3, x, y)
                   \/ HasPixel(s4, x, y))
               <=> (HasPixel(r, x, y) /\ ~ (o.left <= x /\ x < o.right /\ o.top <= y
                     /\ y < o.bottom))
    BY <1>1, <2>2 DEF HasPixel, R, Empty, Valid
  <2> HIDE DEF s1, s2, s3, s4
  <2>6. Minus(r, b) \subseteq Solid
    BY <2>1, <2>4 DEF Solid
  <2>7. IsFiniteSet(Minus(r, b))
    <3>1. IsFiniteSet({s1, s2, s3, s4})
      <4>1. IsFiniteSet({s1})
        BY FS_Singleton
      <4>3. IsFiniteSet({s1} \cup {s2})
        BY <4>1, FS_AddElement
      <4>4. IsFiniteSet(({s1} \cup {s2}) \cup {s3})
        BY <4>3, FS_AddElement
      <4>5. IsFiniteSet((({s1} \cup {s2}) \cup {s3}) \cup {s4})
        BY <4>4, FS_AddElement
      <4>2. {s1, s2, s3, s4} = (({s1} \cup {s2}) \cup {s3}) \cup {s4}
        OBVIOUS
      <4> QED
        BY <4>2, <4>5
    <3>2. Minus(r, b) \in SUBSET {s1, s2, s3, s4}
      BY <2>1
    <3> QED
      BY <3>1, <3>2, FS_Subset
  <2>8. ASSUME NEW x \in Int, NEW y \in Int
        PROVE  Fills(Minus(r, b), x, y) <=>
               (HasPixel(s1, x, y) \/ HasPixel(s2, x, y) \/ HasPixel(s3, x, y)
                     \/ HasPixel(s4, x, y))
    <3>1. \A s : HasPixel(s, x, y) => ~ Empty(s)
      BY DEF HasPixel
    <3> QED
      BY <2>1, <3>1 DEF Fills
  <2> QED
    BY <2>3, <2>5, <2>6, <2>7, <2>8 DEF Regions, HasPixel
<1> QED
  BY <1>2, <1>3

(* What the operations of regions answer.                                  *)
Answers == [ok : BOOLEAN, parts : Regions]

LEMMA EmptyRegion == {} \in Regions
BY FS_EmptySet DEF Regions

(* A region within the limit has the pixels it was made from.              *)
LEMMA MadePixels ==
  ASSUME NEW S \in Regions
  PROVE  Made(S) \in Answers /\ (Made(S).ok => SamePixels(Made(S).parts, S))
<1>1. Canonical(S) \in Regions /\ SamePixels(Canonical(S), S)
  BY CanonicalPixels
<1>2. Made(S) = TooComplex \/ Made(S) = [ok |-> TRUE, parts |-> Canonical(S)]
  BY DEF Made, Bounded
<1>3. CASE Made(S) = TooComplex
  BY <1>3, EmptyRegion DEF TooComplex, Answers
<1>4. CASE Made(S) = [ok |-> TRUE, parts |-> Canonical(S)]
  <2>1. Made(S).parts = Canonical(S)
    BY <1>4
  <2>2. [ok |-> TRUE, parts |-> Canonical(S)] \in Answers
    BY <1>1 DEF Answers
  <2> QED
    BY <1>1, <1>4, <2>1, <2>2
<1> QED
  BY <1>2, <1>3, <1>4

(* One blocker is taken away from every rectangle. *)
Cleared(S, b) == UNION {Minus(r, b) : r \in S}

(* The blocker's pixels are gone from all rectangles.                      *)
LEMMA ClearedPixels ==
  ASSUME NEW S \in Regions, NEW b \in Solid
  PROVE  /\ Cleared(S, b) \in Regions
         /\ \A x, y \in Int : Fills(Cleared(S, b), x, y) <=> Fills(S, x, y) /\ ~ HasPixel(b, x, y)
<1>1. \A r \in S : r \in Solid
  BY DEF Regions
<1>2. IsFiniteSet(Cleared(S, b))
  <2> DEFINE f == [r \in S |-> Minus(r, b)]
             T == {Minus(r, b) : r \in S}
  <2>1. f \in Surjection(S, T)
    BY DEF Surjection
  <2>2. IsFiniteSet(T)
    BY <2>1, FS_Surjection DEF Regions
  <2>3. \A U \in T : IsFiniteSet(U)
    BY <1>1, MinusPixels DEF Regions
  <2> QED
    BY <2>2, <2>3, FS_UNION DEF Cleared
<1>3. Cleared(S, b) \subseteq Solid
  BY <1>1, MinusPixels DEF Cleared, Regions
<1>4. ASSUME NEW x \in Int, NEW y \in Int
      PROVE  Fills(Cleared(S, b), x, y) <=> Fills(S, x, y) /\ ~ HasPixel(b, x, y)
  <2>1. Fills(Cleared(S, b), x, y) <=> \E r \in S : Fills(Minus(r, b), x, y)
    BY DEF Fills, Cleared
  <2>2. \A r \in S : Fills(Minus(r, b), x, y) <=> HasPixel(r, x, y) /\ ~ HasPixel(b, x, y)
    BY <1>1, MinusPixels
  <2> QED
    BY <2>1, <2>2 DEF Fills
<1> QED
  BY <1>2, <1>3, <1>4 DEF Regions

(* One step of subtract_rectangles().                                      *)
Less(left, b) == IF left.ok THEN Made(Cleared(left.parts, b)) ELSE left

LEMMA LessPixels ==
  ASSUME NEW left \in Answers, NEW b \in Solid
  PROVE  /\ Less(left, b) \in Answers
         /\ Less(left, b).ok =>
              /\ left.ok
              /\ \A x, y \in Int : Fills(Less(left, b).parts, x, y)
                                     <=> Fills(left.parts, x, y) /\ ~ HasPixel(b, x, y)
<1>1. CASE ~ left.ok
  BY <1>1 DEF Less
<1>2. CASE left.ok
  <2>1. left.parts \in Regions
    BY DEF Answers
  <2>2. Cleared(left.parts, b) \in Regions
    BY <2>1, ClearedPixels
  <2>3. Less(left, b) = Made(Cleared(left.parts, b))
    BY <1>2 DEF Less
  <2>4. Less(left, b) \in Answers
    BY <2>2, <2>3, MadePixels
  <2>5. ASSUME Less(left, b).ok, NEW x \in Int, NEW y \in Int
        PROVE  Fills(Less(left, b).parts, x, y) <=> Fills(left.parts, x, y) /\ ~ HasPixel(b, x, y)
    <3>1. SamePixels(Less(left, b).parts, Cleared(left.parts, b))
      BY <2>2, <2>3, <2>5, MadePixels
    <3>2. Fills(Less(left, b).parts, x, y) <=> Fills(Cleared(left.parts, b), x, y)
      BY <3>1 DEF SamePixels
    <3>3. Fills(Cleared(left.parts, b), x, y) <=> Fills(left.parts, x, y) /\ ~ HasPixel(b, x, y)
      BY <2>1, ClearedPixels
    <3> QED
      BY <3>2, <3>3
  <2> QED
    BY <1>2, <2>4, <2>5
<1> QED
  BY <1>1, <1>2

(* subtract_rectangles() as a fold over the blockers.                      *)
SubtractionFrom(pieces, blockers, iter) ==
  [T \in SUBSET blockers |->
     IF T = {} THEN Made(pieces) ELSE Less(iter[T \ {Latest(T)}], Latest(T))]

(* subtract_rectangles() leaves the pixels no blocker has.                 *)
LEMMA SubtractAllPixels ==
  ASSUME NEW pieces \in Regions, NEW blockers \in Regions
  PROVE  /\ SubtractAll(pieces, blockers) \in Answers
         /\ SubtractAll(pieces, blockers).ok =>
              \A x, y \in Int : Fills(SubtractAll(pieces, blockers).parts, x, y)
                                  <=> Fills(pieces, x, y) /\ ~ Fills(blockers, x, y)
<1> DEFINE iter == CHOOSE f : f = SubtractionFrom(pieces, blockers, f)
           pick == [T \in SUBSET blockers |-> Latest(T)]
           step == [p \in blockers \X Answers |-> Less(p[2], p[1])]
<1>1. SubtractAll(pieces, blockers) = iter[blockers]
  BY DEF SubtractAll, MapThenFoldSet, SubtractionFrom, Less, Cleared
<1>2. IsFiniteSet(blockers) /\ blockers \subseteq Solid /\ Solid \subseteq Rect
  BY DEF Regions, Solid
<1>3. step \in [blockers \X Answers -> Answers]
  BY <1>2, LessPixels
<1>4. \A T \in SUBSET blockers : pick[T] = Latest(T)
  OBVIOUS
<1>5. ASSUME NEW T \in SUBSET blockers, T # {} PROVE Latest(T) \in T
  <2>1. T \subseteq Rect /\ IsFiniteSet(T)
    BY <1>2, FS_Subset
  <2> QED
    BY <1>5, <2>1, LatestIsIn
<1>6. \A b \in blockers : \A S \in Answers : step[<<b, S>>] = Less(S, b)
  OBVIOUS
<1>7. Made(pieces) \in Answers
  BY MadePixels
<1> HIDE DEF pick, step
<1>8. \A T \in SUBSET blockers : T # {} => pick[T] \in T
  BY <1>4, <1>5
<1>9. PICK f \in [SUBSET blockers -> Answers] :
        IsFold(f, SUBSET blockers, pick, Made(pieces), step)
  BY <1>2, <1>3, <1>7, <1>8, FoldExists
<1>10. f = SubtractionFrom(pieces, blockers, f)
  <2>1. ASSUME NEW T \in SUBSET blockers, T # {}
        PROVE  f[T] = Less(f[T \ {Latest(T)}], Latest(T))
    <3>1. T \ {pick[T]} \in SUBSET blockers /\ pick[T] \in blockers
      BY <2>1, <1>8
    <3>2. f[T \ {pick[T]}] \in Answers
      BY <3>1
    <3>3. f[T] = step[<<pick[T], f[T \ {pick[T]}]>>]
      BY <2>1, <1>9 DEF IsFold
    <3>4. f[T] = Less(f[T \ {pick[T]}], pick[T])
      BY <1>6, <3>1, <3>2, <3>3
    <3> QED
      BY <1>4, <3>4
  <2>2. f[{}] = Made(pieces)
    BY <1>9 DEF IsFold
  <2> QED
    BY <2>1, <2>2 DEF SubtractionFrom
<1>11. iter = SubtractionFrom(pieces, blockers, iter)
  BY <1>10
<1> HIDE DEF iter
<1> DEFINE Right(T) ==
             /\ iter[T] \in Answers
             /\ iter[T].ok => \A x, y \in Int : Fills(iter[T].parts, x, y)
                                                  <=> Fills(pieces, x, y) /\ ~ Fills(T, x, y)
           G == {T \in SUBSET blockers : Right(T)}
<1>12. {} \in G
  <2>1. iter[{}] = Made(pieces)
    BY <1>11 DEF SubtractionFrom
  <2>2. \A x, y \in Int : ~ Fills({}, x, y)
    BY DEF Fills
  <2> QED
    BY <2>1, <2>2, MadePixels DEF SamePixels
<1>13. ASSUME NEW T \in SUBSET blockers, T # {}
       PROVE  \E b \in T : T \ {b} \in G => T \in G
  <2> DEFINE b == Latest(T)
             U == T \ {Latest(T)}
  <2>1. b \in T /\ b \in Solid
    BY <1>2, <1>5, <1>13
  <2>2. iter[T] = Less(iter[U], b)
    BY <1>11, <1>13 DEF SubtractionFrom
  <2>3. ASSUME U \in G PROVE Right(T)
    <3>1. iter[U] \in Answers
      BY <2>3
    <3>2. iter[T] \in Answers
      BY <2>1, <2>2, <3>1, LessPixels
    <3>3. ASSUME iter[T].ok, NEW x \in Int, NEW y \in Int
          PROVE  Fills(iter[T].parts, x, y) <=> Fills(pieces, x, y) /\ ~ Fills(T, x, y)
      <4>1. iter[U].ok /\ (Fills(iter[T].parts, x, y)
                <=> Fills(iter[U].parts, x, y) /\ ~ HasPixel(b, x, y))
        BY <2>1, <2>2, <3>1, <3>3, LessPixels
      <4>2. Fills(iter[U].parts, x, y) <=> Fills(pieces, x, y) /\ ~ Fills(U, x, y)
        BY <2>3, <4>1
      <4>3. Fills(T, x, y) <=> Fills(U, x, y) \/ HasPixel(b, x, y)
        BY <2>1 DEF Fills
      <4> QED
        BY <4>1, <4>2, <4>3
    <3> QED
      BY <3>2, <3>3
  <2> QED
    BY <2>1, <2>3
<1> HIDE DEF G
<1>14. blockers \in G
  BY <1>2, <1>12, <1>13, SetInduction
<1> QED
  BY <1>1, <1>14 DEF G

(* One step of unite().                                                    *)
Grown(sum, r) == IF sum.ok THEN Added(sum.parts, SubtractAll({r}, sum.parts)) ELSE sum

LEMMA UnionOfRegions ==
  ASSUME NEW S \in Regions, NEW T \in Regions
  PROVE  /\ S \cup T \in Regions
         /\ \A x, y \in Int : Fills(S \cup T, x, y) <=> Fills(S, x, y) \/ Fills(T, x, y)
<1>1. IsFiniteSet(S \cup T)
  BY FS_Union DEF Regions
<1> QED
  BY <1>1 DEF Regions, Fills

LEMMA OneRegion ==
  ASSUME NEW r \in Solid
  PROVE  {r} \in Regions /\ \A x, y : Fills({r}, x, y) <=> HasPixel(r, x, y)
BY FS_Singleton DEF Regions, Fills

(* One step of unite() adds the pixels of one rectangle.                   *)
LEMMA GrownPixels ==
  ASSUME NEW sum \in Answers, NEW r \in Solid
  PROVE  /\ Grown(sum, r) \in Answers
         /\ Grown(sum, r).ok =>
              /\ sum.ok
              /\ \A x, y \in Int : Fills(Grown(sum, r).parts, x, y)
                                     <=> Fills(sum.parts, x, y) \/ HasPixel(r, x, y)
<1>1. CASE ~ sum.ok
  BY <1>1 DEF Grown
<1>2. CASE sum.ok
  <2> DEFINE new == SubtractAll({r}, sum.parts)
  <2>1. sum.parts \in Regions /\ {r} \in Regions
    BY OneRegion DEF Answers
  <2>2. /\ new \in Answers
        /\ new.ok => \A x, y \in Int : Fills(new.parts, x, y)
               <=> HasPixel(r, x, y) /\ ~ Fills(sum.parts, x, y)
    BY <2>1, OneRegion, SubtractAllPixels
  <2>3. Grown(sum, r) = IF new.ok THEN Made(sum.parts \cup new.parts) ELSE new
    BY <1>2 DEF Grown, Added
  <2> HIDE DEF new
  <2>4. CASE ~ new.ok
    BY <2>2, <2>3, <2>4
  <2>5. CASE new.ok
    <3>1. new.parts \in Regions
      BY <2>2 DEF Answers
    <3>2. /\ sum.parts \cup new.parts \in Regions
          /\ \A x, y \in Int : Fills(sum.parts \cup new.parts, x, y)
                                 <=> Fills(sum.parts, x, y) \/ Fills(new.parts, x, y)
      BY <2>1, <3>1, UnionOfRegions
    <3>3. Grown(sum, r) = Made(sum.parts \cup new.parts)
      BY <2>3, <2>5
    <3>4. Grown(sum, r) \in Answers
      BY <3>2, <3>3, MadePixels
    <3>5. ASSUME Grown(sum, r).ok, NEW x \in Int, NEW y \in Int
          PROVE  Fills(Grown(sum, r).parts, x, y) <=> Fills(sum.parts, x, y) \/ HasPixel(r, x, y)
      <4>1. SamePixels(Grown(sum, r).parts, sum.parts \cup new.parts)
        BY <3>2, <3>3, <3>5, MadePixels
      <4>2. Fills(Grown(sum, r).parts, x, y) <=> Fills(sum.parts \cup new.parts, x, y)
        BY <4>1 DEF SamePixels
      <4> QED
        BY <2>2, <2>5, <3>2, <4>2
    <3> QED
      BY <1>2, <3>4, <3>5
  <2> QED
    BY <2>4, <2>5
<1> QED
  BY <1>1, <1>2

(* unite() as a fold over the rectangles of the right operand.             *)
UnionFrom(S, T, iter) ==
  [U \in SUBSET T |-> IF U = {} THEN [ok |-> TRUE, parts |-> S]
                      ELSE Grown(iter[U \ {Latest(U)}], Latest(U))]

LEMMA LatestOfOne ==
  ASSUME NEW r
  PROVE  Latest({r}) = r
BY DEF Latest

(* unite() has the pixels of both operands.                                *)
LEMMA UnitePixels ==
  ASSUME NEW S \in Regions, NEW r \in Solid
  PROVE  /\ Unite(S, {r}) \in Answers
         /\ Unite(S, {r}).ok =>
              \A x, y \in Int : Fills(Unite(S, {r}).parts, x, y)
                    <=> Fills(S, x, y) \/ HasPixel(r, x, y)
<1> DEFINE base == [ok |-> TRUE, parts |-> S]
           iter == CHOOSE f : f = UnionFrom(S, {r}, f)
           g == [U \in SUBSET {r} |-> IF U = {} THEN base ELSE Grown(base, r)]
<1>1. Unite(S, {r}) = iter[{r}]
  BY DEF Unite, MapThenFoldSet, UnionFrom, Grown
<1>2. \A U \in SUBSET {r} : U = {} \/ U = {r}
  OBVIOUS
<1>3. g = UnionFrom(S, {r}, g)
  <2>1. ASSUME NEW U \in SUBSET {r}
        PROVE  g[U] = IF U = {} THEN base ELSE Grown(g[U \ {Latest(U)}], Latest(U))
    <3>1. CASE U = {}
      BY <3>1
    <3>2. CASE U = {r}
      <4>1. Latest(U) = r /\ U \ {r} = {}
        BY <3>2, LatestOfOne
      <4>2. g[{}] = base /\ g[{r}] = Grown(base, r)
        OBVIOUS
      <4> QED
        BY <3>2, <4>1, <4>2
    <3> QED
      BY <1>2, <3>1, <3>2
  <2> QED
    BY <2>1 DEF UnionFrom
<1>4. iter = UnionFrom(S, {r}, iter)
  BY <1>3
<1> HIDE DEF iter
<1>5. iter[{r}] = Grown(base, r)
  <2>1. iter[{}] = base
    BY <1>4 DEF UnionFrom
  <2>2. iter[{r}] = Grown(iter[{r} \ {Latest({r})}], Latest({r}))
    BY <1>4 DEF UnionFrom
  <2>3. {r} \ {Latest({r})} = {}
    BY LatestOfOne
  <2> QED
    BY <2>1, <2>2, <2>3, LatestOfOne
<1>6. base \in Answers
  BY DEF Answers
<1>7. base.parts = S
  OBVIOUS
<1> HIDE DEF base
<1>8. Unite(S, {r}) = Grown(base, r)
  BY <1>1, <1>5
<1>9. /\ Grown(base, r) \in Answers
      /\ Grown(base, r).ok =>
           \A x, y \in Int : Fills(Grown(base, r).parts, x, y)
                                <=> Fills(base.parts, x, y) \/ HasPixel(r, x, y)
  BY <1>6, GrownPixels
<1> QED
  BY <1>7, <1>8, <1>9, Zenon

-----------------------------------------------------------------------------
(* The windows in front                                                    *)

(* A layout is a finite sequence of windows.                               *)
LEMMA LayoutType ==
  ASSUME NEW windows \in Seq(LayoutWindow)
  PROVE  /\ Len(windows) \in Nat /\ DOMAIN windows = 1..Len(windows)
         /\ IsFiniteSet(DOMAIN windows)
         /\ \A i \in DOMAIN windows :
              /\ windows[i] \in LayoutWindow
              /\ windows[i].visual \in Rect /\ windows[i].work \in Rect /\ windows[i].z \in Int
<1>1. Len(windows) \in Nat /\ DOMAIN windows = 1..Len(windows)
  BY LenProperties
<1>2. IsFiniteSet(1..Len(windows))
  BY <1>1, FS_Interval
<1>3. \A i \in DOMAIN windows : windows[i] \in LayoutWindow
  BY <1>1, ElementOfSeq
<1>4. \A w \in LayoutWindow : w.visual \in Rect /\ w.work \in Rect /\ w.z \in Int
  BY DEF LayoutWindow
<1> QED
  BY <1>1, <1>2, <1>3, <1>4

(* A finite set of numbers has a last and a first element.                 *)
LEMMA LastExists ==
  ASSUME NEW S, S \subseteq Int, IsFiniteSet(S), S # {}
  PROVE  /\ (CHOOSE j \in S : \A k \in S : k <= j) \in S
         /\ (CHOOSE j \in S : \A k \in S : j <= k) \in S
         /\ \A k \in S : (CHOOSE j \in S : \A n \in S : j <= n) <= k
         /\ Max(S) \in S
         /\ Min(S) \in S /\ \A k \in S : Min(S) <= k
<1> DEFINE up == {p \in S \X S : p[1] <= p[2]}
           down == {p \in S \X S : p[2] <= p[1]}
<1>1. /\ \A a, b \in S : a # b => <<a, b>> \in up \/ <<b, a>> \in up
      /\ \A a, b, c \in S : <<a, b>> \in up /\ <<b, c>> \in up => <<a, c>> \in up
      /\ \A a, b \in S : <<a, b>> \in up => a <= b
  OBVIOUS
<1>2. /\ \A a, b \in S : a # b => <<a, b>> \in down \/ <<b, a>> \in down
      /\ \A a, b, c \in S : <<a, b>> \in down /\ <<b, c>> \in down => <<a, c>> \in down
      /\ \A a, b \in S : <<a, b>> \in down => b <= a
  OBVIOUS
<1> HIDE DEF up, down
<1>3. PICK a \in S : \A b \in S \ {a} : <<a, b>> \in up
  BY <1>1, FirstExists
<1>4. PICK z \in S : \A b \in S \ {z} : <<z, b>> \in down
  BY <1>2, FirstExists
<1>5. \E j \in S : \A k \in S : j <= k
  <2>1. ASSUME NEW k \in S PROVE a <= k
    <3>1. CASE k = a
      BY <3>1
    <3>2. CASE k # a
      BY <1>1, <1>3, <3>2
    <3> QED
      BY <3>1, <3>2
  <2> QED
    BY <2>1
<1>6. \E j \in S : \A k \in S : k <= j
  <2>1. ASSUME NEW k \in S PROVE k <= z
    <3>1. CASE k = z
      BY <3>1
    <3>2. CASE k # z
      BY <1>2, <1>4, <3>2
    <3> QED
      BY <3>1, <3>2
  <2> QED
    BY <2>1
<1>7. \E j \in S : \A k \in S : j >= k
  <2>1. \A j, k \in S : k <= j => j >= k
    OBVIOUS
  <2> QED
    BY <1>6, <2>1
<1>8. Max(S) \in S
  BY <1>7 DEF Max
<1>9. Min(S) \in S /\ \A k \in S : Min(S) <= k
  BY <1>5 DEF Min
<1> QED
  BY <1>5, <1>6, <1>8, <1>9

(* The window a fold over numbers takes first.                             *)
LastOf(S) == CHOOSE j \in S : \A k \in S : k <= j

(* Blockers are windows of the layout.                                     *)
LEMMA BlockersType ==
  ASSUME NEW windows \in Seq(LayoutWindow), NEW i \in DOMAIN windows
  PROVE  /\ Blockers(windows, i) \subseteq DOMAIN windows /\ IsFiniteSet(Blockers(windows, i))
         /\ DOMAIN windows \subseteq Int
         /\ \A j \in Blockers(windows, i) : windows[j].visual \in Solid
<1>1. Blockers(windows, i) \in SUBSET (DOMAIN windows)
  BY DEF Blockers
<1>2. \A j \in Blockers(windows, i) : ~ Empty(windows[j].visual)
  BY DEF Blockers, Intersects
<1>3. IsFiniteSet(Blockers(windows, i))
  BY <1>1, LayoutType, FS_Subset
<1> QED
  BY <1>1, <1>2, <1>3, LayoutType DEF Solid

(* One step of the union of the blockers.                                  *)
Sheltered(sum, r) == IF sum.ok THEN Unite(sum.parts, {r}) ELSE sum
Nothing == [ok |-> TRUE, parts |-> {}]

LEMMA ShelteredPixels ==
  ASSUME NEW sum \in Answers, NEW r \in Solid
  PROVE  /\ Sheltered(sum, r) \in Answers
         /\ Sheltered(sum, r).ok =>
              /\ sum.ok
              /\ \A x, y \in Int : Fills(Sheltered(sum, r).parts, x, y)
                                     <=> Fills(sum.parts, x, y) \/ HasPixel(r, x, y)
<1>1. CASE ~ sum.ok
  BY <1>1 DEF Sheltered
<1>2. CASE sum.ok
  <2>1. sum.parts \in Regions
    BY DEF Answers
  <2>2. Sheltered(sum, r) = Unite(sum.parts, {r})
    BY <1>2 DEF Sheltered
  <2>3. /\ Unite(sum.parts, {r}) \in Answers
        /\ Unite(sum.parts, {r}).ok =>
              \A x, y \in Int : Fills(Unite(sum.parts, {r}).parts, x, y)
                                  <=> Fills(sum.parts, x, y) \/ HasPixel(r, x, y)
    BY <2>1, UnitePixels
  <2> QED
    BY <1>2, <2>2, <2>3, Zenon
<1> QED
  BY <1>1, <1>2

(* The union of the blockers as a fold.                                    *)
CoveredFrom(windows, S, iter) ==
  [T \in SUBSET S |->
     IF T = {} THEN Nothing ELSE Sheltered(iter[T \ {LastOf(T)}], windows[LastOf(T)].visual)]

(* A pixel one of the windows in T is painted at.                          *)
Painted(windows, T, x, y) == \E j \in T : HasPixel(windows[j].visual, x, y)

(* The blockers of a window cover the pixels they are painted at.          *)
LEMMA CoveredPixels ==
  ASSUME NEW windows \in Seq(LayoutWindow), NEW i \in DOMAIN windows
  PROVE  /\ Covered(windows, i) \in Answers
         /\ Covered(windows, i).ok =>
              \A x, y \in Int : Fills(Covered(windows, i).parts, x, y)
                                  <=> Painted(windows, Blockers(windows, i), x, y)
<1> DEFINE S == Blockers(windows, i)
           iter == CHOOSE f : f = CoveredFrom(windows, S, f)
           pick == [T \in SUBSET S |-> LastOf(T)]
           step == [p \in S \X Answers |-> Sheltered(p[2], windows[p[1]].visual)]
<1>1. Covered(windows, i) = iter[S]
  BY DEF Covered, MapThenFoldSet, CoveredFrom, Sheltered, LastOf, Nothing
<1>2. IsFiniteSet(S) /\ S \subseteq Int /\ \A j \in S : windows[j].visual \in Solid
  BY BlockersType
<1> HIDE DEF S
<1>3. step \in [S \X Answers -> Answers]
  BY <1>2, ShelteredPixels
<1>4. \A T \in SUBSET S : pick[T] = LastOf(T)
  OBVIOUS
<1>5. ASSUME NEW T \in SUBSET S, T # {} PROVE LastOf(T) \in T
  <2>1. T \subseteq Int /\ IsFiniteSet(T)
    BY <1>2, FS_Subset
  <2> QED
    BY <1>5, <2>1, LastExists DEF LastOf
<1>6. \A j \in S : \A sum \in Answers : step[<<j, sum>>] = Sheltered(sum, windows[j].visual)
  OBVIOUS
<1>7. Nothing \in Answers
  BY EmptyRegion DEF Answers, Nothing
<1> HIDE DEF pick, step
<1>8. \A T \in SUBSET S : T # {} => pick[T] \in T
  BY <1>4, <1>5
<1>9. PICK f \in [SUBSET S -> Answers] : IsFold(f, SUBSET S, pick, Nothing, step)
  BY <1>2, <1>3, <1>7, <1>8, FoldExists
<1>10. f = CoveredFrom(windows, S, f)
  <2>1. ASSUME NEW T \in SUBSET S, T # {}
        PROVE  f[T] = Sheltered(f[T \ {LastOf(T)}], windows[LastOf(T)].visual)
    <3>1. T \ {pick[T]} \in SUBSET S /\ pick[T] \in S
      BY <2>1, <1>8
    <3>2. f[T \ {pick[T]}] \in Answers
      BY <3>1
    <3>3. f[T] = step[<<pick[T], f[T \ {pick[T]}]>>]
      BY <2>1, <1>9 DEF IsFold
    <3>4. f[T] = Sheltered(f[T \ {pick[T]}], windows[pick[T]].visual)
      BY <1>6, <3>1, <3>2, <3>3
    <3> QED
      BY <1>4, <3>4
  <2>2. f[{}] = Nothing
    BY <1>9 DEF IsFold
  <2> QED
    BY <2>1, <2>2 DEF CoveredFrom
<1>11. iter = CoveredFrom(windows, S, iter)
  BY <1>10
<1> HIDE DEF iter
<1> DEFINE Right(T) ==
             /\ iter[T] \in Answers
             /\ iter[T].ok => \A x, y \in Int : Fills(iter[T].parts, x, y)
                    <=> Painted(windows, T, x, y)
           G == {T \in SUBSET S : Right(T)}
<1>12. {} \in G
  <2>1. iter[{}] = Nothing
    BY <1>11 DEF CoveredFrom
  <2>2. \A x, y \in Int : ~ Fills(Nothing.parts, x, y) /\ ~ Painted(windows, {}, x, y)
    BY DEF Fills, Painted, Nothing
  <2> QED
    BY <2>1, <2>2, <1>7
<1>13. ASSUME NEW T \in SUBSET S, T # {}
       PROVE  \E j \in T : T \ {j} \in G => T \in G
  <2> DEFINE j == LastOf(T)
             r == windows[j].visual
             U == T \ {LastOf(T)}
  <2>1. j \in T /\ r \in Solid
    BY <1>2, <1>5, <1>13
  <2>2. iter[T] = Sheltered(iter[U], r)
    BY <1>11, <1>13 DEF CoveredFrom
  <2>3. ASSUME U \in G PROVE Right(T)
    <3>1. iter[U] \in Answers
      BY <2>3
    <3>2. iter[T] \in Answers
      BY <2>1, <2>2, <3>1, ShelteredPixels
    <3>3. ASSUME iter[T].ok, NEW x \in Int, NEW y \in Int
          PROVE  Fills(iter[T].parts, x, y) <=> Painted(windows, T, x, y)
      <4>1. iter[U].ok /\ (Fills(iter[T].parts, x, y)
                <=> Fills(iter[U].parts, x, y) \/ HasPixel(r, x, y))
        BY <2>1, <2>2, <3>1, <3>3, ShelteredPixels
      <4>2. Fills(iter[U].parts, x, y) <=> Painted(windows, U, x, y)
        BY <2>3, <4>1
      <4>3. Painted(windows, T, x, y) <=> Painted(windows, U, x, y) \/ HasPixel(r, x, y)
        BY <2>1 DEF Painted
      <4> QED
        BY <4>1, <4>2, <4>3
    <3> QED
      BY <3>2, <3>3
  <2> QED
    BY <2>1, <2>3
<1> HIDE DEF G
<1>14. S \in G
  BY <1>2, <1>12, <1>13, SetInduction
<1> QED
  BY <1>1, <1>14 DEF G, S

-----------------------------------------------------------------------------
(* What is exposed of a window                                             *)

(* A protected depth is a number.                                          *)
LEMMA DepthType ==
  ASSUME NEW w \in LayoutWindow, NEW e \in Edges, NEW g
  PROVE  Depth(w, e, g) \in Int
<1>1. w.visual \in Rect /\ w.dpi \in Nat /\ w.bar \in Nat
  BY DEF LayoutWindow
<1>2. Away(w.visual, e) \in Int
  BY <1>1, ExtentType DEF Away
<1>3. Rule[e].depth \in Nat
  BY RuleAssumption DEF EdgeRule
<1> DEFINE dpi == IF w.dpi = 0 THEN 96 ELSE w.dpi
           own == IF e = "Top" /\ w.bar > 0 THEN w.bar ELSE ScaleDip(Rule[e].depth, dpi)
<1>4. dpi \in Nat
  BY <1>1
<1>5. ScaleDip(Rule[e].depth, dpi) \in Int
  <2> HIDE DEF dpi
  <2>1. Rule[e].depth * dpi + 95 \in Int
    BY <1>3, <1>4
  <2> QED
    BY <2>1 DEF ScaleDip
<1>6. own \in Int
  BY <1>1, <1>5
<1> HIDE DEF own
<1>7. Lower(Away(w.visual, e), own) \in Int
  BY <1>2, <1>6, BoundsType
<1>8. EdgeDepth(w, e) = Lower(Away(w.visual, e), own)
  BY DEF EdgeDepth, own
<1> QED
  BY <1>7, <1>8, ProtectedHeightType DEF Depth

(* The region of a rectangle has its pixels.                               *)
LEMMA RegionOfType ==
  ASSUME NEW r \in Rect
  PROVE  /\ RegionOf(r) \in Regions
         /\ \A x, y \in Int : Fills(RegionOf(r), x, y) <=> HasPixel(r, x, y)
<1>1. CASE Empty(r)
  BY <1>1, EmptyRegion DEF RegionOf, Fills, HasPixel
<1>2. CASE ~ Empty(r)
  <2>1. r \in Solid
    BY <1>2 DEF Solid
  <2> QED
    BY <1>2, <2>1, OneRegion DEF RegionOf
<1> QED
  BY <1>1, <1>2

(* The intersection of two rectangles has the pixels of both.              *)
LEMMA IntersectionPixels ==
  ASSUME NEW r \in Rect, NEW s \in Rect
  PROVE  /\ Intersection(r, s) \in Rect
         /\ Intersects(r, s) => ~ Empty(Intersection(r, s))
         /\ ~ Empty(r) /\ ~ Empty(s) =>
              \A x, y \in Int : HasPixel(Intersection(r, s), x, y)
                                  <=> HasPixel(r, x, y) /\ HasPixel(s, x, y)
<1>1. /\ r.top \in Int /\ r.left \in Int /\ r.bottom \in Int /\ r.right \in Int
      /\ s.top \in Int /\ s.left \in Int /\ s.bottom \in Int /\ s.right \in Int
  BY DEF Rect
<1>2. Intersection(r, s) \in Rect
  BY <1>1 DEF Intersection, R, Rect, Upper, Lower
<1>3. Intersects(r, s) => ~ Empty(Intersection(r, s))
  BY <1>1 DEF Intersection, Intersects, Empty, Valid, R, Upper, Lower
<1>4. ASSUME ~ Empty(r), ~ Empty(s), NEW x \in Int, NEW y \in Int
      PROVE  HasPixel(Intersection(r, s), x, y) <=> HasPixel(r, x, y) /\ HasPixel(s, x, y)
  BY <1>1, <1>4 DEF Intersection, HasPixel, Empty, Valid, R, Upper, Lower
<1> QED
  BY <1>2, <1>3, <1>4

(* intersect() answers pixels of both regions.                             *)
LEMMA IntersectPixels ==
  ASSUME NEW S \in Regions, NEW T \in Regions
  PROVE  /\ Intersect(S, T) \in Answers
         /\ Intersect(S, T).ok =>
              \A x, y \in Int : Fills(Intersect(S, T).parts, x, y)
                    => Fills(S, x, y) /\ Fills(T, x, y)
<1> DEFINE pairs == {q \in S \X T : Intersects(q[1], q[2])}
           parts == {Intersection(p[1], p[2]) : p \in pairs}
<1>1. \A p \in pairs : p[1] \in S /\ p[2] \in T /\ p[1] \in Solid /\ p[2] \in Solid
          /\ Intersects(p[1], p[2])
  BY DEF Regions
<1>2. IsFiniteSet(pairs)
  <2>1. IsFiniteSet(S \X T)
    BY FS_Product DEF Regions
  <2>2. pairs \in SUBSET (S \X T)
    OBVIOUS
  <2> HIDE DEF pairs
  <2> QED
    BY <2>1, <2>2, FS_Subset
<1> HIDE DEF pairs
<1>3. IsFiniteSet(parts)
  <2> DEFINE f == [p \in pairs |-> Intersection(p[1], p[2])]
  <2>1. f \in Surjection(pairs, parts)
    BY DEF Surjection
  <2> HIDE DEF f, parts
  <2> QED
    BY <1>2, <2>1, FS_Surjection
<1>4. parts \subseteq Solid
  BY <1>1, IntersectionPixels DEF Solid
<1>5. parts \in Regions
  BY <1>3, <1>4 DEF Regions
<1>6. ASSUME NEW x \in Int, NEW y \in Int, Fills(parts, x, y)
      PROVE  Fills(S, x, y) /\ Fills(T, x, y)
  <2>1. PICK p \in pairs : HasPixel(Intersection(p[1], p[2]), x, y)
    BY <1>6 DEF Fills
  <2>2. HasPixel(p[1], x, y) /\ HasPixel(p[2], x, y)
    BY <1>1, <2>1, IntersectionPixels DEF Solid
  <2> QED
    BY <1>1, <2>2 DEF Fills
<1>7. Intersect(S, T) = Made(parts)
  BY DEF Intersect, pairs
<1> HIDE DEF parts
<1>8. Made(parts) \in Answers /\ (Made(parts).ok => SamePixels(Made(parts).parts, parts))
  BY <1>5, MadePixels
<1> QED
  BY <1>6, <1>7, <1>8 DEF SamePixels

(* What is exposed is on the screen, of the window and not covered.        *)
LEMMA ExposedPixels ==
  ASSUME NEW w \in LayoutWindow, NEW r \in Rect, NEW covered \in Regions
  PROVE  /\ Exposed(w, r, covered) \in Answers
         /\ Exposed(w, r, covered).ok =>
              \A x, y \in Int :
                Fills(Exposed(w, r, covered).parts, x, y)
                  => HasPixel(r, x, y) /\ HasPixel(w.work, x, y) /\ ~ Fills(covered, x, y)
<1> DEFINE onscreen == Intersect(RegionOf(r), RegionOf(w.work))
<1>1. w.work \in Rect
  BY DEF LayoutWindow
<1>2. /\ onscreen \in Answers
      /\ onscreen.ok =>
           \A x, y \in Int : Fills(onscreen.parts, x, y)
                 => HasPixel(r, x, y) /\ HasPixel(w.work, x, y)
  BY <1>1, RegionOfType, IntersectPixels
<1>3. Exposed(w, r, covered) = Uncovered(onscreen, covered)
  BY DEF Exposed
<1> HIDE DEF onscreen
<1>4. CASE ~ onscreen.ok
  BY <1>2, <1>3, <1>4 DEF Uncovered
<1>5. CASE onscreen.ok
  <2>1. Exposed(w, r, covered) = SubtractAll(onscreen.parts, covered)
    BY <1>3, <1>5 DEF Uncovered, Subtract
  <2>2. onscreen.parts \in Regions
    BY <1>2 DEF Answers
  <2>3. /\ SubtractAll(onscreen.parts, covered) \in Answers
        /\ SubtractAll(onscreen.parts, covered).ok =>
             \A x, y \in Int : Fills(SubtractAll(onscreen.parts, covered).parts, x, y)
                                 <=> Fills(onscreen.parts, x, y) /\ ~ Fills(covered, x, y)
    BY <2>2, SubtractAllPixels
  <2> QED
    BY <1>2, <1>5, <2>1, <2>3
<1> QED
  BY <1>4, <1>5

-----------------------------------------------------------------------------
(* Strips of the exposed parts                                             *)

(* A pixel that a window paints and no blocker covers is shown.            *)
LEMMA UncoveredIsShown ==
  ASSUME NEW windows \in Seq(LayoutWindow), NEW i \in DOMAIN windows,
         NEW x \in Int, NEW y \in Int,
         HasPixel(windows[i].visual, x, y), HasPixel(windows[i].work, x, y),
         ~ Painted(windows, Blockers(windows, i), x, y)
  PROVE  PixelShown(windows, i, x, y)
<1> SUFFICES ASSUME NEW j \in DOMAIN windows, RelevantBlocker(windows[i], windows[j]),
                    HasPixel(windows[j].visual, x, y)
             PROVE  FALSE
  BY DEF PixelShown
<1>1. j # i
  BY LayoutType DEF RelevantBlocker
<1>2. Intersects(windows[j].visual, windows[i].visual)
  <2>1. windows[i].visual \in Rect /\ windows[j].visual \in Rect
    BY LayoutType
  <2> QED
    BY <2>1 DEF Intersects, HasPixel, Rect
<1>3. j \in Blockers(windows, i)
  BY <1>1, <1>2 DEF Blockers
<1> QED
  BY <1>3 DEF Painted

(* A part of the window that can be seen as a whole.                       *)
ShownPart(windows, i, part) ==
  \A x, y \in Int : HasPixel(part, x, y) => HasPixel(windows[i].visual, x, y)
        /\ PixelShown(windows, i, x, y)

(* It lies along an edge and is long and deep enough.                      *)
Suffices(windows, i, e, g, part) ==
  /\ part \in Rect /\ ~ Empty(part)
  /\ Touches(part, windows[i].visual, e)
  /\ Along(part, e) >= Length(windows[i], e) /\ Away(part, e) >= Depth(windows[i], e, g)

(* A number of an interval lies in an interval around it.                  *)
LEMMA Between ==
  ASSUME NEW a \in Int, NEW b \in Int, NEW c \in Int, NEW d \in Int, a <= c, d <= b,
         NEW x \in c..(d - 1)
  PROVE  x \in Int /\ a <= x /\ x < b
OBVIOUS


(* A part that suffices holds a whole strip of the edge.                   *)
LEMMA PartIsStrip ==
  ASSUME NEW windows \in Seq(LayoutWindow), NEW i \in DOMAIN windows, NEW e \in Edges, NEW g,
         NEW part, ShownPart(windows, i, part), Suffices(windows, i, e, g, part)
  PROVE  StripAt(windows, i, e, g, IF Vertical(e) THEN part.top ELSE part.left)
<1> DEFINE r == windows[i].visual
           long == Length(windows[i], e)
           deep == Depth(windows[i], e, g)
           strip(s) == CASE e = "Left"   -> R(r.left, s, r.left + deep, s + long)
                         [] e = "Right"  -> R(r.right - deep, s, r.right, s + long)
                         [] e = "Top"    -> R(s, r.top, s + long, r.top + deep)
                         [] e = "Bottom" -> R(s, r.bottom - deep, s + long, r.bottom)
           start == IF Vertical(e) THEN part.top ELSE part.left
<1>1. r \in Rect /\ long \in Int /\ deep \in Int
  BY LayoutType, LengthType, DepthType
<1> HIDE DEF r, long, deep
<1>2. /\ r.left \in Int /\ r.right \in Int /\ r.top \in Int /\ r.bottom \in Int
      /\ part.left \in Int /\ part.right \in Int /\ part.top \in Int /\ part.bottom \in Int
      /\ part.left < part.right /\ part.top < part.bottom
  BY <1>1 DEF Rect, Empty, Valid, Suffices
<1>10. ~ Empty(part)
  BY DEF Suffices
<1>3. ASSUME NEW x \in Int, NEW y \in Int,
             part.left <= x, x < part.right, part.top <= y, y < part.bottom
      PROVE  /\ PixelShown(windows, i, x, y)
             /\ r.left <= x /\ x < r.right /\ r.top <= y /\ y < r.bottom
  <2>1. HasPixel(part, x, y)
    BY <1>3, <1>10 DEF HasPixel
  <2>2. PixelShown(windows, i, x, y) /\ HasPixel(r, x, y)
    BY <2>1 DEF ShownPart, r
  <2> QED
    BY <2>2 DEF HasPixel
<1>4. r.left <= part.left /\ part.right <= r.right /\ r.top <= part.top /\ part.bottom <= r.bottom
  <2>1. r.left <= part.left /\ r.top <= part.top
    BY <1>2, <1>3
  <2>2. part.right - 1 < r.right /\ part.bottom - 1 < r.bottom
    <3>1. /\ part.right - 1 \in Int /\ part.bottom - 1 \in Int
          /\ part.left <= part.right - 1 /\ part.right - 1 < part.right
          /\ part.top <= part.bottom - 1 /\ part.bottom - 1 < part.bottom
      BY <1>2
    <3> QED
      BY <1>3, <3>1
  <2> QED
    BY <1>2, <2>1, <2>2
<1>5. /\ Width(part) = part.right - part.left /\ Height(part) = part.bottom - part.top
  BY <1>2 DEF Width, Height, Valid
<1>6. /\ strip(start).left >= part.left /\ strip(start).right <= part.right
      /\ strip(start).top >= part.top /\ strip(start).bottom <= part.bottom
      /\ strip(start).left \in Int /\ strip(start).right \in Int
      /\ strip(start).top \in Int /\ strip(start).bottom \in Int
      /\ start \in Int
      /\ start \in (IF Vertical(e) THEN r.top..(r.bottom - long) ELSE r.left..(r.right - long))
  <2>1. Touches(part, r, e) /\ Along(part, e) >= long /\ Away(part, e) >= deep
    BY DEF r, long, deep, Suffices
  <2>2. CASE e = "Left"
    <3>1. start = part.top /\ strip(start) = R(r.left, part.top, r.left + deep, part.top + long)
      BY <2>2 DEF Vertical
    <3>2. part.left = r.left /\ part.bottom - part.top >= long /\ part.right - part.left >= deep
      BY <1>5, <2>1, <2>2 DEF Touches, Along, Away, Vertical
    <3>3. Vertical(e) <=> TRUE
      BY <2>2 DEF Vertical
    <3> HIDE DEF strip, start
    <3>4. /\ strip(start).left = r.left /\ strip(start).top = part.top
          /\ strip(start).right = r.left + deep /\ strip(start).bottom = part.top + long
      BY <3>1 DEF R
    <3>5. /\ strip(start).left \in Int /\ strip(start).right \in Int
          /\ strip(start).top \in Int /\ strip(start).bottom \in Int /\ start \in Int
      <4>1. r.left + deep \in Int /\ part.top + long \in Int
        BY <1>1, <1>2
      <4> QED
        BY <1>2, <3>1, <3>4, <4>1
    <3>6. /\ strip(start).left >= part.left /\ strip(start).right <= part.right
          /\ strip(start).top >= part.top /\ strip(start).bottom <= part.bottom
      BY <1>1, <1>2, <1>4, <3>2, <3>4
    <3>7. start \in r.top..(r.bottom - long)
      BY <1>1, <1>2, <1>4, <3>1, <3>2
    <3> QED
      BY <3>3, <3>5, <3>6, <3>7
  <2>3. CASE e = "Right"
    <3>1. start = part.top /\ strip(start) = R(r.right - deep, part.top, r.right, part.top + long)
      BY <2>3 DEF Vertical
    <3>2. part.right = r.right /\ part.bottom - part.top >= long /\ part.right - part.left >= deep
      BY <1>5, <2>1, <2>3 DEF Touches, Along, Away, Vertical
    <3>3. Vertical(e) <=> TRUE
      BY <2>3 DEF Vertical
    <3> HIDE DEF strip, start
    <3>4. /\ strip(start).left = r.right - deep /\ strip(start).top = part.top
          /\ strip(start).right = r.right /\ strip(start).bottom = part.top + long
      BY <3>1 DEF R
    <3>5. /\ strip(start).left \in Int /\ strip(start).right \in Int
          /\ strip(start).top \in Int /\ strip(start).bottom \in Int /\ start \in Int
      <4>1. r.right - deep \in Int /\ part.top + long \in Int
        BY <1>1, <1>2
      <4> QED
        BY <1>2, <3>1, <3>4, <4>1
    <3>6. /\ strip(start).left >= part.left /\ strip(start).right <= part.right
          /\ strip(start).top >= part.top /\ strip(start).bottom <= part.bottom
      BY <1>1, <1>2, <1>4, <3>2, <3>4
    <3>7. start \in r.top..(r.bottom - long)
      BY <1>1, <1>2, <1>4, <3>1, <3>2
    <3> QED
      BY <3>3, <3>5, <3>6, <3>7
  <2>4. CASE e = "Top"
    <3>1. start = part.left /\ strip(start) = R(part.left, r.top, part.left + long, r.top + deep)
      BY <2>4 DEF Vertical
    <3>2. part.top = r.top /\ part.right - part.left >= long /\ part.bottom - part.top >= deep
      BY <1>5, <2>1, <2>4 DEF Touches, Along, Away, Vertical
    <3>3. Vertical(e) <=> FALSE
      BY <2>4 DEF Vertical
    <3> HIDE DEF strip, start
    <3>4. /\ strip(start).left = part.left /\ strip(start).top = r.top
          /\ strip(start).right = part.left + long /\ strip(start).bottom = r.top + deep
      BY <3>1 DEF R
    <3>5. /\ strip(start).left \in Int /\ strip(start).right \in Int
          /\ strip(start).top \in Int /\ strip(start).bottom \in Int /\ start \in Int
      <4>1. part.left + long \in Int /\ r.top + deep \in Int
        BY <1>1, <1>2
      <4> QED
        BY <1>2, <3>1, <3>4, <4>1
    <3>6. /\ strip(start).left >= part.left /\ strip(start).right <= part.right
          /\ strip(start).top >= part.top /\ strip(start).bottom <= part.bottom
      BY <1>1, <1>2, <1>4, <3>2, <3>4
    <3>7. start \in r.left..(r.right - long)
      BY <1>1, <1>2, <1>4, <3>1, <3>2
    <3> QED
      BY <3>3, <3>5, <3>6, <3>7
  <2>5. CASE e = "Bottom"
    <3>1. start = part.left /\ strip(start)
              = R(part.left, r.bottom - deep, part.left + long, r.bottom)
      BY <2>5 DEF Vertical
    <3>2. part.bottom = r.bottom /\ part.right - part.left >= long
              /\ part.bottom - part.top >= deep
      BY <1>5, <2>1, <2>5 DEF Touches, Along, Away, Vertical
    <3>3. Vertical(e) <=> FALSE
      BY <2>5 DEF Vertical
    <3> HIDE DEF strip, start
    <3>4. /\ strip(start).left = part.left /\ strip(start).top = r.bottom - deep
          /\ strip(start).right = part.left + long /\ strip(start).bottom = r.bottom
      BY <3>1 DEF R
    <3>5. /\ strip(start).left \in Int /\ strip(start).right \in Int
          /\ strip(start).top \in Int /\ strip(start).bottom \in Int /\ start \in Int
      <4>1. r.bottom - deep \in Int /\ part.left + long \in Int
        BY <1>1, <1>2
      <4> QED
        BY <1>2, <3>1, <3>4, <4>1
    <3>6. /\ strip(start).left >= part.left /\ strip(start).right <= part.right
          /\ strip(start).top >= part.top /\ strip(start).bottom <= part.bottom
      BY <1>1, <1>2, <1>4, <3>2, <3>4
    <3>7. start \in r.left..(r.right - long)
      BY <1>1, <1>2, <1>4, <3>1, <3>2
    <3> QED
      BY <3>3, <3>5, <3>6, <3>7
  <2> QED
    BY <2>2, <2>3, <2>4, <2>5 DEF Edges
<1> DEFINE t == strip(start)
<1> HIDE DEF start
<1>7. ASSUME NEW x \in t.left..(t.right - 1), NEW y \in t.top..(t.bottom - 1)
      PROVE  PixelShown(windows, i, x, y)
  <2>2. /\ t.left >= part.left /\ t.right <= part.right /\ t.top >= part.top
               /\ t.bottom <= part.bottom
        /\ t.left \in Int /\ t.right \in Int /\ t.top \in Int /\ t.bottom \in Int
    BY <1>6
  <2>3. x \in t.left..(t.right - 1) /\ y \in t.top..(t.bottom - 1)
    BY <1>7
  <2> HIDE DEF t
  <2>4. x \in Int /\ part.left <= x /\ x < part.right
    BY <1>2, <2>2, <2>3, Between
  <2>5. y \in Int /\ part.top <= y /\ y < part.bottom
    BY <1>2, <2>2, <2>3, Between
  <2> QED
    BY <1>3, <2>4, <2>5
<1>8. start \in Starts(windows[i], e)
  BY <1>6 DEF Starts, start, r, long
<1>9. t = strip(start)
  OBVIOUS
<1> HIDE DEF t
<1> QED
  BY <1>7, <1>8, <1>9 DEF StripAt, r, long, deep, start

(* A strip of that length that starts at s lies within the bounds.          *)
Inside(bounds, e, s, long) ==
  IF Vertical(e) THEN bounds.top <= s /\ s < bounds.bottom /\ s + long <= bounds.bottom
  ELSE bounds.left <= s /\ s < bounds.right /\ s + long <= bounds.right

(* So the strip is shown.                                                  *)
LEMMA SegmentIsShown ==
  ASSUME NEW windows \in Seq(LayoutWindow), NEW i \in DOMAIN windows, NEW e \in Edges, NEW g,
         Covered(windows, i).ok, NEW zone \in Rect,
         \A x, y \in Int : HasPixel(zone, x, y) => HasPixel(windows[i].visual, x, y),
         Exposed(windows[i], zone, Covered(windows, i).parts).ok,
         NEW bounds \in Rect, Touches(bounds, windows[i].visual, e),
         HasSegment(Exposed(windows[i], zone, Covered(windows, i).parts).parts, bounds, e,
                    Length(windows[i], e), Depth(windows[i], e, g))
  PROVE  \E s \in Int : StripAt(windows, i, e, g, s) /\ Inside(bounds, e, s, Length(windows[i], e))
<1> DEFINE covered == Covered(windows, i).parts
           exposed == Exposed(windows[i], zone, covered)
<1>1. windows[i] \in LayoutWindow /\ windows[i].visual \in Rect
  BY LayoutType
<1>2. covered \in Regions
  BY CoveredPixels DEF Answers
<1>3. exposed.parts \in Regions
  BY <1>1, <1>2, ExposedPixels DEF Answers
<1>4. ASSUME NEW x \in Int, NEW y \in Int, Fills(exposed.parts, x, y)
      PROVE  /\ HasPixel(windows[i].visual, x, y) /\ HasPixel(windows[i].work, x, y)
             /\ ~ Painted(windows, Blockers(windows, i), x, y)
  <2>1. HasPixel(zone, x, y) /\ HasPixel(windows[i].work, x, y) /\ ~ Fills(covered, x, y)
    BY <1>1, <1>2, <1>4, ExposedPixels
  <2>2. Fills(covered, x, y) <=> Painted(windows, Blockers(windows, i), x, y)
    BY CoveredPixels
  <2> QED
    BY <2>1, <2>2
<1>5. PICK r \in exposed.parts :
        /\ ~ Empty(Intersection(r, bounds)) /\ Touches(Intersection(r, bounds), bounds, e)
        /\ Along(Intersection(r, bounds), e) >= Length(windows[i], e)
        /\ Away(Intersection(r, bounds), e) >= Depth(windows[i], e, g)
  BY DEF HasSegment
<1> DEFINE part == Intersection(r, bounds)
<1>6. r \in Rect /\ ~ Empty(r)
  BY <1>3 DEF Regions, Solid
<1>7. part \in Rect
  BY <1>6, IntersectionPixels
<1>8. ShownPart(windows, i, part)
  <2>1. ASSUME NEW x \in Int, NEW y \in Int, HasPixel(part, x, y)
        PROVE  HasPixel(r, x, y)
    BY <1>6, <2>1 DEF HasPixel, Intersection, R, Upper, Lower, Rect
  <2>2. ASSUME NEW x \in Int, NEW y \in Int, HasPixel(part, x, y)
        PROVE  HasPixel(windows[i].visual, x, y) /\ PixelShown(windows, i, x, y)
    <3>1. Fills(exposed.parts, x, y)
      BY <2>1, <2>2 DEF Fills
    <3> QED
      BY <1>4, <3>1, UncoveredIsShown
  <2> QED
    BY <2>2 DEF ShownPart
<1>9. Touches(part, windows[i].visual, e)
  BY <1>5 DEF Touches, Edges
<1>10. Suffices(windows, i, e, g, part)
  BY <1>5, <1>7, <1>9 DEF Suffices
<1> DEFINE s == IF Vertical(e) THEN part.top ELSE part.left
           long == Length(windows[i], e)
<1>11. StripAt(windows, i, e, g, s)
  BY <1>8, <1>10, PartIsStrip
<1>12. s \in Int /\ Inside(bounds, e, s, long)
  <2>1. long \in Int
    BY <1>1, LengthType
  <2>2. /\ bounds.left <= part.left /\ part.right <= bounds.right
        /\ bounds.top <= part.top /\ part.bottom <= bounds.bottom
    BY <1>6 DEF Intersection, R, Upper, Lower, Rect
  <2>3. ~ Empty(part) /\ Along(part, e) >= long
    BY <1>5
  <2> HIDE DEF part, long
  <2>4. /\ part.left \in Int /\ part.right \in Int /\ part.top \in Int /\ part.bottom \in Int
        /\ bounds.left \in Int /\ bounds.right \in Int /\ bounds.top \in Int /\ bounds.bottom \in Int
        /\ part.left < part.right /\ part.top < part.bottom
    BY <1>7, <2>3 DEF Rect, Empty, Valid
  <2>5. IF Vertical(e) THEN part.bottom - part.top >= long ELSE part.right - part.left >= long
    BY <2>3, <2>4 DEF Along, Width, Height, Valid
  <2> QED
    BY <2>1, <2>2, <2>4, <2>5 DEF Inside
<1> QED
  BY <1>11, <1>12

-----------------------------------------------------------------------------
(* Recognised is recognisable                                              *)

LEMMA OneSide ==
  ASSUME NEW r \in Rect, NEW a
  PROVE  /\ [r EXCEPT !.left = a] = R(a, r.top, r.right, r.bottom)
         /\ [r EXCEPT !.right = a] = R(r.left, r.top, a, r.bottom)
         /\ [r EXCEPT !.top = a] = R(r.left, a, r.right, r.bottom)
         /\ [r EXCEPT !.bottom = a] = R(r.left, r.top, r.right, a)
BY DEF Rect, R

(* The zone along an edge reaches the edge and stays in the window.        *)
LEMMA ZoneInside ==
  ASSUME NEW r \in Rect, NEW e \in Edges, NEW depth \in Int
  PROVE  /\ Zone(r, e, depth) \in Rect
         /\ Touches(Zone(r, e, depth), r, e)
         /\ \A x, y \in Int : HasPixel(Zone(r, e, depth), x, y) => HasPixel(r, x, y)
<1> DEFINE across == Lower(depth, Width(r))
           down == Lower(depth, Height(r))
           z == Zone(r, e, depth)
<1>1. /\ r.top \in Int /\ r.left \in Int /\ r.bottom \in Int /\ r.right \in Int
      /\ r = R(r.left, r.top, r.right, r.bottom)
  BY DEF Rect, R
<1>2. /\ across \in Int /\ down \in Int /\ across <= Width(r) /\ down <= Height(r)
  BY <1>1, ExtentType, BoundsType
<1>3. z = CASE e = "Left"   -> R(r.left, r.top, r.left + across, r.bottom)
            [] e = "Right"  -> R(r.right - across, r.top, r.right, r.bottom)
            [] e = "Top"    -> R(r.left, r.top, r.right, r.top + down)
            [] e = "Bottom" -> R(r.left, r.bottom - down, r.right, r.bottom)
  BY <1>1, OneSide DEF Zone
<1> HIDE DEF across, down, z
<1>4. CASE e = "Left"
  BY <1>1, <1>2, <1>3, <1>4 DEF R, Rect, Touches, HasPixel, Empty, Valid, Width, z
<1>5. CASE e = "Right"
  BY <1>1, <1>2, <1>3, <1>5 DEF R, Rect, Touches, HasPixel, Empty, Valid, Width, z
<1>6. CASE e = "Top"
  BY <1>1, <1>2, <1>3, <1>6 DEF R, Rect, Touches, HasPixel, Empty, Valid, Height, z
<1>7. CASE e = "Bottom"
  BY <1>1, <1>2, <1>3, <1>7 DEF R, Rect, Touches, HasPixel, Empty, Valid, Height, z
<1> QED
  BY <1>4, <1>5, <1>6, <1>7 DEF Edges

(* The channels at a corner reach the edges their zones lie along.         *)
LEMMA ChannelTouches ==
  ASSUME NEW r \in Rect, NEW zone \in Rect, NEW side \in {"Left", "Right"},
         NEW a \in Int, NEW b \in Int
  PROVE  /\ TopChannel(zone, side, a, b) \in Rect
         /\ Touches(zone, r, "Top") => Touches(TopChannel(zone, side, a, b), r, "Top")
         /\ SideChannel(zone, a, b) \in Rect
         /\ Touches(zone, r, side) => Touches(SideChannel(zone, a, b), r, side)
<1>1. /\ zone.top \in Int /\ zone.left \in Int /\ zone.bottom \in Int /\ zone.right \in Int
      /\ zone = R(zone.left, zone.top, zone.right, zone.bottom)
  BY DEF Rect, R
<1>2. TopChannel(zone, side, a, b) \in Rect /\ TopChannel(zone, side, a, b).top = zone.top
  <2>1. CASE side = "Left"
    <3> DEFINE left == Lower(zone.right, zone.left + a)
               moved == [zone EXCEPT !.left = left]
    <3>1. left \in Int /\ left + b \in Int /\ zone.left + a \in Int
      <4>1. zone.left + a \in Int
        BY <1>1
      <4>2. left \in Int
        BY <1>1, <4>1, BoundsType
      <4> HIDE DEF left
      <4> QED
        BY <1>1, <4>1, <4>2
    <3> HIDE DEF left
    <3>2. moved = R(left, zone.top, zone.right, zone.bottom) /\ moved \in Rect
      BY <1>1, <3>1, OneSide DEF R, Rect
    <3>3. moved.right = zone.right /\ moved.top = zone.top
      BY <3>2 DEF R
    <3>4. Lower(zone.right, left + b) \in Int
      BY <1>1, <3>1, BoundsType
    <3>5. TopChannel(zone, side, a, b) = [moved EXCEPT !.right = Lower(zone.right, left + b)]
      BY <2>1, <1>1 DEF TopChannel, left, Rect
    <3> HIDE DEF moved
    <3>6. TopChannel(zone, side, a, b) = R(moved.left, moved.top, Lower(zone.right, left + b),
              moved.bottom)
      BY <3>2, <3>5, OneSide
    <3> QED
      BY <3>2, <3>3, <3>4, <3>6 DEF R, Rect
  <2>2. CASE side = "Right"
    <3> DEFINE right == Upper(zone.left, zone.right - a)
               moved == [zone EXCEPT !.right = right]
    <3>1. right \in Int /\ right - b \in Int /\ zone.right - a \in Int
      <4>1. zone.right - a \in Int
        BY <1>1
      <4>2. right \in Int
        BY <1>1, <4>1, BoundsType
      <4> HIDE DEF right
      <4> QED
        BY <1>1, <4>1, <4>2
    <3> HIDE DEF right
    <3>2. moved = R(zone.left, zone.top, right, zone.bottom) /\ moved \in Rect
      BY <1>1, <3>1, OneSide DEF R, Rect
    <3>3. moved.left = zone.left /\ moved.top = zone.top
      BY <3>2 DEF R
    <3>4. Upper(zone.left, right - b) \in Int
      BY <1>1, <3>1, BoundsType
    <3>5. TopChannel(zone, side, a, b) = [moved EXCEPT !.left = Upper(zone.left, right - b)]
      BY <2>2, <1>1 DEF TopChannel, right, Rect
    <3> HIDE DEF moved
    <3>6. TopChannel(zone, side, a, b) = R(Upper(zone.left, right - b), moved.top, moved.right,
              moved.bottom)
      BY <3>2, <3>5, OneSide
    <3> QED
      BY <3>2, <3>3, <3>4, <3>6 DEF R, Rect
  <2> QED
    BY <2>1, <2>2
<1>3. /\ SideChannel(zone, a, b) \in Rect
      /\ SideChannel(zone, a, b).left = zone.left /\ SideChannel(zone, a, b).right = zone.right
  <2> DEFINE top == Lower(zone.bottom, zone.top + a)
             moved == [zone EXCEPT !.top = top]
  <2>1. top \in Int /\ top + b \in Int /\ zone.top + a \in Int
    <3>1. zone.top + a \in Int
      BY <1>1
    <3>2. top \in Int
      BY <1>1, <3>1, BoundsType
    <3> HIDE DEF top
    <3> QED
      BY <1>1, <3>1, <3>2
  <2> HIDE DEF top
  <2>2. moved = R(zone.left, top, zone.right, zone.bottom) /\ moved \in Rect
    BY <1>1, <2>1, OneSide DEF R, Rect
  <2>3. moved.bottom = zone.bottom /\ moved.left = zone.left /\ moved.right = zone.right
    BY <2>2 DEF R
  <2>4. Lower(zone.bottom, top + b) \in Int
    BY <1>1, <2>1, BoundsType
  <2>5. SideChannel(zone, a, b) = [moved EXCEPT !.bottom = Lower(zone.bottom, top + b)]
    BY <1>1 DEF SideChannel, top, Rect
  <2> HIDE DEF moved
  <2>6. SideChannel(zone, a, b) = R(moved.left, moved.top, moved.right, Lower(zone.bottom,
            top + b))
    BY <2>2, <2>5, OneSide
  <2> QED
    BY <2>2, <2>3, <2>4, <2>6 DEF R, Rect
<1> QED
  BY <1>2, <1>3 DEF Touches

(* An exposed segment of an edge within bounds.                            *)
SegmentIn(windows, i, e, g, bounds) ==
  HasSegment(Exposed(windows[i], Zone(windows[i].visual, e, Depth(windows[i], e, g)),
                     Covered(windows, i).parts).parts,
             bounds, e, Length(windows[i], e), Depth(windows[i], e, g))

(* The analysis of a window that can be analysed.                          *)
Seen(windows, i, g) == Analysed(windows, i, g, Covered(windows, i))

(* An edge with an exposed segment shows a strip.                          *)
LEMMA StripIsShown ==
  ASSUME NEW windows \in Seq(LayoutWindow), NEW i \in DOMAIN windows, NEW e \in Edges, NEW g,
         Seen(windows, i, g).ok,
         NEW bounds \in Rect, Touches(bounds, windows[i].visual, e),
         SegmentIn(windows, i, e, g, bounds)
  PROVE  \E s \in Int : StripAt(windows, i, e, g, s) /\ Inside(bounds, e, s, Length(windows[i], e))
<1> DEFINE zone == Zone(windows[i].visual, e, Depth(windows[i], e, g))
<1>1. windows[i] \in LayoutWindow /\ windows[i].visual \in Rect
  BY LayoutType
<1>2. Depth(windows[i], e, g) \in Int
  BY <1>1, DepthType
<1>3. /\ zone \in Rect
      /\ \A x, y \in Int : HasPixel(zone, x, y) => HasPixel(windows[i].visual, x, y)
  BY <1>1, <1>2, ZoneInside
<1>4. Covered(windows, i).ok
  BY DEF Seen, Analysed, NoSight
<1>5. \A s \in Strips(windows[i], g, Covered(windows, i).parts) : s.exposed.ok
  BY <1>4 DEF Seen, Analysed, Sight, NoSight
<1>6. Exposed(windows[i], zone, Covered(windows, i).parts).ok
  <2> DEFINE s == [edge |-> e, zone |-> zone,
                   exposed |-> Exposed(windows[i], zone, Covered(windows, i).parts)]
  <2>1. s \in Strips(windows[i], g, Covered(windows, i).parts)
    BY DEF Strips
  <2>2. s.exposed.ok
    BY <1>5, <2>1
  <2> QED
    BY <2>2
<1> HIDE DEF zone
<1>7. HasSegment(Exposed(windows[i], zone, Covered(windows, i).parts).parts, bounds, e,
                 Length(windows[i], e), Depth(windows[i], e, g))
  BY DEF SegmentIn, zone
<1> QED
  BY <1>3, <1>4, <1>6, <1>7, SegmentIsShown

(* There is one place only in a channel for a strip of its length.         *)
LEMMA ChannelStart ==
  ASSUME NEW r \in Rect, NEW zone \in Rect, NEW a \in Int, NEW long \in Int, NEW s \in Int
  PROVE  /\ zone.left = r.left /\ Inside(TopChannel(zone, "Left", a, long), "Top", s, long)
              => s = r.left + a
         /\ zone.right = r.right /\ Inside(TopChannel(zone, "Right", a, long), "Top", s, long)
              => s = r.right - a - long
         /\ \A side \in {"Left", "Right"} :
              zone.top = r.top /\ Inside(SideChannel(zone, a, long), side, s, long) => s = r.top + a
<1>1. /\ zone.top \in Int /\ zone.left \in Int /\ zone.bottom \in Int /\ zone.right \in Int
  BY DEF Rect
<1>2. ~ Vertical("Top") /\ Vertical("Left") /\ Vertical("Right")
  BY DEF Vertical
<1>3. ASSUME zone.left = r.left, Inside(TopChannel(zone, "Left", a, long), "Top", s, long)
      PROVE  s = r.left + a
  <2> DEFINE left == Lower(zone.right, zone.left + a)
  <2>1. /\ TopChannel(zone, "Left", a, long).left = left
        /\ TopChannel(zone, "Left", a, long).right = Lower(zone.right, left + long)
    BY DEF TopChannel, Rect
  <2>2. left <= s /\ s < Lower(zone.right, left + long) /\ s + long <= Lower(zone.right, left + long)
    BY <1>2, <1>3, <2>1 DEF Inside
  <2> QED
    BY <1>1, <1>3, <2>2 DEF Lower
<1>4. ASSUME zone.right = r.right, Inside(TopChannel(zone, "Right", a, long), "Top", s, long)
      PROVE  s = r.right - a - long
  <2> DEFINE right == Upper(zone.left, zone.right - a)
  <2>1. /\ TopChannel(zone, "Right", a, long).right = right
        /\ TopChannel(zone, "Right", a, long).left = Upper(zone.left, right - long)
    BY DEF TopChannel, Rect
  <2>2. Upper(zone.left, right - long) <= s /\ s < right /\ s + long <= right
    BY <1>2, <1>4, <2>1 DEF Inside
  <2> QED
    BY <1>1, <1>4, <2>2 DEF Upper
<1>5. ASSUME NEW side \in {"Left", "Right"}, zone.top = r.top,
             Inside(SideChannel(zone, a, long), side, s, long)
      PROVE  s = r.top + a
  <2> DEFINE top == Lower(zone.bottom, zone.top + a)
  <2>1. /\ SideChannel(zone, a, long).top = top
        /\ SideChannel(zone, a, long).bottom = Lower(zone.bottom, top + long)
    BY DEF SideChannel, Rect
  <2>2. top <= s /\ s < Lower(zone.bottom, top + long) /\ s + long <= Lower(zone.bottom, top + long)
    BY <1>2, <1>5, <2>1 DEF Inside
  <2> QED
    BY <1>1, <1>5, <2>2 DEF Lower
<1> QED
  BY <1>3, <1>4, <1>5

(* A corner with two channels, or an edge, shows its strips.               *)
LEMMA SeenIsShown ==
  ASSUME NEW windows \in Seq(LayoutWindow), NEW i \in DOMAIN windows, NEW g
  PROVE  /\ \A e \in Seen(windows, i, g).edges : e \in Edges /\ StripShown(windows, i, e, g)
         /\ \A e \in Seen(windows, i, g).corners :
              e \in {"Left", "Right"} /\ CornerShown(windows, i, e, g)
<1> DEFINE w == windows[i]
           parts == Covered(windows, i).parts
           strips == Strips(w, g, parts)
           seen == Seen(windows, i, g)
           zone(e) == Zone(w.visual, e, Depth(w, e, g))
<1>1. CASE ~ seen.ok
  <2>1. seen = NoSight
    BY <1>1 DEF Seen, Analysed, Sight
  <2> QED
    BY <2>1 DEF NoSight
<1>2. CASE seen.ok
  <2>1. Covered(windows, i).ok
    BY <1>2 DEF Seen, Analysed, NoSight
  <2>2. seen = Sight(w, g, strips, Exposed(w, w.visual, parts))
    BY <2>1 DEF Seen, Analysed
  <2>3. ~ \E s \in strips : ~ s.exposed.ok
    BY <1>2, <2>2 DEF Sight, NoSight
  <2>4. \A s \in strips : /\ s.edge \in Edges /\ s.zone = zone(s.edge)
                          /\ s.exposed = Exposed(w, zone(s.edge), parts)
    BY DEF Strips
  <2>5. w \in LayoutWindow /\ w.visual \in Rect
    BY LayoutType
  <2>6. \A e \in Edges : zone(e) \in Rect /\ Touches(zone(e), w.visual, e)
    BY <2>5, DepthType, ZoneInside
  <2>7. ASSUME NEW e \in seen.edges PROVE e \in Edges /\ StripShown(windows, i, e, g)
    <3>1. seen.edges = {s.edge : s \in {t \in strips :
                          HasSegment(t.exposed.parts, t.zone, t.edge, Length(w, t.edge),
                                     Depth(w, t.edge, g))}}
      BY <2>2, <2>3 DEF Sight
    <3>2. PICK s \in strips :
            s.edge = e /\ HasSegment(s.exposed.parts, s.zone, e, Length(w, e), Depth(w, e, g))
      BY <2>7, <3>1
    <3>3. e \in Edges /\ SegmentIn(windows, i, e, g, zone(e))
      BY <2>4, <3>2 DEF SegmentIn
    <3>4. \E start \in Int : StripAt(windows, i, e, g, start)
      BY <1>2, <2>6, <3>3, StripIsShown
    <3> QED
      BY <3>3, <3>4 DEF StripShown, StripAt
  <2>8. ASSUME NEW e \in seen.corners
        PROVE  e \in {"Left", "Right"} /\ CornerShown(windows, i, e, g)
    <3> DEFINE above(z) == TopChannel(z, e, Depth(w, e, g), Length(w, "Top"))
               beside(z) == SideChannel(z, Depth(w, "Top", g), Length(w, e))
    <3>1. seen.corners =
            {s.edge : s \in {t \in strips :
               /\ t.edge \in {"Left", "Right"}
               /\ \E top \in strips :
                    /\ top.edge = "Top"
                    /\ HasSegment(top.exposed.parts,
                                  TopChannel(top.zone, t.edge, Depth(w, t.edge, g),
                                             Length(w, "Top")), top.edge,
                                  Length(w, top.edge), Depth(w, top.edge, g))
                    /\ HasSegment(t.exposed.parts,
                                  SideChannel(t.zone, Depth(w, "Top", g), Length(w, t.edge)),
                                  t.edge, Length(w, t.edge), Depth(w, t.edge, g))}}
      BY <2>2, <2>3 DEF Sight
    <3>2. PICK s \in strips :
            /\ s.edge = e /\ e \in {"Left", "Right"}
            /\ \E top \in strips :
                 /\ top.edge = "Top"
                 /\ HasSegment(top.exposed.parts, above(top.zone), "Top",
                               Length(w, "Top"), Depth(w, "Top", g))
                 /\ HasSegment(s.exposed.parts, beside(s.zone), e,
                               Length(w, e), Depth(w, e, g))
      BY <2>8, <3>1
    <3>3. PICK top \in strips :
            /\ top.edge = "Top"
            /\ HasSegment(top.exposed.parts, above(top.zone), "Top",
                          Length(w, "Top"), Depth(w, "Top", g))
            /\ HasSegment(s.exposed.parts, beside(s.zone), e,
                          Length(w, e), Depth(w, e, g))
      BY <3>2
    <3>4. e \in Edges /\ "Top" \in Edges
      BY <3>2 DEF Edges
    <3>5. /\ SegmentIn(windows, i, "Top", g, above(zone("Top")))
          /\ SegmentIn(windows, i, e, g, beside(zone(e)))
      BY <2>4, <3>2, <3>3 DEF SegmentIn
    <3>6. /\ Depth(w, e, g) \in Int /\ Depth(w, "Top", g) \in Int
          /\ Length(w, e) \in Int /\ Length(w, "Top") \in Int
      BY <2>5, <3>4, DepthType, LengthType
    <3>7. /\ zone(e) \in Rect /\ Touches(zone(e), w.visual, e)
          /\ zone("Top") \in Rect /\ Touches(zone("Top"), w.visual, "Top")
      BY <2>6, <3>4
    <3>7a. /\ zone("Top").left = w.visual.left /\ zone("Top").right = w.visual.right
           /\ zone(e).top = w.visual.top
      BY <2>5, <3>2 DEF Zone, Rect
    <3> HIDE DEF zone, w
    <3>8. above(zone("Top")) \in Rect /\ Touches(above(zone("Top")), w.visual, "Top")
      BY <2>5, <3>2, <3>6, <3>7, ChannelTouches
    <3>9. beside(zone(e)) \in Rect /\ Touches(beside(zone(e)), w.visual, e)
      BY <2>5, <3>2, <3>6, <3>7, ChannelTouches
    <3> HIDE DEF above, beside
    <3>10. PICK s1 \in Int : /\ StripAt(windows, i, "Top", g, s1)
                             /\ Inside(above(zone("Top")), "Top", s1, Length(w, "Top"))
      BY <1>2, <3>4, <3>5, <3>8, StripIsShown DEF w
    <3>11. PICK s2 \in Int : /\ StripAt(windows, i, e, g, s2)
                             /\ Inside(beside(zone(e)), e, s2, Length(w, e))
      BY <1>2, <3>4, <3>5, <3>9, StripIsShown DEF w
    <3>12. s1 = IF e = "Left" THEN w.visual.left + Depth(w, e, g)
                ELSE w.visual.right - Depth(w, e, g) - Length(w, "Top")
      <4>1. CASE e = "Left"
        BY <2>5, <3>6, <3>7, <3>10, <3>7a, <4>1, ChannelStart DEF above
      <4>2. CASE e = "Right"
        BY <2>5, <3>6, <3>7, <3>10, <3>7a, <4>2, ChannelStart DEF above
      <4> QED
        BY <3>2, <4>1, <4>2
    <3>14. s2 = w.visual.top + Depth(w, "Top", g)
      BY <2>5, <3>2, <3>6, <3>7, <3>11, <3>7a, ChannelStart DEF beside
    <3> QED
      BY <3>2, <3>10, <3>11, <3>12, <3>14 DEF CornerShown, w
  <2> QED
    BY <2>7, <2>8
<1> QED
  BY <1>1, <1>2

(* The analysis of regions is sound for the two goals it serves: what it   *)
(* calls recognised can be recognised, pixel by pixel.                     *)
THEOREM SeenIsRecognisable ==
  ASSUME NEW windows \in Seq(LayoutWindow), NEW i \in DOMAIN windows,
         NEW g \in {"AnyRecognizableEdge", "TopAndSide"}, Recognised(Seen(windows, i, g), g)
  PROVE  Recognisable(windows, i, g)
<1>1. CASE g = "AnyRecognizableEdge"
  <2>1. PICK e \in Seen(windows, i, g).edges : TRUE
    BY <1>1 DEF Recognised
  <2>2. e \in Edges /\ StripShown(windows, i, e, g)
    BY <2>1, SeenIsShown
  <2> QED
    BY <1>1, <2>2 DEF Recognisable
<1>2. CASE g = "TopAndSide"
  <2>1. PICK e \in Seen(windows, i, g).corners : TRUE
    BY <1>2 DEF Recognised
  <2>2. e \in {"Left", "Right"} /\ CornerShown(windows, i, e, g)
    BY <2>1, SeenIsShown
  <2> QED
    BY <1>2, <2>2 DEF Recognisable
<1> QED
  BY <1>1, <1>2

(* What analyze_window() calls recognised for a goal can be recognised:    *)
(* the strips the goal asks for are on the work area, and no relevant      *)
(* window in front is painted over a pixel of them.                        *)
THEOREM AnalysisIsSound ==
  ASSUME NEW windows \in Seq(LayoutWindow), NEW i \in DOMAIN windows, NEW g \in Goals,
         Recognised(Analysis(windows, i, g), g)
  PROVE  Recognisable(windows, i, g)
<1>1. CASE g # "TitleBarLeftHalf"
  <2>1. g \in {"AnyRecognizableEdge", "TopAndSide"}
            /\ Analysis(windows, i, g) = Seen(windows, i, g)
    BY <1>1 DEF Goals, Analysis, Seen
  <2> QED
    BY <2>1, SeenIsRecognisable
<1>2. CASE g = "TitleBarLeftHalf"
  <2> DEFINE seen == Seen(windows, i, g)
  <2>1. "Top" \in ByTitleBar(windows, i, g, seen).edges
    BY <1>2 DEF Recognised, Analysis, Seen
  <2>2. CASE ~ seen.ok
    <3>1. seen = NoSight
      BY <2>2 DEF Seen, Analysed, Sight
    <3> QED
      BY <2>1, <2>2, <3>1 DEF ByTitleBar, NoSight
  <2>3. CASE seen.ok
    <3>1. seen.edges \cap {"Top"} \subseteq {"Top"}
      OBVIOUS
    <3>2. DOMAIN seen = {"ok", "sized", "area", "edges", "corners"}
      <4>1. seen # NoSight
        BY <2>3 DEF NoSight
      <4> QED
        BY <4>1 DEF Seen, Analysed, Sight
    <3>3. ByTitleBar(windows, i, g, seen).edges
            = (seen.edges \ {"Top"}) \cup (IF Satisfied(windows, i) THEN {"Top"} ELSE {})
      BY <2>3, <3>2 DEF ByTitleBar
    <3>4. Satisfied(windows, i)
      BY <2>1, <3>3
    <3> QED
      BY <1>2, <3>4, ReadableIsShown DEF Recognisable
  <2> QED
    BY <2>2, <2>3
<1> QED
  BY <1>1, <1>2

(* scan_violations() is sound: when it succeeds, every window it has to    *)
(* judge and does not report can be recognised.                            *)
THEOREM ScanIsSound ==
  ASSUME NEW windows \in Seq(LayoutWindow), NEW g \in Goals, Scan(windows, g).status = "Ok",
         NEW i \in Judged(windows) \ Scan(windows, g).violations
  PROVE  Recognisable(windows, i, g)
<1>1. i \in DOMAIN windows
  BY DEF Judged
<1>2. CASE g = "TitleBarLeftHalf"
  <2>1. ScanOk(windows)
    BY <1>2 DEF Scan, Clear
  <2>2. Satisfied(windows, i)
    BY <1>2, <2>1 DEF Scan, Clear, Violations
  <2> QED
    BY <1>1, <1>2, <2>2, ReadableIsShown DEF Recognisable
<1>3. CASE g # "TitleBarLeftHalf"
  <2> DEFINE views == {View(windows, j, g) : j \in Judged(windows)}
             bad == {v.window : v \in {u \in views : ~ u.seen.ok}}
             v == View(windows, i, g)
  <2>1. Scan(windows, g) = Judgement(windows, views, g)
    BY <1>3 DEF Scan
  <2>2. v \in views /\ v.window = i
    BY DEF View
  <2>3. bad = {}
    <3>1. SUFFICES ASSUME bad # {} PROVE FALSE
      OBVIOUS
    <3> DEFINE answer == [Clear EXCEPT !.status =
                            IF Analysable(windows[Min(bad)]) THEN "GeometryTooComplex"
                            ELSE "InvalidSnapshot"]
    <3>2. Scan(windows, g) = answer
      BY <2>1, <3>1 DEF Judgement
    <3>3. answer.status \in {"GeometryTooComplex", "InvalidSnapshot"}
      BY DEF Clear
    <3> QED
      BY <3>2, <3>3
  <2>4. Scan(windows, g).violations
          = {u.window : u \in {u \in views : ~ Recognised(u.seen, g)}}
    BY <2>1, <2>3 DEF Judgement, Clear
  <2>5. Recognised(v.seen, g) /\ v.seen.ok
    <3>1. v.window \notin bad
      BY <2>3
    <3> HIDE DEF v
    <3> QED
      BY <2>2, <2>4, <3>1
  <2>6. v.seen = Seen(windows, i, g)
    BY <2>5 DEF View, NoSight, Seen
  <2>7. g \in {"AnyRecognizableEdge", "TopAndSide"}
    BY <1>3 DEF Goals
  <2> QED
    BY <1>1, <2>5, <2>6, <2>7, SeenIsRecognisable
<1> QED
  BY <1>2, <1>3
=============================================================================
