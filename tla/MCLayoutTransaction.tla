------------------------- MODULE MCLayoutTransaction -------------------------
(***************************************************************************)
(* Small instances of LayoutTransaction for TLC.                           *)
(***************************************************************************)
EXTENDS LayoutTransaction, TLC

CONSTANTS w1, w2, p1, p2, plain, altered, nowhere

MCHwnds == {w1, w2}
MCOneHwnd == {w1}
MCOneTrait == {plain}
MCPlaces == {p1, p2}
MCTraits == {plain, altered}
(* Windows, places and traits are interchangeable. *)
Symmetry == Permutations(MCHwnds) \cup Permutations(MCPlaces) \cup Permutations(MCTraits)
===============================================================================
