SPECIFICATION Spec
CONSTANTS
  w1 = w1
  w2 = w2
  p1 = p1
  p2 = p2
  plain = plain
  altered = altered
  nowhere = nowhere
  Hwnds <- MCHwnds
  Places <- MCPlaces
  Unreadable = nowhere
  Traits <- MCTraits
  StopOnFailure = TRUE
  MaxStamp = 2
  MaxOwner = 2
  MaxEra = 0
  MaxDisturbances = 1
  MaxPlan = 2
SYMMETRY Symmetry
INVARIANT TypeOK
INVARIANT AtMostOneMoveAfterCancel
INVARIANT FailedWindowLeftAlone
INVARIANT DryRunNeverMoves
PROPERTY TokensOnlyForLandedMoves
PROPERTY AppliedMeansInPlace
PROPERTY PartialFailureReported
PROPERTY ImplementsContract
