SPECIFICATION Spec
CONSTANTS
  w1 = w1
  w2 = w2
  p1 = p1
  p2 = p2
  plain = plain
  altered = altered
  nowhere = nowhere
  Hwnds <- MCOneHwnd
  Places <- MCPlaces
  Unreadable = nowhere
  Traits <- MCTraits
  StopOnFailure = TRUE
  MaxStamp = 1
  MaxOwner = 1
  MaxEra = 0
  MaxDisturbances = 1
  MaxPlan = 1
PROPERTY NoMoveClearedWhilePaused
