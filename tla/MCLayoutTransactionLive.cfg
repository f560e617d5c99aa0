SPECIFICATION FairSpec
CONSTANTS
  w1 = w1
  w2 = w2
  p1 = p1
  p2 = p2
  plain = plain
  altered = altered
  nowhere = nowhere
  Hwnds <- MCHwnds
  Places <- MCPlaces
  Unreadable = nowhere
  Traits <- MCOneTrait
  StopOnFailure = FALSE
  MaxStamp = 1
  MaxOwner = 1
  MaxEra = 1
  MaxDisturbances = 0
  MaxPlan = 2
PROPERTY StopCompletes
PROPERTY PauseTakesHold
