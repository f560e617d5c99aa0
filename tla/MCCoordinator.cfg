SPECIFICATION Spec
CONSTANTS
  w1 = w1
  w2 = w2
  m1 = m1
  m2 = m2
  home = home
  r1 = r1
  nobody = nobody
  Hwnds <- MCHwnds
  Monitors <- MCMonitors
  Rects <- MCRects
  Home = home
  None = nobody
  Readable <- MCReadable
  Desks <- MCSpreadDesks
  PlaceActivated = TRUE
  Quiet = 1
  FirstDelay = 2
  MaxDelay = 4
  Capacity = 3
  Attempts = 3
  Steps = {0, 1}
  Doings = {"switch", "right click", "press", "drag", "release", "shove", "change", "close", "open", "pause"}
  MaxActions = 3
  MaxFaults = 1
  MaxEra = 1
INVARIANTS
  TypeOK
  QueuedWorkYields
  UserComesFirst
  PlacementsAnswerActivations
PROPERTIES
  UnfinishedIsQueued
  RepairWaitsItsTurn
  RepairsBackOff
