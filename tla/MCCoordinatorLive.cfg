SPECIFICATION FairSpec
CONSTANTS
  w1 = w1
  w2 = w2
  m1 = m1
  m2 = m2
  home = home
  r1 = r1
  nobody = nobody
  Hwnds <- MCHwnds
  Monitors <- MCOneMonitor
  Rects <- MCRects
  Home = home
  None = nobody
  Readable <- MCReadable
  Desks <- MCLoadingDesks
  PlaceActivated = TRUE
  Quiet = 1
  FirstDelay = 2
  MaxDelay = 4
  Capacity = 4
  Attempts = 3
  Steps = {0, 1}
  Doings = {"switch", "right click", "press", "drag", "release", "shove", "change", "close", "open", "pause"}
  MaxActions = 2
  MaxFaults = 1
  MaxEra = 0
PROPERTIES
  PendingIsSettled
  RepairIsTried
