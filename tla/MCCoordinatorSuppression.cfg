SPECIFICATION Spec
CONSTANTS
  w1 = w1
  w2 = w2
  m1 = m1
  m2 = m2
  home = home
  r1 = r1
  nobody = nobody
  Hwnds <- MCHwnds
  Monitors <- MCOneMonitor
  Rects <- MCRects
  Home = home
  None = nobody
  Readable <- MCReadable
  Desks <- MCDesks
  PlaceActivated = TRUE
  Quiet = 1
  FirstDelay = 2
  MaxDelay = 4
  Capacity = 4
  Attempts = 3
  Steps = {1}
  Doings = {"switch", "right click", "change"}
  MaxActions = 4
  MaxFaults = 0
  MaxEra = 0
INVARIANT LayoutEndsSuppression
