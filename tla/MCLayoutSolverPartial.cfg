SPECIFICATION SolverSpec
CONSTANTS
  Rule <- MCRule
  Snapshots <- MCSnapshots
  MoveLimits = {0, 1, 3}
  NativeLimit = 20
  MaxCalls = 3
  MaximumRectangles = 3
  Stable <- MCStable
  Preferred = "Left"
  Asked <- MCTitleAsked
INVARIANT NothingRecognisableIsHidden
