SPECIFICATION FairSpec
CONSTANTS
  standard = standard
  other = other
  None = none
  Values <- MCValues
  Default = standard
  Capacity = 2
  Inputs = {"hotkey", "toggle", "quick", "dialog", "custom", "exit"}
  Outcomes = {"Idle", "Recovered", "Unsatisfiable"}
  MaxInputs = 2
  MaxFaults = 1
  MaxCrashes = 1
  MaxEpisodes = 1
INVARIANTS
  TypeOK
  ObjectsOutliveThreads
  PipelineIsWhole
  SavedIsCurrent
PROPERTIES
  SettingsHaveNoReader
  NoticesAreForNewFailures
  TrayCatchesUp
  HandlersReturn
CHECK_DEADLOCK FALSE
