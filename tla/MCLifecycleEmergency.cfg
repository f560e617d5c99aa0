SPECIFICATION Spec
CONSTANTS
  standard = standard
  other = other
  None = none
  Values <- MCValues
  Default = standard
  Capacity = 2
  Inputs = {"hotkey", "dialog"}
  Outcomes = {"Idle", "ApiError", "Suspended", "Rebuilding"}
  MaxInputs = 2
  MaxFaults = 0
  MaxCrashes = 0
  MaxEpisodes = 1
INVARIANT EmergencyStopHolds
CHECK_DEADLOCK FALSE
