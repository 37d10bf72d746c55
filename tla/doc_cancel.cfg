CONSTANTS
  KeepLast = 1
  KeepCompressed = 1
  MaxRuns = 3
  MaxFaults = 1
SPECIFICATION Spec
PROPERTIES CancelStands
CHECK_DEADLOCK FALSE
