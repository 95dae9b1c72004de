SPECIFICATION Spec
CONSTANTS
  LeaderHasTransports = TRUE
  MonitorEnabled = FALSE
  TeardownMayThrow = FALSE
  MaxStarts = 1
INVARIANT StoppedIsQuiet
CHECK_DEADLOCK FALSE
