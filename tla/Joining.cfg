SPECIFICATION PartsSpec
CONSTANTS
  Flows = {f1, f2, f3, f4}
  ParentIsLeader = FALSE
  ParentHasTransports = TRUE
  HasLeader = TRUE
  MaxFaults = 2
INVARIANT RegisteringIsOwned
INVARIANT ParentNeverAbandoned
PROPERTY ReconnectedMeansRegistered
PROPERTY ReconnectionsEnd
CHECK_DEADLOCK FALSE
