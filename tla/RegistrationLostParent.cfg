SPECIFICATION FairSpec
CONSTANTS
  Flows = {f1, f2, f3}
  ParentIsLeader = FALSE
  ParentHasTransports = TRUE
  HasLeader = TRUE
  MaxFaults = 2
PROPERTY LostParentIsReconnected
CHECK_DEADLOCK FALSE
