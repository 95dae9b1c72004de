SPECIFICATION Spec
CONSTANTS
  Lanes = {"l1", "l2"}
  Cids = {"c1", "c2"}
  CidOf <- MCCidOf
  Given <- MCGiven
  Backend = "disk"
  LaneBackend = "disk"
  MaxStarts = 2
PROPERTY PersistedAreReplayed
CHECK_DEADLOCK FALSE
