SPECIFICATION PartsSpec
CONSTANTS
  LaneIds = {l1, l2}
  Intents = {i1, i2}
  MaxLanes = 1
  MaxCycles = 2
  FirstIntent = i1
  Lanes = {"l1", "l2", "l3"}
  Cids = {"c1", "c2"}
  CidOf <- MCCidOf
  Given <- MCGiven
  Backend = "secure"
  LaneBackend = "secure"
  MaxStarts = 2
  Runs = {"r1", "r2"}
  Tasks = {"t1", "t2"}
PROPERTY LoopHonoursCancel
PROPERTY LaneEnds
INVARIANT ReplayedOnce
INVARIANT AcknowledgedIsKept
INVARIANT NeverIsFinal
CHECK_DEADLOCK FALSE
