SPECIFICATION Spec
CONSTANTS
  LaneIds = {l1, l2}
  Intents = {i1}
  MaxLanes = 1
  MaxCycles = 2
PROPERTY CancelledStartsNothing
