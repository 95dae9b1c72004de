SPECIFICATION Spec
CONSTANTS
  a = a
  b = b
  Nodes = {l, a, b}
  Leader = l
  Parent <- MCParent
  Tools <- MCTools
  Addresses <- MCAddresses
  Requests = {request}
  MaxLives = 2
INVARIANT NoCircles
CHECK_DEADLOCK FALSE
