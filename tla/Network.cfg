SPECIFICATION PartsSpec
CONSTANTS
  a = a
  b = b
  r = r
  c1 = c1
  c2 = c2
  Nodes = {a, b, r}
  Calls = {c1, c2}
  Conns = {1, 2}
  Plans <- MCPlans
  MaxFaults = 2
  Names = {"n1", "n2"}
  Callers = {"p1", "p2", "p3"}
  None = None
  Leader = r
  Parent <- MCParent
  Tools <- MCTools
  Addresses <- MCAddresses
  Requests = {"request"}
  MaxLives = 2
  Children <- MCChildren
  Patterns <- MCPatterns
  Subscriptions = {"s1"}
  IndexNodes = {a, b, r, "c"}
  Root = r
  Offspring <- MCOffspring
  Slots = {"k1", "k2"}
  MaxFails = 1
  Resources = {"node", "server"}
INVARIANT AtMostOnce
INVARIANT TableIsOutstanding
INVARIANT Truthful
INVARIANT AnsweredByItsOwner
INVARIANT NoCircles
INVARIANT LeftIsTrue
INVARIANT CompleteMeansAll
PROPERTY CallsEnd
PROPERTY Exclusion
PROPERTY SignalEnds
CHECK_DEADLOCK FALSE
