SPECIFICATION PartsSpec
CONSTANTS
  LeaderHasTransports = TRUE
  MonitorEnabled = TRUE
  TeardownMayThrow = TRUE
  MaxStarts = 4
  WorldIds = {"w"}
  Members = {"m1", "m2"}
  Directories = {"path"}
  Calls = {"c1", "c2"}
  MaxOSStarts = 2
  Agents = {"agent"}
  Interval = 4
  TTL = 12
  Late = 1
  Latency = 1
  MaxLost = 2
  MaxAgentStarts = 2
  MaxRestarts = 1
  Messages = {"m1", "m2", "m3"}
  InboxBound = 2
  Nodes = {"n"}
  LibP2P = "libp2p"
  HealthPolls = {"h"}
  LibP2PPolls = {"l"}
  Timeout = 2
  Retention = 1
  MaxEntries = 2
  Leaders = 1
  Workers = 2
  MaxNodes = 7
  Pids = {"p1", "p2"}
  MaxCalls = 2
INVARIANT RunningIsWhole
INVARIANT BeatsKeepAlive
INVARIANT InboxKeepsLatest
INVARIANT EntryNodeExists
INVARIANT OneInstance
INVARIANT MembersAreKept
INVARIANT RemovedIsGone
PROPERTY StopEnds
PROPERTY DeadAreForgotten
PROPERTY LeftAreForgotten
CHECK_DEADLOCK FALSE
