SPECIFICATION PartsSpec
CONSTANTS
  Callers = {c1, c2}
  Runs = {r1, r2}
  MaxTokens = 4
  MaxRetries = 1
  Lifetime = 2
  Buffer = 1
  MaxTimeout = 9
  Services = {"s1"}
  Calls = {"k1", "k2", "k3"}
  Requests = {"request"}
  MaxServers = 2
  MaxLines = 2
  Prompts = {"p1", "p2"}
  Providers = {"anthropic", "other"}
  Known = {"anthropic"}
  Default = "anthropic"
  EnvVars = {}
  EnvChoice = "none"
  Settings = {{"preference", "model"}}
INVARIANT SingleFlight
INVARIANT DestroyedIsSilent
INVARIANT MemoryIsUpToDate
INVARIANT NodeSeesVerifiedAuth
INVARIANT CutsDoNotMatter
INVARIANT KeyGoesToItsProvider
PROPERTY CallersAnswered
PROPERTY MemoryIsFresh
PROPERTY GoneStaysGone
CHECK_DEADLOCK FALSE
