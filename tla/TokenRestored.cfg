SPECIFICATION Spec
CONSTANTS
  Callers = {c1, c2}
  Runs = {r1}
  MaxTokens = 2
  MaxRetries = 0
  Lifetime = 2
  Buffer = 1
  MaxTimeout = 9
INVARIANT ProviderKeepsLatest
