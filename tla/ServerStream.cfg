SPECIFICATION Spec
CONSTANTS
  Requests = {request}
  MaxServers = 2
INVARIANT StreamAnswersEvents
CHECK_DEADLOCK FALSE
