SPECIFICATION Safety
CONSTANTS
  Calls = {c1, c2}
  Executions = {1, 2}
  Limit = 1
  Requests = {s1}
  NoCall = NoCall NoExecution = NoExecution NoEntry = NoEntry NoQuery = NoQuery
  RunOutcomes = {"success"}
  Pausing = {}
  Faults = {"permission", "start", "timeout"}
  MaxRestarts = 1
  CreateModes = {"webhook"}
  EarlyTraffic = FALSE
  WebhookResumes = FALSE
SYMMETRY Symmetry
INVARIANTS NoDoubleRun NoCapacityLost RunsCanBeStopped
PROPERTIES ThrottledStayDuringShutdown
\* every bounded environment comes to rest
CHECK_DEADLOCK FALSE
