SPECIFICATION Safety
CONSTANTS
  Calls = {c1, c2}
  Executions = {1}
  Limit = 2
  Requests = {}
  NoCall = NoCall NoExecution = NoExecution NoEntry = NoEntry NoQuery = NoQuery
  RunOutcomes = {"success", "waiting"}
  Pausing = {1}
  Faults = {}
  MaxRestarts = 0
  CreateModes = {"webhook"}
  EarlyTraffic = FALSE
  WebhookResumes = TRUE
SYMMETRY Symmetry
INVARIANT NoDoubleRun
\* every bounded environment comes to rest
CHECK_DEADLOCK FALSE
