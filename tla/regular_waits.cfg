SPECIFICATION Safety
CONSTANTS
  Calls = {c1, c2}
  Executions = {1, 2}
  Limit = 1
  Requests = {}
  NoCall = NoCall NoExecution = NoExecution NoEntry = NoEntry NoQuery = NoQuery
  RunOutcomes = {"success", "waiting"}
  Pausing = {1, 2}
  Faults = {"storage"}
  MaxRestarts = 0
  CreateModes = {"webhook", "manual"}
  EarlyTraffic = TRUE
  WebhookResumes = TRUE
SYMMETRY Symmetry
INVARIANT EntriesHaveOwners
PROPERTIES QueueUsedProperly CapacityLostOnlyHere
\* every bounded environment comes to rest
CHECK_DEADLOCK FALSE
