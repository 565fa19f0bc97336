\* Two executions, the first of which pauses again and again; one shutdown or crash.
SPECIFICATION Spec
CONSTANTS
  Calls = {c1, c2}
  Executions = {1, 2}
  Limit = 1
  Requests = {}
  NoCall = NoCall NoExecution = NoExecution NoEntry = NoEntry NoQuery = NoQuery
  RunOutcomes = {"success", "waiting"}
  Pausing = {1}
  Faults = {}
  MaxRestarts = 1
  CreateModes = {"webhook"}
  EarlyTraffic = FALSE
  WebhookResumes = FALSE
PROPERTIES NewEventuallyRun CapacityReturned ShutdownCompletes WaitingEventuallyResumed
\* every bounded environment comes to rest
CHECK_DEADLOCK FALSE
