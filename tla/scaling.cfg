\* One execution, two workers, and two faults.
SPECIFICATION Spec
CONSTANTS
  Executions = {e1}
  Workers = {w1, w2}
  NoWorker = NoWorker
  Concurrency = 1
  MaxStalledCount = 1
  BatchSize = 1
  Unsaved = {"success"}
  Recovering = TRUE
  Faults = {"add", "hook", "job", "stop", "lapse", "end", "restart", "loss"}
  MaxFaults = 2
INVARIANTS OneWorker AnsweredIsSettled
PROPERTIES OnlySettledDeleted SuccessStands ExitWaitsForRuns EntriesAreAnswered StoppingEnds
CHECK_DEADLOCK FALSE
