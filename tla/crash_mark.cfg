\* Nothing fails; queue recovery runs while the execution succeeds.
SPECIFICATION Safety
CONSTANTS
  Executions = {e1}
  Workers = {w1}
  NoWorker = NoWorker
  Concurrency = 1
  MaxStalledCount = 1
  BatchSize = 1
  Unsaved = {}
  Recovering = TRUE
  Faults = {}
  MaxFaults = 0
PROPERTY OnlyInProgressMarked
CHECK_DEADLOCK FALSE
