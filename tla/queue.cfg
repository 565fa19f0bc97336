\* Five calls of three executions compete for two slots.
SPECIFICATION QueueSpec
CONSTANTS
  Calls = {c1, c2, c3, c4, c5}
  Executions = {e1, e2, e3}
  Limit = 2
INVARIANTS CapacityAccounting WorkConserving
PROPERTIES NoOvertaking OnlyRemovalOverruns NoStarvation RefinesAdmission
