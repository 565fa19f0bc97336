\* Two mains, something under way when checks start, and one lapse, departure or failure;
\* closing a trigger may fail besides.
SPECIFICATION Spec
CONSTANTS
  Mains = {m1, m2}
  NoMain = NoMain Departed = Departed
  Triggers = {t1}
  Removals = {r1, stop} StopRemoval = stop
  MaxChecks = 1
  MaxLapses = 1
  MaxDepartures = 1
  MaxReconnects = 0
  MaxUnderWay = 1
  MaxFailures = 1
  MaxTroubles = 1
INVARIANTS TriggersCanBeClosed OneRunner
PROPERTIES StepdownClosesTriggers LeadersRunTriggers
