\* Workflows of four nodes.
SPECIFICATION Safety
CONSTANTS
  Nodes <- MCNodes
  NoNode = 0
  NoData = NoData NoItems = NoItems
  Workflows <- MCWorkflows
  Destinations = {0, 4}
  MaxRuns = 2
  MaxPauses = 1
INVARIANTS TypeOK NothingLost NothingTwice NobodyLeftWaiting
PROPERTY ResultsStand
CHECK_DEADLOCK FALSE
