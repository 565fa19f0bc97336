\* A leader shuts down while two checks of the other main are under way.
SPECIFICATION ElectionSpec
CONSTANTS
  Mains = {m1, m2}
  NoMain = NoMain Departed = Departed
  MaxChecks = 2
  MaxLapses = 0
  MaxDepartures = 1
  MaxReconnects = 0
PROPERTY HolderLeads
