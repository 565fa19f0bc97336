\* Two mains whose checks overlap; a key expires early and a connection is lost.
SPECIFICATION ElectionSpec
CONSTANTS
  Mains = {m1, m2}
  NoMain = NoMain Departed = Departed
  MaxChecks = 2
  MaxLapses = 1
  MaxDepartures = 1
  MaxReconnects = 1
INVARIANT AtMostOneLeader
PROPERTIES KeyNotTakenAway StaleLeaderStepsDown LeadershipPassesOn
