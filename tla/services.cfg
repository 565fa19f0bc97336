\* Two mains, one fault: the key of a live main expires early, or a main leaves.
SPECIFICATION Spec
CONSTANTS
  Mains = {m1, m2}
  NoMain = NoMain Departed = Departed
  MaxChecks = 1
  MaxLapses = 1
  MaxDepartures = 1
  MaxReconnects = 0
  MaxTroubles = 1
INVARIANTS OneTracker ServicesFollowRole
PROPERTY WaitingIsResumed
