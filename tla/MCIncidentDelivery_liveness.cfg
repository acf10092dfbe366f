SPECIFICATION FairSpec
CONSTANTS
  w1 = w1
  w2 = w2
  i1 = i1
  i2 = i2
  Worker = {w1, w2}
  Incident = {i1, i2}
  NoIncident = NoIncident
  MaxAttempts = 5
  ClaimLimit = 2
  Lease = 2
  BackoffUnit = 1
  Budget <- ShortOutage
PROPERTIES
  EveryJobSettles
  EveryIncidentIsAnnounced
CHECK_DEADLOCK FALSE
