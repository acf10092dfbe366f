SPECIFICATION FairSpec
CONSTANTS
  r1 = r1
  r2 = r2
  r3 = r3
  f1 = f1
  f2 = f2
  Request = {r1, r2, r3}
  Fingerprint = {f1, f2}
  NoRequest = NoRequest
  Cap = 1
  Window = 2
  Slack = 1
  MaxTime = 4
INVARIANTS
  CapHolds
  VisibleCapHolds
  OneJobPerIncident
  OpenIncidentsAreAccountedFor
PROPERTIES
  EveryRequestEnds
CHECK_DEADLOCK FALSE
