SPECIFICATION Spec
CONSTANTS
  w1 = w1
  w2 = w2
  w3 = w3
  i1 = i1
  Worker = {w1, w2, w3}
  Incident = {i1}
  NoIncident = NoIncident
  MaxAttempts = 2
  ClaimLimit = 1
  Lease = 2
  BackoffUnit = 1
  Budget <- EveryFault
SYMMETRY Symmetry
INVARIANTS
  DuplicatesArePaidFor
  AttemptsArePaidFor
  FailedIsAccountedFor
  OverlapNeedsStall
PROPERTIES
  ImplementsRootMessage
CHECK_DEADLOCK FALSE
