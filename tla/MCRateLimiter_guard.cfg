CONSTANTS
  MaxRequests = 4
  wide = wide
  narrow = narrow
  Policies = {wide, narrow}
  Clients = {client}
  Limit <- MCLimit
  PolicyWindow <- MCWindow
  Retention = 3
  MaxWait = 1
  LastTime = 4
SPECIFICATION GuardSpec
INVARIANTS
  LimitHolds
  RefusalsAreDeserved
PROPERTIES
  RequestsAreAnswered
CHECK_DEADLOCK FALSE
