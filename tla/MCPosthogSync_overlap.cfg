SPECIFICATION PollSpec
CONSTANTS
  user = user
  worker = worker
  e1 = e1
  e2 = e2
  Syncer = {user, worker}
  Manual <- OnlyUser
  Event = {e1, e2}
  Lag = 1
  Overlap = 1
  FirstSync = 2
  Interval = 2
  Limit = 2
  MaxTime = 6
  MaxRuns = 2
SYMMETRY Symmetry
INVARIANTS
  NoTimelyEventIsLost
  NoOrphanedRun
CHECK_DEADLOCK FALSE
