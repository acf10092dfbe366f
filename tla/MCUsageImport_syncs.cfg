CONSTANTS
  Overlap = 1
  Lookback = 2
  Settle = 0
  MaxTime = 4
  MaxRun = 1
  MaxChanges = 1
  Syncs = {p, q}
  Calls = {c, d}
  SdkEvents = {e}
  Never = Never
SYMMETRY ActorsAreAlike
SPECIFICATION Spec
INVARIANTS
  NoTimelyCorrectionIsLost
  SdkEventsCountOnce
CHECK_DEADLOCK FALSE
