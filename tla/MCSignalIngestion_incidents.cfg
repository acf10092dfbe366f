SPECIFICATION Spec
CONSTANTS
  i1 = i1
  i2 = i2
  i3 = i3
  r1 = r1
  r2 = r2
  Incident = {i1, i2, i3}
  e1 = e1
  e2 = e2
  e3 = e3
  f1 = f1
  f2 = f2
  f3 = f3
  Event = {e1, e2, e3}
  Fingerprint = {f1, f2, f3}
  Responder = {r1, r2}
  None = None
  ByWebhook <- WebhookRows
  ByPoll <- PollRows
  Occurrence <- Checkout
  Template <- Body
  Requested <- Resolve
  Cap = 1
  MaxChanges = 2
SYMMETRY Symmetry
INVARIANTS
  OneOpenIncident
  SignalReceivedOnce
  TimelineReplays
  SilentForAReason
  OneSignalPerOccurrence
CHECK_DEADLOCK FALSE
