CONSTANTS
  t1 = t1
  t2 = t2
  n1 = n1
  n2 = n2
  Orgs = {o1, o2}
  Teams = {t1, t2}
  Names = {n1, n2}
  Renamed = {t1}
  FirstName <- MCFirstName
  Flows = {f1, f2}
  Events = {e1, e2}
  Handlers = {p, q}
  MaxGen = 2
  None = None
SYMMETRY ActorsAreAlike
SPECIFICATION Spec
INVARIANTS
  WorkspaceHasOneHome
  RevocationIsNoticed
  BlameHasACause
CHECK_DEADLOCK FALSE
