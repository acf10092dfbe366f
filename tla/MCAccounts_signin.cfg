CONSTANTS
  Users = {u1, u2}
  Allowed = {u1}
  Flows = {f1, f2}
  Keys = {k}
  Names = {n}
  Slugs = {s}
  SlugOf <- MCSlugOf
  LoginSlug <- MCLoginSlug
  Handlers = {p, q}
  None = None
SYMMETRY ActorsAreAlike
SPECIFICATION Spec
INVARIANTS
  OneDefaultOrganization
  RetriesAreNotRefused
  SignInsServeOnce
CHECK_DEADLOCK FALSE
