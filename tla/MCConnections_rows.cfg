CONSTANTS
  Handlers = {p, q}
  Names = {PostHog, other}
  DefaultName = PostHog
  Installations = {i1, i2}
  NoInstallation = NoInstallation
  MaxNumber = 3
SYMMETRY ActorsAreAlike
SPECIFICATION Spec
INVARIANTS
  LastSecretOnly
  SecondNeedsACrossing
  DisabledHasACause
CHECK_DEADLOCK FALSE
