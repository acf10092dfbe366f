CONSTANTS
  Settings = {s1, s2, s3}
  Handlers = {p, q, r}
  NoSetting = NoSetting
SYMMETRY ActorsAreAlike
SPECIFICATION AgentSpec
INVARIANTS
  AtMostOneDefault
  DefaultSurvives
CHECK_DEADLOCK FALSE
