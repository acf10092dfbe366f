--------------------------- MODULE MCAgentSettings ---------------------------
(* Instance of AgentSettings for TLC.                                      *)
EXTENDS AgentSettings, TLC

ActorsAreAlike == Permutations(Handlers) \cup Permutations(Settings)
=============================================================================
