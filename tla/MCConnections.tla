---------------------------- MODULE MCConnections ----------------------------
(* Instance of Connections for TLC.                                        *)
EXTENDS Connections, TLC

ActorsAreAlike == Permutations(Handlers) \cup Permutations(Installations)
=============================================================================
