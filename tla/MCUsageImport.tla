---------------------------- MODULE MCUsageImport ----------------------------
(* Instance of UsageImport for TLC.                                        *)
EXTENDS UsageImport, TLC

ActorsAreAlike == Permutations(Syncs) \cup Permutations(Calls) \cup Permutations(SdkEvents)
=============================================================================
