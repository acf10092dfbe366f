--------------------------- MODULE MCOrganizations ---------------------------
(* Instance of Organizations for TLC.                                      *)
EXTENDS Organizations, TLC

RequestsAreAlike == Permutations(Requests) \cup Permutations(Users \ {Owner})
=============================================================================
