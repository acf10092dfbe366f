------------------------------ MODULE MCAccounts ------------------------------
(* Instance of Accounts for TLC: both logins and the names asked for have  *)
(* the same slug.                                                          *)
EXTENDS Accounts, TLC

MCSlugOf == [n \in Names |-> CHOOSE s \in Slugs : TRUE]
MCLoginSlug == [u \in Users |-> CHOOSE s \in Slugs : TRUE]

ActorsAreAlike == Permutations(Handlers) \cup Permutations(Flows)
=============================================================================
