------------------------- MODULE MCSlackInstallation -------------------------
(* Instance of SlackInstallation for TLC.                                  *)
EXTENDS SlackInstallation, TLC

CONSTANTS t1, t2, n1, n2

MCFirstName == t1 :> n1 @@ t2 :> n2

ActorsAreAlike == Permutations(Handlers) \cup Permutations(Flows) \cup Permutations(Orgs)
                 \cup Permutations(Events)
=============================================================================
