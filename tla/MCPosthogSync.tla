--------------------------- MODULE MCPosthogSync ----------------------------
(***************************************************************************)
(* Instances of PosthogSync for TLC.                                       *)
(***************************************************************************)
EXTENDS PosthogSync, TLC

CONSTANTS user

OnlyUser == {user}

Symmetry == Permutations(Event)
=============================================================================
