--------------------------- MODULE MCDeliveryCap ----------------------------
(***************************************************************************)
(* Instances of DeliveryCap for TLC.                                       *)
(***************************************************************************)
EXTENDS DeliveryCap, TLC

Symmetry == Permutations(Request) \cup Permutations(Fingerprint)
=============================================================================
