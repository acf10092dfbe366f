------------------------- MODULE MCIncidentDelivery -------------------------
(***************************************************************************)
(* Instances of IncidentDelivery for TLC.  A budget says how many faults   *)
(* of each kind a behaviour may contain.                                   *)
(***************************************************************************)
EXTENDS IncidentDelivery, TLC

NoFault == [k \in FaultKind |-> 0]

\* One job under everything that can go wrong with it.
EveryFault == [k \in FaultKind |-> IF k \in {"stall", "refusal"} THEN 2 ELSE 1]

\* An outage shorter than the code's five attempts, with an error of the
\* database, a reply lost and a worker that dies.
ShortOutage ==
  [NoFault EXCEPT !["crash"] = 1, !["error"] = 1, !["refusal"] = 1, !["lost_reply"] = 1]

Symmetry == Permutations(Worker) \cup Permutations(Incident)
=============================================================================
