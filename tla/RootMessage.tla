---------------------------- MODULE RootMessage ----------------------------
(***************************************************************************)
(* What incident delivery promises, with no worker, lease, clock or retry  *)
(* in sight.  For every incident whose notification has been requested:    *)
(*                                                                         *)
(*   - any number of root messages may reach Slack (delivery is            *)
(*     at-least-once, not exactly-once);                                   *)
(*   - at most one of them is ever recorded as the incident's thread, and  *)
(*     the record is never moved to another message or erased;             *)
(*   - the request is settled once: as delivered, and then a thread is     *)
(*     recorded, or as failed; a settled request stays settled.            *)
(*                                                                         *)
(* IncidentDelivery implements this specification.                         *)
(***************************************************************************)
EXTENDS Naturals

CONSTANT Incident       \* the incidents of one organization

VARIABLES request,      \* request[i]: what became of the notification of i
          messages,     \* messages[i]: root messages Slack accepted for i
          thread        \* thread[i]: the recorded message, 0 when none is

vars == <<request, messages, thread>>

Init ==
  /\ request  = [i \in Incident |-> "unrequested"]
  /\ messages = [i \in Incident |-> 0]
  /\ thread   = [i \in Incident |-> 0]

Request(i) ==
  /\ request[i] = "unrequested"
  /\ request' = [request EXCEPT ![i] = "requested"]
  /\ UNCHANGED <<messages, thread>>

\* A message may still arrive after the request is settled: the sender that
\* settles it need not be the only one.
Send(i) ==
  /\ request[i] # "unrequested"
  /\ messages' = [messages EXCEPT ![i] = @ + 1]
  /\ UNCHANGED <<request, thread>>

Record(i) ==
  /\ request[i] # "unrequested"
  /\ thread[i] = 0
  /\ \E m \in 1 .. messages[i] : thread' = [thread EXCEPT ![i] = m]
  /\ UNCHANGED <<request, messages>>

Deliver(i) ==
  /\ request[i] = "requested"
  /\ thread[i] # 0
  /\ request' = [request EXCEPT ![i] = "delivered"]
  /\ UNCHANGED <<messages, thread>>

Fail(i) ==
  /\ request[i] = "requested"
  /\ request' = [request EXCEPT ![i] = "failed"]
  /\ UNCHANGED <<messages, thread>>

Next == \E i \in Incident :
  \/ Request(i)
  \/ Send(i)
  \/ Record(i)
  \/ Deliver(i)
  \/ Fail(i)

Spec == Init /\ [][Next]_vars
=============================================================================
