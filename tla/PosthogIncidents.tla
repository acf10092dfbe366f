-------------------------- MODULE PosthogIncidents --------------------------
(***************************************************************************)
(* SignalIngestion fed with the identities that PosthogSignals computes:   *)
(* the same events of PostHog arrive by webhook, as the destination's      *)
(* template sends them, and by polling, as the query returns them.         *)
(***************************************************************************)
EXTENDS SignalIngestion, PosthogSignals, Functions

CONSTANTS
  Occurrence,   \* events of PostHog, as PosthogSignals describes them
  Template      \* the paths a webhook destination sends

Sent(o) == [o EXCEPT !.fields = [path \in DOMAIN o.fields \cap Template |-> o.fields[path]]]

Delivered == {WebhookIdentity(Sent(o)) : o \in Occurrence}
Polled    == {PollIdentity(o) : o \in {x \in Occurrence : Selected(x)}}

\* What the columns hold is only compared: any elements of Event and Fingerprint
\* may stand for the identities computed, different ones for different ones.
EventOf == CHOOSE f \in Injection({x[1] : x \in Delivered \cup Polled}, Event) : TRUE
PrintOf == CHOOSE f \in Injection({x[2] : x \in Delivered \cup Polled}, Fingerprint) : TRUE

Rows(identities) == {<<EventOf[x[1]], PrintOf[x[2]]>> : x \in identities}

\* PostHog gives every event a uuid, and the columns hold what is computed.
ASSUME OccurrenceAssumption ==
  /\ \A o \in Occurrence :
       /\ o = [words |-> o.words, hour |-> o.hour, fields |-> o.fields]
       /\ "uuid" \in DOMAIN o.fields
  /\ Injection({x[1] : x \in Delivered \cup Polled}, Event) # {}

\* The source_event_ids under which one selected event may become a signal.
SignalIds ==
  {{EventOf[WebhookIdentity(Sent(o))[1]], EventOf[PollIdentity(o)[1]]} :
     o \in {x \in Occurrence : Selected(x)}}

-----------------------------------------------------------------------------

\* An event that arrives by webhook and by polling, any number of times and in any
\* order, is one signal and is announced once, although the two ways read
\* different payloads and group it differently (normalize_signal of both files).
\* The destination has to send the event's uuid.
OneSignalPerOccurrence ==
  "uuid" \in Template =>
    \A ids \in SignalIds :
      LET known == {e \in ids : signalOf[e] # None}
      IN  /\ Cardinality(known) <= 1
          /\ \A e \in known : received[e] = 1
=============================================================================
