------------------------- MODULE MCSignalIngestion --------------------------
(***************************************************************************)
(* Instances of SignalIngestion for TLC: the events that PostHog has, and  *)
(* so which signals arrive by which way.                                   *)
(***************************************************************************)
EXTENDS PosthogIncidents, TLC

\* Two events of one service, so of one webhook fingerprint; the query of a poll
\* returns the second only, under a fingerprint of its own.
Checkout ==
  {[words |-> {}, hour |-> 0,
    fields |-> "uuid" :> "first" @@ "distinct_id" :> "visitor" @@
               "properties.service" :> "checkout"],
   [words |-> {"$exception"}, hour |-> 0,
    fields |-> "uuid" :> "second" @@ "distinct_id" :> "visitor" @@
               "properties.service" :> "checkout" @@
               "properties.$current_url" :> "basket"]}

\* What the destination sends.
Body == {"uuid", "distinct_id", "properties.service"}

WebhookRows == Rows(Delivered)
PollRows    == Rows(Polled)

Resolve == {"acknowledged", "resolved"}

Symmetry == Permutations(Incident) \cup Permutations(Responder)
=============================================================================
