--------------------------- MODULE PosthogSignals ---------------------------
(***************************************************************************)
(* The identity of a PostHog event: from which of its fields a webhook     *)
(* (crates/api/src/posthog_ingestion.rs) and a poll                        *)
(* (crates/ingestion/src/posthog.rs) compute source_event_id, under which  *)
(* the signal is known, and fingerprint, under which it is grouped.        *)
(*                                                                         *)
(* An event is a record: words, what its lower-cased name contains         *)
(* ("$exception": what it is); hour, of detected_at; fields, a function    *)
(* from paths to strings.  A payload is a function from paths to <<form,   *)
(* string>>.  Fields that identify nothing (title, severity, hints, link)  *)
(* are left out, and so is the truncation of long strings.                 *)
(***************************************************************************)
EXTENDS Naturals, Sequences, FiniteSetsExt

Raw(v)  == <<"raw", v>>
Hash(v) == <<"sha256", v>>

\* Of the paths used here: those whose last key the sanitizers take for a URL or
\* for personal data, and those that are not properties of the event.
UrlLike == {"properties.$current_url", "properties.$pathname", "properties.current_url",
            "properties.url", "properties.path", "properties.pathname",
            "properties.referrer", "properties.$referrer"}
Sensitive == {"distinct_id_hash", "issue.name", "properties.email"}
TopLevel == {"uuid", "event_id", "id", "distinct_id", "distinct_id_hash",
             "issue.id", "issue.name", "issue.fingerprint"}

Sanitize(path, v) ==
  IF path \in UrlLike THEN Hash(v)
  ELSE IF path \in Sensitive THEN Raw("[redacted]")
  ELSE Raw(v)

\* A distinct_id is replaced by its hash.
HashedId(fields) == IF "distinct_id" \in DOMAIN fields THEN {"distinct_id_hash"} ELSE {}

SanitizeWebhookPayload(fields) ==
  [path \in (DOMAIN fields \ {"distinct_id"}) \cup HashedId(fields) |->
     IF path \in DOMAIN fields THEN Sanitize(path, fields[path])
                               ELSE Hash(fields["distinct_id"])]

\* A row has the uuid, the distinct_id and the properties.
RowToPayload(fields) ==
  [path \in {"uuid"} \cup (DOMAIN fields \ TopLevel) \cup HashedId(fields) |->
     IF path = "distinct_id_hash" THEN Hash(fields["distinct_id"])
                                  ELSE Sanitize(path, fields[path])]

\* first_string, or a default.
First(payload, paths, default) ==
  LET found == {k \in DOMAIN paths : paths[k] \in DOMAIN payload}
  IN  IF found = {} THEN default ELSE payload[paths[Min(found)]]

\* Where nothing names the event, its sanitized payload does.
PayloadHash(payload) == <<"payload", payload>>

\* The definition before is the list with a plausible mistake, which the
\* specification does not use.
SourceIdPathsWithoutUuid ==
  <<"event_id", "id", "issue.id", "properties.$exception_id">>
SourceIdPaths ==
  <<"uuid", "event_id", "id", "issue.id", "properties.$exception_id">>

SourceEventId(payload) == First(payload, SourceIdPaths, PayloadHash(payload))

WebhookSeedPaths ==
  <<"properties.$exception_fingerprint", "properties.$exception_type",
    "properties.service", "properties.component", "issue.id", "issue.fingerprint">>

PollSeedPaths ==
  <<"properties.$exception_fingerprint", "properties.$exception_type",
    "properties.alert_id", "properties.anomaly_id", "properties.deployment",
    "properties.feature_flag", "properties.service", "properties.component",
    "issue.id", "issue.fingerprint">>

Seed(payload, paths) == First(payload, paths, SourceEventId(payload))

\* URLs are hashes by now.
EntityKey(payload, seed) ==
  First(payload,
    <<"properties.service", "properties.component", "properties.$current_url",
      "properties.$pathname", "properties.current_url", "properties.url",
      "properties.path", "properties.pathname", "properties.referrer",
      "properties.$referrer", "distinct_id_hash">>, seed)

\* signal_type is that of the first word here that the name contains; a row has no
\* issue, which would come second.
SignalTypes ==
  << <<"$exception", "posthog.exception_event">>, <<"alert", "posthog.alert">>,
     <<"anomal", "posthog.anomaly">>, <<"deploy", "posthog.change_marker">>,
     <<"change", "posthog.change_marker">>, <<"feature flag", "posthog.feature_flag">> >>

SignalType(words, payload) ==
  LET all  == words \cup
                (IF "properties.feature_flag" \in DOMAIN payload THEN {"feature flag"} ELSE {})
      fits == SelectSeq(SignalTypes, LAMBDA t : t[1] \in all)
  IN  IF fits = <<>> THEN "posthog.webhook" ELSE fits[1][2]

\* What the query of a poll returns.
Selected(event) ==
  \/ event.words \cap {"$exception", "error", "exception", "alert", "anomal", "deploy",
                       "change", "feature flag"} # {}
  \/ DOMAIN event.fields \cap
       {"properties.$exception_type", "properties.$exception_fingerprint",
        "properties.alert_id", "properties.anomaly_id", "properties.feature_flag"} # {}

\* A webhook groups by the seed alone.
WebhookIdentity(event) ==
  LET payload == SanitizeWebhookPayload(event.fields)
  IN  <<SourceEventId(payload), Seed(payload, WebhookSeedPaths)>>

\* A poll groups by type, entity, seed and hour, within the one project.
PollIdentity(event) ==
  LET payload == RowToPayload(event.fields)
      seed    == Seed(payload, PollSeedPaths)
  IN  <<SourceEventId(payload),
        <<SignalType(event.words, payload), EntityKey(payload, seed), seed, event.hour>> >>
=============================================================================
