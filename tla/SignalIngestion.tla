-------------------------- MODULE SignalIngestion ---------------------------
(***************************************************************************)
(* How PostHog signals become incidents and how responders move them, for  *)
(* one organization.  Signals arrive by webhook                            *)
(* (crates/api/src/posthog_ingestion.rs) and by polling                    *)
(* (crates/ingestion/src/posthog.rs); responders change the status         *)
(* (crates/api/src/incidents.rs).                                          *)
(*                                                                         *)
(* An ingested signal is one transaction.  It first takes the row or index *)
(* entry of its open incident and then that of its signal, always in this  *)
(* order, and keeps them: such transactions are serial where they meet,    *)
(* and each is one action here.  A status change is not: it reads the      *)
(* previous status in the snapshot of its statement and only then waits    *)
(* for the row, so it may log a status that is no longer the current one.  *)
(***************************************************************************)
EXTENDS Naturals, Sequences, FiniteSets

CONSTANTS
  Incident,     \* incidents; as many as there are may be opened
  Event,        \* source_event_id of the signals
  Fingerprint,
  Responder,    \* requests of responders in progress
  None,         \* null
  ByWebhook,    \* <<event, fingerprint>> a webhook may deliver
  ByPoll,       \* <<event, fingerprint>> a poll may read
  Requested,    \* the statuses responders ask for
  Cap,          \* MAX_SLACK_INCIDENT_DELIVERIES_PER_WINDOW
  MaxChanges    \* bound of the exploration: status changes per incident

\* validate_incident_status.
Status == {"triggered", "acknowledged", "investigating", "mitigated", "resolved", "follow_up"}

ASSUME IngestionAssumption ==
  /\ IsFiniteSet(Incident)
  /\ Requested \subseteq Status
  /\ None \notin Incident \cup Fingerprint
  /\ ByWebhook \subseteq Event \X Fingerprint
  /\ ByPoll \subseteq Event \X Fingerprint
  /\ Cap \in Nat \ {0}
  /\ MaxChanges \in Nat

VARIABLES
  \* the rows of incidents: fingerprint (None: no such row), status, and
  \* whether resolved_at is set
  print, status, stamped,
  \* the rows of signals: incident_id (None: no such row) and fingerprint, and
  \* how many signal.received events were written for each
  signalOf, signalPrint, received,
  \* the incident.status_changed events of an incident, in the order their
  \* transactions changed it: <<previous_status, next_status>>
  changes,
  \* incidents with a delivery job, and those whose job is counted by the cap
  jobs, recent,
  \* status changes in progress: the incident, the status asked for, and the
  \* previous status as the snapshot showed it
  target, wanted, seen,
  \* history: incidents changed by a request whose snapshot was outdated
  raced

incidentVars == <<print, status, stamped>>
signalVars   == <<signalOf, signalPrint, received>>
requestVars  == <<target, wanted, seen>>
vars == <<incidentVars, signalVars, changes, jobs, recent, requestVars, raced>>

TypeOK ==
  /\ print \in [Incident -> Fingerprint \cup {None}]
  /\ status \in [Incident -> Status]
  /\ stamped \in [Incident -> BOOLEAN]
  /\ signalOf \in [Event -> Incident \cup {None}]
  /\ signalPrint \in [Event -> Fingerprint \cup {None}]
  /\ received \in [Event -> Nat]
  /\ changes \in [Incident -> Seq(Status \X Status)]
  /\ jobs \subseteq Incident
  /\ recent \subseteq jobs
  /\ target \in [Responder -> Incident \cup {None}]
  /\ wanted \in [Responder -> Status]
  /\ seen \in [Responder -> Status]
  /\ raced \subseteq Incident

\* A row that does not exist yet, and a responder without a request, show the
\* status "triggered".
Init ==
  /\ print = [i \in Incident |-> None]
  /\ status = [i \in Incident |-> "triggered"]
  /\ stamped = [i \in Incident |-> FALSE]
  /\ signalOf = [e \in Event |-> None]
  /\ signalPrint = [e \in Event |-> None]
  /\ received = [e \in Event |-> 0]
  /\ changes = [i \in Incident |-> <<>>]
  /\ jobs = {}
  /\ recent = {}
  /\ target = [r \in Responder |-> None]
  /\ wanted = [r \in Responder |-> "triggered"]
  /\ seen = [r \in Responder |-> "triggered"]
  /\ raced = {}

Exists(i) == print[i] # None

\* incidents_open_fingerprint_idx: unique where resolved_at is null.
OpenIncidents(f) == {i \in Incident : print[i] = f /\ ~stamped[i]}

\* The incident a signal with fingerprint f goes to: the open one, or a new row.
\* Definitions that stand before a condition below and resemble it are variants
\* with a plausible mistake, which the specification does not use.
Match(f) == OpenIncidents(f)

GoesTo(i, f) == IF Match(f) = {} THEN ~Exists(i) ELSE i \in Match(f)

\* The status an inserted incident gets.
InitialStatus == "triggered"

\* do update set title, severity, metadata: the status stays.
StatusKept(i) == status[i]

UpsertIncident(i, f) ==
  /\ print' = [print EXCEPT ![i] = f]
  /\ status' = [status EXCEPT ![i] = IF Exists(i) THEN StatusKept(i) ELSE InitialStatus]
  /\ UNCHANGED stamped

\* A signal that is known moves to the incident; its fingerprint stays and no
\* event is written.
EventAlways(e) == TRUE
IsNewSignal(e) == signalOf[e] = None

UpsertSignal(e, i, f) ==
  /\ signalOf' = [signalOf EXCEPT ![e] = i]
  /\ signalPrint' = IF signalOf[e] = None THEN [signalPrint EXCEPT ![e] = f] ELSE signalPrint
  /\ received' = IF IsNewSignal(e) THEN [received EXCEPT ![e] = @ + 1] ELSE received

\* can_enqueue_slack_incident_delivery.
CanEnqueueOneLess == Cardinality(recent) + 1 < Cap
CanEnqueue == Cardinality(recent) < Cap

\* The webhook enqueues a delivery for the incident it created, below the cap.
Webhook(e, f) ==
  /\ <<e, f>> \in ByWebhook
  /\ \E i \in Incident :
       /\ GoesTo(i, f)
       /\ UpsertIncident(i, f)
       /\ UpsertSignal(e, i, f)
       /\ IF ~Exists(i) /\ CanEnqueue
            THEN jobs' = jobs \cup {i} /\ recent' = recent \cup {i}
            ELSE UNCHANGED <<jobs, recent>>
  /\ UNCHANGED <<changes, requestVars, raced>>

\* A row of a poll, new or read again in the overlap: no delivery.
Poll(e, f) ==
  /\ <<e, f>> \in ByPoll
  /\ \E i \in Incident :
       /\ GoesTo(i, f)
       /\ UpsertIncident(i, f)
       /\ UpsertSignal(e, i, f)
  /\ UNCHANGED <<changes, jobs, recent, requestVars, raced>>

\* Five minutes after a job was created.
LeaveWindow(i) ==
  /\ i \in recent
  /\ recent' = recent \ {i}
  /\ UNCHANGED <<incidentVars, signalVars, changes, jobs, requestVars, raced>>

\* with existing as (select status from incidents ...), for any incident and
\* any valid status.
ReadStatus(r, i, s) ==
  /\ target[r] = None
  /\ Exists(i)
  /\ Len(changes[i]) < MaxChanges
  /\ target' = [target EXCEPT ![r] = i]
  /\ wanted' = [wanted EXCEPT ![r] = s]
  /\ seen' = [seen EXCEPT ![r] = status[i]]
  /\ UNCHANGED <<incidentVars, signalVars, changes, jobs, recent, raced>>

EndRequest(r) ==
  /\ target' = [target EXCEPT ![r] = None]
  /\ wanted' = [wanted EXCEPT ![r] = "triggered"]
  /\ seen' = [seen EXCEPT ![r] = "triggered"]

\* resolved_at after the update, from the row as it is now.  Where the row has
\* resolved_at set for another reason than its status it is left alone.
NewStamp(r) ==
  IF wanted[r] = "resolved" THEN TRUE
  ELSE IF status[target[r]] = "resolved" THEN FALSE
  ELSE stamped[target[r]]

\* Another incident is open for the fingerprint.
NeverCollides(r) == FALSE
Collides(r) ==
  /\ ~NewStamp(r)
  /\ OpenIncidents(print[target[r]]) \ {target[r]} # {}

\* previous_status <> next_status, of the snapshot.
LogIfUnchanged(r) == seen[r] = wanted[r]
Logged(r) == seen[r] # wanted[r]

\* update incidents ... from existing: the row is locked and changed, the event
\* is inserted, the transaction commits.
ApplyStatus(r) ==
  LET i == target[r] IN
  /\ i # None
  /\ ~Collides(r)
  /\ status' = [status EXCEPT ![i] = wanted[r]]
  /\ stamped' = [stamped EXCEPT ![i] = NewStamp(r)]
  /\ changes' = IF Logged(r)
                  THEN [changes EXCEPT ![i] = Append(@, <<seen[r], wanted[r]>>)]
                  ELSE changes
  /\ raced' = IF seen[r] # status[i] THEN raced \cup {i} ELSE raced
  /\ EndRequest(r)
  /\ UNCHANGED <<print, signalVars, jobs, recent>>

\* Reopening an incident while a newer one is open for its fingerprint
\* violates the index; a lost connection ends the request too.
FailUpdate(r) ==
  /\ target[r] # None
  /\ EndRequest(r)
  /\ UNCHANGED <<incidentVars, signalVars, changes, jobs, recent, raced>>

Next ==
  \/ \E e \in Event, f \in Fingerprint : Webhook(e, f) \/ Poll(e, f)
  \/ \E i \in Incident : LeaveWindow(i)
  \/ \E r \in Responder, i \in Incident, s \in Requested : ReadStatus(r, i, s)
  \/ \E r \in Responder : ApplyStatus(r) \/ FailUpdate(r)

Spec == Init /\ [][Next]_vars

-----------------------------------------------------------------------------

\* Concurrent status changes keep status and resolved_at in step, though each
\* computes resolved_at from what it takes the old status to be.  resolved_at
\* decides whether new signals still join the incident.
ResolvedAtMatchesStatus ==
  \A i \in Incident : stamped[i] <=> status[i] = "resolved"

\* There is never a second open incident for a fingerprint, also when an old one
\* is reopened after the fingerprint came back.
OneOpenIncident ==
  \A i, j \in Incident :
    Exists(i) /\ print[i] = print[j] /\ ~stamped[i] /\ ~stamped[j] => i = j

\* A signal delivered again, by either way and to another incident, is announced
\* once in the timelines.
SignalReceivedOnce ==
  \A e \in Event : received[e] = (IF signalOf[e] = None THEN 0 ELSE 1)

\* The timeline leads from triggered to the current status without a gap, unless
\* a request raced with another on the same incident.
TimelineReplays ==
  \A i \in Incident \ raced :
    LET c == changes[i] IN
    /\ \A k \in 1 .. Len(c) : c[k][1] = (IF k = 1 THEN "triggered" ELSE c[k - 1][2])
    /\ status[i] = (IF c = <<>> THEN "triggered" ELSE c[Len(c)][2])

\* Ingestion neither changes the status of an incident under the hands of its
\* responders nor reopens or resolves it.
OnlyRespondersMoveStatus ==
  [][requestVars' = requestVars =>
       \A i \in Incident : status'[i] = status[i] /\ stamped'[i] = stamped[i]]_vars

\* An incident has no Slack delivery only because it was opened by polling, or
\* because Cap other incidents had theirs.
SilentForAReason ==
  \A i \in Incident :
    Exists(i) /\ i \notin jobs =>
      \/ \E e \in Event : <<e, print[i]>> \in ByPoll
      \/ Cardinality(jobs) >= Cap

(***************************************************************************)
(* Statements of apps/docs/ingestion/posthog-dogfood.md that the code does *)
(* not keep.                                                               *)
(***************************************************************************)

\* l.133: each status change appends an event with the previous status.
EachChangeIsLogged ==
  [][\A i \in Incident :
       status'[i] # status[i] =>
         changes'[i] = Append(changes[i], <<status[i], status'[i]>>)]_vars

\* l.89: repeated runs are idempotent at the signal level.
RepeatedReadsAreIdempotent ==
  [][\A e \in Event : signalOf[e] # None => signalOf'[e] = signalOf[e]]_vars

=============================================================================
