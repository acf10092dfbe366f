---------------------------- MODULE DeliveryCap -----------------------------
(***************************************************************************)
(* The webhook's transaction (crates/api/src/posthog_ingestion.rs) seen    *)
(* from its locks: several replicas of bella-api accept signals of one     *)
(* organization at the same time, and may enqueue only so many deliveries  *)
(* per window.                                                             *)
(*                                                                         *)
(* PostgreSQL's now(), and with it created_at of the job, is the time the  *)
(* transaction began, however long it then waited for its locks: first for *)
(* the entry of its fingerprint in the index of open incidents, then for   *)
(* the organization's advisory lock.  Both are held until it ends.         *)
(***************************************************************************)
EXTENDS Naturals, FiniteSets

CONSTANTS
  Request,      \* webhook requests
  Fingerprint,  \* fingerprints of the incidents they report
  NoRequest,    \* not a request
  Cap,          \* MAX_SLACK_INCIDENT_DELIVERIES_PER_WINDOW, 20 in the code
  Window,       \* five minutes, in ticks
  Slack,        \* the delay between begin and commit VisibleCapHolds allows for
  MaxTime       \* bound of the exploration: the last tick

ASSUME CapAssumption ==
  /\ NoRequest \notin Request
  /\ IsFiniteSet(Request)
  /\ Cap \in Nat \ {0}
  /\ Window \in Nat
  /\ Slack \in Nat
  /\ MaxTime \in Nat

VARIABLES
  now,          \* the clock of the database
  phase,        \* where the transaction of a request is, or how it ended
  startedAt,    \* its now()
  reports,      \* the fingerprint it reports
  advisory,     \* holder of the organization's advisory lock
  open,         \* fingerprints with a committed open incident
  committedAt,  \* when the job of a request became visible; 0 before
  postedAt      \* when its root message was posted to Slack; 0 before

vars == <<now, phase, startedAt, reports, advisory, open, committedAt, postedAt>>

Running == {"begun", "created", "locked", "insert", "skip", "joined"}
Ended   == {"enqueued", "capped", "updated", "rolled_back"}

TypeOK ==
  /\ now \in Nat
  /\ phase \in [Request -> {"new"} \cup Running \cup Ended]
  /\ startedAt \in [Request -> Nat]
  /\ reports \in [Request -> Fingerprint]
  /\ advisory \in Request \cup {NoRequest}
  /\ open \subseteq Fingerprint
  /\ committedAt \in [Request -> Nat]
  /\ postedAt \in [Request -> Nat]

Init ==
  /\ now = 1
  /\ phase = [r \in Request |-> "new"]
  /\ startedAt = [r \in Request |-> 0]
  /\ reports \in [Request -> Fingerprint]
  /\ advisory = NoRequest
  /\ open = {}
  /\ committedAt = [r \in Request |-> 0]
  /\ postedAt = [r \in Request |-> 0]

\* The jobs other transactions can see.  created_at is startedAt.
Jobs == {r \in Request : phase[r] = "enqueued"}

\* The transaction that inserted the incident and has not ended keeps everyone
\* else with this fingerprint waiting.
NobodyWaits(f) == FALSE
Inserting(f) ==
  \E r \in Request : phase[r] \in {"created", "locked", "insert", "skip"} /\ reports[r] = f

Tick ==
  /\ now < MaxTime
  /\ now' = now + 1
  /\ UNCHANGED <<phase, startedAt, reports, advisory, open, committedAt, postedAt>>

Begin(r) ==
  /\ phase[r] = "new"
  /\ phase' = [phase EXCEPT ![r] = "begun"]
  /\ startedAt' = [startedAt EXCEPT ![r] = now]
  /\ UNCHANGED <<now, reports, advisory, open, committedAt, postedAt>>

\* insert into incidents ... on conflict do update: creates the incident, or
\* waits for whoever is creating it and updates what was committed.  The signal
\* and its timeline event follow in the same transaction.
UpsertIncident(r) ==
  /\ phase[r] = "begun"
  /\ ~Inserting(reports[r])
  /\ phase' = [phase EXCEPT ![r] = IF reports[r] \in open THEN "joined" ELSE "created"]
  /\ UNCHANGED <<now, startedAt, reports, advisory, open, committedAt, postedAt>>

\* pg_advisory_xact_lock of the organization.  The definition before it, and
\* those before Inserting, Recent, Opened, Released and OpenedUndone, are
\* variants with a plausible mistake, which the specification does not use.
NoLock(r) == advisory' = advisory
TakeLock(r) ==
  /\ advisory = NoRequest
  /\ advisory' = r

AcquireLock(r) ==
  /\ phase[r] = "created"
  /\ TakeLock(r)
  /\ phase' = [phase EXCEPT ![r] = "locked"]
  /\ UNCHANGED <<now, startedAt, reports, open, committedAt, postedAt>>

\* created_at >= now() - interval '5 minutes'.
RecentByClock(r) == {j \in Jobs : startedAt[j] + Window >= now}
Recent(r) == {j \in Jobs : startedAt[j] + Window >= startedAt[r]}

CountJobs(r) ==
  /\ phase[r] = "locked"
  /\ phase' = [phase EXCEPT ![r] =
                 IF Cardinality(Recent(r)) < Cap THEN "insert" ELSE "skip"]
  /\ UNCHANGED <<now, startedAt, reports, advisory, open, committedAt, postedAt>>

\* What becomes visible of a transaction that created its incident.
Opened(r) == open \cup {reports[r]}

LockKept(r) == advisory
Released(r) == IF advisory = r THEN NoRequest ELSE advisory

\* Insert the job, commit.
CommitWithJob(r) ==
  /\ phase[r] = "insert"
  /\ phase' = [phase EXCEPT ![r] = "enqueued"]
  /\ committedAt' = [committedAt EXCEPT ![r] = now]
  /\ open' = Opened(r)
  /\ advisory' = Released(r)
  /\ UNCHANGED <<now, startedAt, reports, postedAt>>

\* The cap is reached: the incident commits without a job.
CommitCapped(r) ==
  /\ phase[r] = "skip"
  /\ phase' = [phase EXCEPT ![r] = "capped"]
  /\ open' = Opened(r)
  /\ advisory' = Released(r)
  /\ UNCHANGED <<now, startedAt, reports, committedAt, postedAt>>

\* The incident was there already: no job.
CommitUpdate(r) ==
  /\ phase[r] = "joined"
  /\ phase' = [phase EXCEPT ![r] = "updated"]
  /\ UNCHANGED <<now, startedAt, reports, advisory, open, committedAt, postedAt>>

\* A failing statement, a lost connection, a replica that dies: PostgreSQL
\* undoes the transaction and frees its locks.
OpenedKept(r) == IF phase[r] = "begun" THEN open ELSE Opened(r)
OpenedUndone(r) == open

Rollback(r) ==
  /\ phase[r] \in Running
  /\ phase' = [phase EXCEPT ![r] = "rolled_back"]
  /\ open' = OpenedUndone(r)
  /\ advisory' = Released(r)
  /\ UNCHANGED <<now, startedAt, reports, committedAt, postedAt>>

\* The worker delivers a committed job, at any time after its commit: it may
\* have been down, or Slack unavailable.
Post(r) ==
  /\ phase[r] = "enqueued"
  /\ postedAt[r] = 0
  /\ postedAt' = [postedAt EXCEPT ![r] = now]
  /\ UNCHANGED <<now, phase, startedAt, reports, advisory, open, committedAt>>

Handle(r) ==
  \/ UpsertIncident(r)
  \/ AcquireLock(r)
  \/ CountJobs(r)
  \/ CommitWithJob(r)
  \/ CommitCapped(r)
  \/ CommitUpdate(r)

Next == Tick \/ \E r \in Request : Begin(r) \/ Handle(r) \/ Rollback(r) \/ Post(r)

Spec == Init /\ [][Next]_vars

\* A transaction that can go on does; PostgreSQL hands a freed lock to a waiter,
\* so each request gets its turn.
FairSpec == Spec /\ \A r \in Request : WF_vars(Handle(r))

-----------------------------------------------------------------------------

\* No window of five minutes holds more than Cap jobs by created_at, wherever
\* it begins, though transactions that began early may insert late and count
\* from their own beginning.
CapHolds ==
  \A t \in 0 .. MaxTime :
    Cardinality({j \in Jobs : startedAt[j] >= t /\ startedAt[j] <= t + Window}) <= Cap

\* What a channel sees of it: jobs whose transactions took at most Slack become
\* visible at most Cap per five minutes less Slack.
VisibleCapHolds ==
  \A t \in 0 .. MaxTime :
    Cardinality({j \in Jobs : /\ committedAt[j] <= startedAt[j] + Slack
                              /\ committedAt[j] >= t
                              /\ committedAt[j] + Slack <= t + Window}) <= Cap

\* "Writing the incident and job in one transaction avoids a dual-write
\* failure": an open incident has its job, or was refused one by the cap, also
\* when its first creator rolled back while others waited for it.
OpenIncidentsAreAccountedFor ==
  \A f \in open :
    \E r \in Request : phase[r] \in {"enqueued", "capped"} /\ reports[r] = f

\* Requests that race to report one incident enqueue it at most once.
OneJobPerIncident ==
  \A r, s \in Jobs : reports[r] = reports[s] => r = s

\* Waiting for an incident and then for the advisory lock never deadlocks, and
\* an abandoned lock blocks nobody for ever.
EveryRequestEnds ==
  \A r \in Request : phase[r] = "begun" ~> phase[r] \in Ended

\* apps/docs/self-hosting/slack.md l.291 limits "new Slack incident roots"; the
\* code limits the jobs, so a worker that catches up posts more.
RootsAreCapped ==
  \A t \in 1 .. MaxTime :
    Cardinality({r \in Request : postedAt[r] >= t /\ postedAt[r] <= t + Window}) <= Cap

=============================================================================
