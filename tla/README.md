# Bella in TLA+

Specifications of Bella's core: TLA+ modules translated from the Rust sources,
TLC configurations that check them on small instances, and TLAPS proofs of what
holds for every size. Source paths are relative to the repository.

1. [The system](#the-system)
2. [Modules](#modules)
3. [Runs](#runs)
4. [Fairness](#fairness)
5. [Proofs](#proofs)
6. [Where code and docs disagree](#where-code-and-docs-disagree)
7. [Not modelled](#not-modelled)
8. [Plan](#plan)

## The system

Two processes share one PostgreSQL database and talk to PostHog, Slack, OpenAI,
GitHub and a mail service: `bella-api` (HTTP handlers, any number of replicas)
and `bella-worker` (a polling loop, any number of replicas). There is no broker
and no leader. All coordination is PostgreSQL's: row locks, unique indexes,
advisory locks, and columns that act as leases.

| Component | State | Operations | Hard because |
| --- | --- | --- | --- |
| Incident delivery (`crates/worker/src/incident_delivery.rs`, `crates/slack`) | `incident_delivery_jobs` (status, attempts, available_at, locked_at), `incidents.slack_thread_ts`, the Slack channel | claim, load, post, store thread, mark delivered, reschedule | leases of ten minutes, replicas, crashes, lost replies; settling is not fenced by the claim |
| Webhook (`crates/api/src/posthog_ingestion.rs`) | `incidents`, `signals`, `incident_events`, jobs | one transaction per request, with index entry and advisory lock | racing transactions, `now()` fixed at their begin, rollbacks |
| Incidents (`crates/api/src/incidents.rs`) | `incidents.status`, `resolved_at`, timeline | responders change the status | previous status read before the row is locked; reopening against the unique index |
| PostHog polling (`crates/ingestion/src/posthog.rs`) | `posthog_sync_runs`, `posthog_sync_checkpoints` | sync of one window, by worker or user | late events, overlapping syncs, failure between statements, limit of the query |
| Worker loop (`crates/worker/src/main.rs`) | none | OpenAI syncs, PostHog syncs, deliveries, sleep | an error of the due queries ends the process |
| OpenAI import (`crates/ingestion/src/openai.rs`) | provider accounts, checkpoints, sync runs, `usage_buckets`, `cost_snapshots` | sync of one account, by worker or user | no lease; three-day overlap; success is three statements |
| SDK ingestion (`crates/api/src/sdk_ingestion.rs`, `packages/bella-*`) | `sdk_usage_events`, the same buckets | deduplicated insert that adds to buckets | additive writes against a provider sync that overwrites; retries of the client |
| Slack installation and events (`crates/api/src/slack.rs`) | OAuth states, installations, targets, `slack_events` | install, callback, events, target choice, disconnect | single-use states, workspace ownership, events recorded and applied apart |
| Organizations (`crates/api/src/organizations.rs`) | organizations, memberships, invitations | create, invite, accept, revoke, change role, remove | idempotency keys, mail between two transactions, check-then-act |
| Agent settings (`crates/api/src/agent_settings.rs`) | LLM configurations, one default | create, update, delete, set default | the default is moved in several statements |
| Sign-in (`crates/api/src/auth.rs`) | OAuth flows, sessions, API tokens, CLI requests | web and CLI sign-in, logout, revoke | single use and expiry across three parties |
| Rate limiter (`crates/api/src/security.rs`) | `rate_limit_hits` | one transaction per guarded request | advisory lock, clean-up of all keys, transaction time |
| Provider accounts, PostHog settings, GitHub (`provider_accounts.rs`, `integrations.rs`, `github_integration.rs`) | accounts, integrations, credentials, installations | create, validate, update, delete, sync now | remote validation before the write; select-then-insert |
| Agent chat, reporting | none | queries, proxy | - |
| CLI, web application, site, sandbox, MCP stub | client state | calls of the API | - |

How they interact: a signal reaches Bella by webhook or by polling and becomes
an incident; the webhook's transaction enqueues a delivery job for an incident
it created, below a cap; the worker turns the job into a Slack root message and
stores its thread; responders move the incident, and whether it is resolved
decides whether later signals join it.

Around this core, people sign in and found or join organizations; administrators
connect Slack, PostHog, GitHub and provider accounts; the worker and users import
usage and costs from OpenAI into buckets that applications also add to; and a
guard counts requests before the handlers see them. These parts meet in shared
rows only: an organization's installations, credentials and defaults are what the
core reads when it delivers, polls and answers.

What makes each component correct:

| Component | Correct when |
| --- | --- |
| Delivery | it is at least once, duplicates have a cause, and a job is settled once and truthfully |
| Webhook | the cap holds however requests race, and an open incident has its job or was refused one |
| Incidents | one open incident per fingerprint; an event is one signal; the timeline explains the status |
| Polling, OpenAI import | nothing that comes in time is skipped by the checkpoint |
| SDK ingestion | an event is counted once |
| Slack | a workspace has one home; revocation is noticed; a working installation is not blamed without a cause |
| Organizations | one pending invitation per address; whoever joins uses one up; rank is respected |
| Sign-in, creation | one session or token per sign-in, one unasked organization per user, no repeat refused for its own slug |
| Rate limiter | never more than the limit, never a refusal without hits, always an answer |
| Agent settings | never two defaults, and none lost |
| Connections | the last secret and no other; no second row without a race; nothing disabled without a cause |

`PROJECT.json` lists the hazards behind these, each with its source line and the
properties that cover it.

## Modules

| Module | Models | Rests on |
| --- | --- | --- |
| `RootMessage` | what delivery promises, without workers, leases or retries | - |
| `IncidentDelivery` | the queue and the worker replicas | refines `RootMessage` |
| `DeliveryCap` | the webhook's transaction seen from its locks | - |
| `SignalIngestion` | incidents, signals and status changes | - |
| `PosthogSync` | polling windows, checkpoint and runs | - |
| `PosthogSignals` | which id and fingerprint a webhook and a poll compute for an event | - |
| `PosthogIncidents` | `SignalIngestion` fed with these | both |
| `Organizations` | members and invitations of an organization | - |
| `Accounts` | sign-in by browser and command line, creation of organizations | - |
| `SlackInstallation` | OAuth install, installations, events and deliveries that use them | - |
| `UsageImport` | the OpenAI import and SDK events | - |
| `RateLimiter` | the transaction of the request guard | - |
| `AgentSettings` | language-model configurations and their default | - |
| `Connections` | integrations of PostHog and GitHub | - |
| `MC...` | instances for TLC | the module they are named for |

The proofs are in modules of their own:

| Module | Theorems about |
| --- | --- |
| `IncidentDeliveryProofs` | `IncidentDelivery`, and that it implements `RootMessage` |
| `LimitProofs` | `DeliveryCap` and `RateLimiter`, the two that count under a lock |
| `SignalIngestionProofs` | `SignalIngestion` and `PosthogIncidents` |
| `PosthogProofs` | `Connections` and `PosthogSync` |
| `LlmProofs` | `UsageImport` and `AgentSettings` |
| `SlackInstallationProofs`, `OrganizationsProofs`, `AccountsProofs` | the module they are named for |

A proof module that is about two specifications extends both. The names of one of
them therefore begin with a prefix where both have the same: `GuardInit`,
`GuardNext`, `GuardSpec`, `GuardTypeOK` in `RateLimiter`, `Poll...` in
`PosthogSync`, `Agent...` in `AgentSettings`.

Next to some conditions stand variants with a plausible mistake in the name
(`NeverAnnounced`, `RecentByClock`, `NoCandidates`, ...). No specification
uses them. `PROJECT.json` pairs every checked property with one of them: put in
the place of the real condition, it makes the property fail.

### IncidentDelivery and RootMessage

One organization. A job exists per incident (`dedupe_key` is the incident id),
so both are indexed by `Incident`. Each statement or HTTP call of
`deliver_slack_incident_opened` is an action of a worker `w`, at the program
point `pc[w]`:

| Action | Code |
| --- | --- |
| `ClaimDueJobs` | `claim_due_jobs`, `CLAIM_DUE_JOBS_SQL`: any set of at most `ClaimLimit` due jobs, since locked rows are skipped |
| `LoadIncident` | the next job of the batch; an incident with a thread goes straight to `mark_delivered`; an error of the query is rescheduled |
| `LoadTarget` | `load_slack_delivery_target` and decryption of the token; the error of either |
| `PostAccepted`, `PostReplyLost`, `PostRefused` | the outcomes of `post_message_with_client`, as far as the worker tells them apart |
| `MarkNeedsAttention` | a revoked token is reported on the installation before the job is rescheduled, or the report fails |
| `StoreThread` | `update incidents ... where slack_thread_ts is null` (`ThreadUpdated`); no row is an error, and so is an answer that does not come, of an update that committed or did not (`ThreadUpdateErrs`) |
| `ProcessJobErrs` | how `process_due` answers any error of `process_job`: by `reschedule_job` |
| `MarkDelivered`, `RescheduleJob` | both guarded by `status = 'processing'` only |
| `Crash` | the process dies, or an error of `claim_due_jobs`, `mark_delivered` or `reschedule_job` returns from `process_due`; the batch stays claimed |

Time is kept as countdowns: `availableIn` and `leaseLeft` in ticks. A job whose
lease reaches 0 while its holder works is a *stall*, and counts as a fault. The
faults a behaviour may contain are bounded by `Budget`. `lost`, `hidden`,
`overtakes` and `reclaims` are history: they count what may cause duplicates,
extra attempts and wrong verdicts. `hidden` are the errors that kept a worker from
knowing of a thread that is stored: its attempt counts as failed, at the last one
for good.

`RootMessage` says what is left when all this is hidden: messages are sent, one
of them may be recorded and is never replaced, a request is settled once, and as
delivered only with a record. The refinement maps a job's status to the request
and hides everything else.

### DeliveryCap

The handler `webhook` between `begin` and `commit`, for one organization. A
request takes the entry of its fingerprint in the index of open incidents
(`UpsertIncident`), then, if it created the incident, the organization's advisory
lock (`AcquireLock`); it counts (`CountJobs`) and ends (`CommitWithJob`,
`CommitCapped`, `CommitUpdate`, `Rollback`). `startedAt` is the transaction's
`now()` and the job's `created_at`; others see a job from `committedAt` on.
Requests that join an incident that is already there hold its row until they
end; nothing else depends on it, and it is left out. `Post` is the delivery worker,
reduced to posting a job at any later time.

### SignalIngestion

An ingested signal is one action: the transactions of webhook and polling take
the open incident first and their signal second and hold both, so they are
serial wherever they meet. `GoesTo` is `insert ... on conflict ... where
resolved_at is null`; a known signal moves (`signalOf`) but keeps its
`fingerprint` and writes no event. A status change is two actions, `ReadStatus`
(the CTE, in the statement's snapshot) and `ApplyStatus` (the locked update, the
event, the commit). `recent` are the jobs the cap counts; `LeaveWindow` is the
passing of five minutes. Which ids and fingerprints arrive by which way are the
constants `ByWebhook` and `ByPoll`.

### PosthogSignals and PosthogIncidents

`PosthogSignals` translates the two copies of `normalize_signal` and what runs
before them: a webhook's payload is sanitized as it comes
(`SanitizeWebhookPayload`), a row of a poll is made into a payload first
(`RowToPayload`). `First` is `first_string`, the first path that is there, and
hashes are injective. The two ways agree on `source_event_id` and not on
`fingerprint`, which polling makes from type, entity and hour besides.
`PosthogIncidents` computes `ByWebhook` and `ByPoll` from the same events and
states that each becomes one signal.

### PosthogSync

`sync_integration` as run by the worker and by users, with no lease: `ReadClock`,
`OpenWindow` (checkpoint and run row), `QueryPosthog` (the first `Limit` rows by
time), `StoreRow` per row, `MarkSucceeded`, `SaveCheckpoint`; `Fail`, `MarkFailed`
and `Crash` at any point between. Events have a time at which they happened and a
later one at which queries begin to show them. Storing a row is
`SignalIngestion!Poll`, here reduced to a set.

### Organizations

Each request is a process whose handler takes one step per statement, or per group
of statements under one lock: the advisory lock of an address in
`create_invitation`, the row lock of an invitation in `accept_invitation`.
`update_member` and `remove_member` have neither, so roles move between their
three statements; `promoted` remembers removals that this overtook. A mail may
arrive although sending it failed (`SendInvitationEmail`), and the handler then
revokes what may have been accepted (`RevokeUnsent`).

### Accounts

`auth.rs` and the creation of organizations in `organizations.rs`, which its
callback calls. A flow is an `oauth_flows` row and, for a command line, its
`cli_login_requests` row. `ConsumeFlow` deletes the row and so happens once;
`CompleteCliLogin` mints a token only if the request is still there; `CliPoll`
hands it out and `CliGivesUp` is the client's timeout. `List` and the callback may
found the user's organization under an advisory lock (`OnboardingFree`), `Create`
under that of its idempotency key. Expired rows behave like deleted ones.

### SlackInstallation

Rows are named by their unique keys: an installation by organization and
workspace, an integration by organization and display name, under which the
token is stored. A callback goes from `ConsumeState` to `ExchangeCode`,
`EnsureAvailable`, `UpsertIntegration` and `StoreInstallation`, the last three in
one transaction. An event is found, recorded, applied and marked in separate
statements (`FindInstallation`, `RecordEvent`, `ApplyEvent`,
`MarkEventProcessed`). A delivery reads the token (`LoadTarget`), is refused, and
marks the installation later (`MarkNeedsAttention`): the `Disconnect` of
`IncidentDelivery`. Slack is external: it installs, uninstalls, renames, and sends
events in any order, any number of times.

### UsageImport

`sync_account` as run by the worker and by `sync_now`, with no lease: two streams,
each with its window (`OpenRun`), pages (`FetchPages`), rows (`StoreRow`) and
checkpoint (`StreamDone`, `MarkSuccess`). Versions stand for figures: `truth` is
what the provider says of a day, `bucket` what Bella has. `Upsert` and `Delete` of
the account happen at any point. An SDK request inserts its event, adds to the
bucket and commits; a second one with the event's id waits for the first.

### RateLimiter

`check_rate_limit`, statement by statement: `DeleteAncient` (old hits of every
key), `LockKey`, `DeleteExpired`, `CountHits`, `CommitHit`. Deleted rows stay locked until the
end, so two requests of different keys may wait for each other
(`DeadlockDetected`). `begin` is the transaction's `now()`. Policies differ in
limit and window, as in `rate_limit_policy`; a request without one is not counted.

### AgentSettings

Each statement is a step under read committed: `Sees` is what a transaction sees,
`Free` the row locks it waits for, `Decided` the wait for the index of defaults.
An update judges a row again after waiting and looks for no other (`ClearRow`,
`PromoteCandidate`). `raced` marks what the code cannot prevent: the default is
deleted while another configuration is created or deleted.

### Connections

`save_posthog_settings`, `rotate_posthog_webhook_secret`, GitHub's callback and the
two disconnects select the oldest integration of their type and then write one
(`SelectOldest`, `WritePosthog`, `WriteGithub`). Requests are numbered as their
transactions begin, and a secret is named by the request that made it. `Webhook`
applies GitHub's events, in any order and again.

## Runs

| Run | Bounds | Shows |
| --- | --- | --- |
| `delivery_safety` | 3 workers, 1 job, 2 attempts, every kind of fault | what duplicates, extra attempts and failed jobs are charged to; the refinement of `RootMessage` |
| `delivery_liveness` | 2 workers, 2 jobs, the code's 5 attempts, a crash, an error of the database, a lost reply, a refusal | every job settles, retries outlast the outage |
| `cap_requests` | 3 requests, 2 fingerprints, cap 1, window of 2 ticks | the cap and its locks, safety and liveness |
| `signals_incidents` | 3 incidents, 3 events, 2 responders, 2 changes each | incidents, signals, timelines |
| `posthog_overlap` | a user and the worker, 2 events | no timely event lost, no orphaned run but a dead sync's |
| `organizations_members` | an owner and 2 users, 2 invitations, 2 requests at a time | invitations, joins, removals |
| `slack_installs` | 2 organizations, 2 workspaces of 2 installs, one renamed, 2 flows, 2 events, 2 handlers | homes, revocations, blame |
| `usage_syncs` | 5 days, 2 syncs, overlap 1, lookback 2, 2 SDK requests of one event | corrections kept, events counted once |
| `accounts_signin` | 2 users, 2 flows, 2 handlers, one name, slug and key | sign-ins, onboarding, repeats |
| `ratelimiter_guard` | 4 requests, 2 policies (2 in 2 ticks, 1 in 1), retention 3 | limit, refusals, answers |
| `agent_default` | 3 configurations, 3 handlers | the default |
| `connections_rows` | 2 handlers, 2 names, 2 GitHub installations, 3 numbers | secrets, rows, GitHub's status |

Why these bounds are enough to be interesting. An overtaken worker needs a second
one that claims its job, and a third lets the second be overtaken in turn; with
2 attempts every branch of the retry policy is taken within one budget. One job
suffices where jobs do not interact: they share a worker's batch only, which
`delivery_liveness` has; it has no stalls, which `delivery_safety` has. The cap is
about one transaction counting before another
inserts; a cap of 1 with three requests has two that fit in different windows and
one that falls between them, and time runs past two windows. Three incidents are
one resolved, its successor, and one of another fingerprint; one of the two events
of a fingerprint is also polled, under another. In `posthog_overlap`
`Lag`, `Overlap` and the first window are 1, 1 and 2 ticks, so that an event can
miss one window, and two ticks pass for a second sync to move the checkpoint past
it. Two requests at a time are enough for a race between two handlers, and the
things they race about come in twos: two addresses and two invitations of one,
two homes for a workspace, two flows for one user. `AgentSettings` has three
handlers, because one may wait for the default of a second while a third deletes.
In `usage_syncs` a day can be corrected before, between and after two windows. In
`ratelimiter_guard` retention is one window and one wait, so that clean-up by age
and by window overlap, as two requests that wait for each other need.

`Budget`, `MaxTime`, `MaxChanges`, `MaxRuns`, `MaxGen`, `MaxNumber`, `MaxRequests`
and the finite sets of flows, events, invitations and installations bound the
exploration only and are named so where they are declared. Two bounds are
assumptions about the world: `RateLimiter!MaxWait`, how long a request's
transaction takes, by which `LimitHolds` weakens the window, and
`UsageImport!MaxRun`, how long a sync runs, which with the overlap and the five
minutes to settle must stay within the lookback (some 27 of 30 days in the code).

Deadlock is not checked: with nothing due, no fault and no request left the
modelled systems rest. Waiting for ever is found by the liveness properties, in
the two modules whose locks could cause it.

Every module with variables has a type invariant `TypeOK`, with its prefix where
it has one. Each is a theorem (`TypeCorrect`, `GuardTypeCorrect`,
`PollTypeCorrect`, `AgentTypeCorrect`); the runs leave them to TLC's own errors
and spend their time on the other properties.

## Fairness

`IncidentDelivery!FairSpec` assumes that each worker takes its steps (the loop of
`main.rs` polls for ever, its calls have timeouts, and a supervisor restarts it)
and that time passes. It assumes nothing of Slack, faults or reconnection: every
outcome of a call is a step of the worker, so a fair worker may still be refused
as often as the budget allows. `EveryIncidentIsAnnounced` therefore speaks of
outages shorter than the retries, which is what the retry policy can promise.

`DeliveryCap!FairSpec` assumes that a transaction whose next step is enabled takes
it. PostgreSQL queues those who wait for a lock, and there are finitely many
requests, so weak fairness is enough.

`RateLimiter!Fairness` is the same of the guard's transaction, and adds that
PostgreSQL finds a cycle of waiting transactions (its `deadlock_timeout`) and ends
one of them.

The other modules state safety only. Whether a sync, a callback or a sign-in ends
is up to the network and to people, and no code waits for it.

## Proofs

All theorems hold for any number of workers, jobs, requests, incidents, responders,
syncs, events, users, workspaces and configurations, and any value of the
parameters that satisfies the named assumption of the module. Most of these only
say that a number is a natural one, that a null value is none of the others or
that a set is finite. The ones that say more:

| Assumption | Says | Because |
| --- | --- | --- |
| `RateAssumption` | a wait is no longer than a window, and retention covers both | windows are one to five minutes, statements take seconds, and hits are kept for ten minutes |
| `UsageAssumption` | `MaxRun + Overlap + Settle <= Lookback` | 3 days, 5 minutes and 30 days; a sync runs minutes |
| `OccurrenceAssumption` | an event has a `uuid`, possibly an unreadable one, and texts can be told apart | PostHog's query selects `uuid` of every event |
| `AccountsAssumption` | no idempotency key is "default"; names and users have a slug each | "default" stands for onboarding's lock, which has a prefix of its own; slugs are computed |
| `OwnerAssumption` | there is an owner | `create` inserts one, and nothing makes or unmakes another |

Each induction is on a conjunction `IInv` of named parts, which TLC has checked on
the run's instance as well. Next to the properties it holds what the processes
at work must know for the next step to keep them.

**IncidentDelivery.** `Invariance` proves `IInv == TypeOK /\ WorkerInv /\
DeliveredHasThread /\ FailedMeansExhausted` inductive. `DeliveredHasThread` alone
is not: a worker at `mark_delivered` must know that its incident has a thread,
and one at `store_thread` that the ts it carries is a message of its job.
`FailedMeansExhausted` needs that no claim, however old, counts more attempts
than its job. Both are `WorkerInv`. From `IInv` follow `ThreadWrittenOnce`,
`SettledForGood`, and `Refinement`: each action maps to an action of
`RootMessage` or to a stutter.

**What duplicates and attempts are charged to.** Four theorems about counts, each
with an invariant of its own next to `IInv`.
`DuplicatesHaveACause` counts workers. While no thread is stored, every message
is lost or in hand (`InHand`: posted, ts not yet stored). Once one is stored, only
those who were `Poised` to post then can send or drop another. The first and the
second are disjoint sets of holders, and there is at most one holder more than
overtakes; so the store turns one account into the other (`Account`).
`FailuresAreAccountedFor`: a holder nobody overtook is alone, so at its last
reschedule nothing is in hand; without a thread all messages are lost, and a thread
is stored only if an error hid it from this holder or from an earlier one. `OverlapsNeedStalls`: as long as no
lease runs out under its holder, claim and row say the same.
`AttemptsAreBounded`: only a worker with a claim below `MaxAttempts` returns a job
to pending, and gives that claim back; no claim is given out twice, so this
happens fewer than `MaxAttempts` times (`Tried`), and every other claim is of a
lease that has run out. The workers are assumed to be finitely many.

**DeliveryCap.** `CapIsKept`: take any window that holds a job about to be
inserted. Every other job in it lies within `Window` before the new one's
`created_at` or after it, so it was counted; the count left room; and nobody
inserted since, because whoever counts holds the advisory lock (`LockInv`,
`RoomInv`). `VisibleCapIsKept` places a window of commit times, `Slack` shorter, in
a window of `created_at`. `NoDualWrite` and `OneJob` use a second invariant: a
fingerprint has one creator at a time, and only while no incident of it is open.

**SignalIngestion.** The invariants the run checks are inductive together with
two small ones: a row that does not exist is triggered, and a request is about a
row that exists. `JoinsOpen` is the step that matters: the incident a signal goes
to is not resolved, so the signal neither reopens it nor moves its status. From
it follows the action property `OnlyRespondersMoveStatus`. `TimelineReplays` needs no more than the definition of
`raced`: a request whose snapshot was current appends an entry that begins where
the last one ended.

`OneSignal` is about what `PosthogSignals` computes and needs no induction of its
own: the webhook and a poll look for an id along the same paths, and the first of
them, `uuid`, is there in every row and in every payload whose template sends it.
So both find the same, whatever else they have removed or hashed.

**PosthogSync.** `NothingTimelyIsLost`: let an event be covered by a time `c` when
it is stored or may still be read by a sync that starts from the checkpoint `c`.
All timely events are covered by the checkpoint (`CoverInv`), and were so when a
sync read it as its `base`, because what arrives later arrives within `Lag` of a
clock that is already `Lag` past `c`. When a sync saves the end of its window, an
event that happened before the window was covered by `base`, and one that
happened in it was read or arrived after the query (`ReadInv`), too late to
matter. No step needs to know what other syncs do: last writer wins is harmless.
`RunsAreClosed` follows from types alone: the syncs of a window share its row, and
whoever leaves closes the row for all of them, or dies and is remembered in
`crashed`.

**RateLimiter.** `LimitIsKept`: take an interval shorter than the window by the
longest wait, and a request about to be admitted in it. Every other request
admitted in it still has its hit (`HitInv`: a counted request loses its hit only
after its window), began within the window, and was committed under the lock that
this one holds now (`GuardLockInv`). Hence it was counted, and the count left room
(`GuardRoomInv`). `RefusalsHaveReasons` is the converse: what is counted at a refusal has
not expired, since expired hits of the key were deleted under the same lock
(`PrunedInv`), and no request counts as its own reason.

**Connections.** `OnlyTheLastSecret`: while PostHog has one row, its secret is the
last or none. A request inserts only if it found no row, and then either it is
still alone or its insertion crossed another, which `crossed` records
(`CrossingInv`); so two rows mean a crossing (`NoSecondAlone`). Numbers tie a request
to the row and the secret it makes (`NumberInv`). `NoStrayDisable`: an event names
an installation, and only rows that still hold that installation are touched.

**AgentSettings.** `NeverTwoDefaults` holds of committed rows because it holds of
what transactions have written: only one of them has a default in the index
(`IndexLock`), and it has also written the row that was the default before
(`IndexInv`). `DefaultIsKept` needs to know where a default can vanish: a
transaction that cleared it carries a new one to its commit, unless it
deletes a configuration. Then it promotes another that it sees, and that one can only
disappear, or have come too late to be seen, under another request that creates
or deletes at that time. This is what `raced` says.

**UsageImport.** `CorrectionsAreKept` rests on what the clock says about windows.
Call a day *good* when its figures are the provider's, or it was corrected late, or
its page was stored in the wrong order. A good day that is past every overlap stays
good (`GoodKept`). `KeptInv` says that all days are good from the earliest window to an
overlap before the checkpoint. A sync's page is right but for late corrections
(`PageInv`), what it has stored is good (`StoredInv`), and so is what lies before its
window (`BeforeInv`), whatever the checkpoint does while it runs. The last is the
hard one: when two first syncs run at once, the one that succeeds may have looked
further back than the other. The days between their windows must then be among
those it has stored, and they are unless it ran for about as long as it looks back
(`BeforeSuccess`). This is where the assumption is needed, and TLC finds a
correction lost without it.
`EventsCountOnce` needs that an event being inserted is neither reported nor
anyone else's, and that a deletion waits for it.

**SlackInstallation.** `OneHome` holds by the check under the locks of
`StoreInstallation`. `RevocationsAreNoticed` follows an event from Slack to the row:
a token that was accepted when it was stored ends with an event (`EndInv`), and an
installation that such an event has not reached (`Unaware`) has not yet been told
by whoever handles it, who will find exactly this installation (`ToldInv`). An
installation stored with a token that was already dead (`late`) is the exception the
property names. `BlamesHaveACause` needs that no one holds a token that Slack has not
issued (`GenInv`), and that a report or a refusal was true of the token it is
about (`SentInv`).

**Organizations.** `OneInvitation` holds because an address is invited by one
request at a time, and what that found under the lock is still so when it inserts
(`EmailInv`). `JoinsAreInvited` needs the same of an invitation: its row is locked from
the check to the commit, and remains pending and the caller's own (`RowInv`,
`FreshInv`). `RankIsRespected` needs that there is one owner for ever (`OwnerInv`)
and that whom an administrator is about to remove has not become one since, except
by a change that `promoted` records (`RankInv`). The invariant turned out not to be
inductive when somebody leaves and returns as an administrator through an invitation
between the check and the removal. The runs had too few invitations to show it.
`remove_member` does not look again, so `promoted` now covers both ways.

**Accounts.** `OneSignIn`: `ConsumeFlow` deletes the row, so a sign-in has one
handler, and no session and no token before that one commits (`FlowInv`). What it
does not say is that every token is fetched: one whose request expires, or whose
command line gives up, right after it was minted is collected by nobody and stays
valid for its ninety days. `OneDefault` and
`RetriesSucceed` are about locks: whoever makes an organization for a user and a key
is the only one, and nobody has made it before (`LockInv`). An inserted slug is its
own (`SlugInv`), and slugs are not given up, so a request refused once would be
refused again: it is not one that was answered (`RefusedInv`).

**Only model-checked.** All liveness (`EveryJobSettles`,
`EveryIncidentIsAnnounced`, `EveryRequestEnds`, `RequestsAreAnswered`): temporal
reasoning under fairness is out of the prover's reach. Every safety property of a run is proved, and so are
`DeliveredHasThread`, `FailedMeansExhausted`, `ThreadIsWrittenOnce`,
`SettledIsFinal`, `ResolvedAtMatchesStatus` and `OnlyRespondersMoveStatus`, which no
run repeats.

**What properties except.** Some of the code's races really lose something. The
property about such a race names it as an exception, so that it says what the rest
of the code guarantees; it does not say that the race goes well.

| Property | Excepts | Which in the code |
| --- | --- | --- |
| `TimelineReplays` | `raced` incidents | a previous status read before the row was locked is logged as it was |
| `NoOrphanedRun` | the windows in which a process died (`crashed`) | their runs stay running |
| `RevocationIsNoticed` | a token stored after it died, an event not marked done | the handler died after recording it: the event is lost |
| `BlameHasACause` | `misjudged` marks | a late event or a refusal of an old token marks the new installation |
| `RemovalsRespectRank` | `promoted` users | are removed by someone who no longer outranks them |
| `NoTimelyCorrectionIsLost` | `overwritten` days | older figures were stored over newer ones |
| `DefaultSurvives` | `raced` handlers | a default is deleted while another configuration comes or goes, and none is left |
| `LastSecretOnly`, `SecondNeedsACrossing` | requests that `crossed` | a second row, and with it a second valid secret |

## Where code and docs disagree

Each is a definition that states what the docs say and that the code does not
keep. The module has it; put among the properties of the run named, it makes TLC
show how.

| Statement | Definition, run | What the code does |
| --- | --- | --- |
| "The stored thread timestamp prevents normal retries from creating another root message" (`incident-delivery.md` l.166) | `NormalRetriesDoNotDuplicate`, `delivery_safety` | a lost Slack reply is an error like any other, and the next normal retry posts a second root message |
| "attempt 5: failed permanently" (`incident-delivery.md` l.85) | `LastAttemptIsFinal`, `delivery_safety` | the claim does not look at attempts: a worker that dies on the last one leaves the job to be claimed again |
| "Bella limits new Slack incident roots to 20 per organization in five minutes" (`slack.md` l.291) | `RootsAreCapped`, `cap_requests` | the limit counts jobs when they are enqueued; a worker that catches up posts those of several windows at once |
| "Each status change appends an `incident.status_changed` timeline event with the previous status, next status, and actor user ID" (`posthog-dogfood.md` l.133) | `EachChangeIsLogged`, `signals_incidents` | of two racing changes the second compares with and logs a status the incident no longer has, or logs nothing |
| "repeated runs are idempotent at the signal level" (`posthog-dogfood.md` l.89) | `RepeatedReadsAreIdempotent`, `signals_incidents` | an event read again after its incident was resolved opens a new incident and moves the signal there |
| "Later syncs start from the saved checkpoint with a fifteen-minute overlap so late-arriving events are retried" (`posthog-dogfood.md` l.87) | `WindowsAreReadWhole`, `posthog_overlap` with `Limit = 1` | a window of more events than the query's limit is not read whole, and the checkpoint moves past the rest |

## Not modelled

- Titles, severities, metadata, formatting and truncation: data the properties do
  not tell apart.
- Authentication and membership checks that only refuse or let pass; those whose
  answer is used later (`remove_member`, `update_member`) are steps.
- The order of due jobs within a claim (`order by available_at`): any due job may
  come first, which allows more behaviours than the code has.
- Clock skew between Bella and its providers.
- Replies without their content: `posthog.rs` takes a success without results as an
  empty window; and a group of figures that vanishes in a correction: `openai.rs`
  writes the groups it is sent and deletes none, the model has one figure for a day.
- The legacy webhook secret of the configuration, which is accepted beside those of
  the integrations where it is set (`posthog_ingestion.rs` l.258-263).
- In polling, the kill switch, several integrations of an organization and the
  connection check; in the import, `next_sync_at` and the ten accounts of a round;
  the renaming of accounts; the check of request origins (no state).
- GitHub's repositories, which a sync adds and renames and never removes, and
  PostHog's project key: copies of what the provider said.
- SDK events without any dimension share the bucket key of a provider's figures,
  which a sync overwrites; `UsageImport` keeps the two kinds of bucket apart.
- A credential replaced by that of another account keeps the checkpoints; the model
  has one set of figures and cannot tell the accounts apart.
- Agent chat and reporting (read-only), routing and configuration, encryption,
  the other commands of the CLI, sandbox, MCP stub, web application and site:
  clients and plumbing with no protocol of their own.

## Plan

The core came first because a customer notices its failures: delivery, its cap,
incidents and signals, polling. The other components that keep state followed.
What is left:

1. A composition of `SignalIngestion` and `IncidentDelivery` through the job.
2. Two provider accounts and a replaced credential in `UsageImport`.
3. Abstract specifications of the newer modules, as `RootMessage` is of delivery:
   first of the limiter and of the import.

No module uses `RECURSIVE`.
