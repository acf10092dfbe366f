---------------------------- MODULE PosthogSync -----------------------------
(***************************************************************************)
(* Polling PostHog for one integration (crates/ingestion/src/posthog.rs):  *)
(* the worker's loop and manual requests to bella-api run the same sync,   *)
(* with no lease between them.  A sync reads the clock, reads the          *)
(* checkpoint, records its run, queries a window of events, stores them    *)
(* one by one, closes its run and saves the checkpoint; each of these is a *)
(* statement of its own, and it may fail or die between any two.           *)
(*                                                                         *)
(* Storing a row is the transaction SignalIngestion!Poll; here it is one   *)
(* element of ingested.  Events carry the time they happened and appear in *)
(* PostHog later, in any order.                                            *)
(***************************************************************************)
EXTENDS Naturals, FiniteSets

CONSTANTS
  Syncer,     \* runs of sync_integration that may overlap
  Manual,     \* those requested by users; the others are the worker's
  Event,      \* error events in PostHog
  Lag,        \* window_end is this far behind the clock: 2 minutes
  Overlap,    \* window_start is this far behind the checkpoint: 15 minutes
  FirstSync,  \* length of a window without checkpoint: 6 hours
  Interval,   \* BELLA_POSTHOG_SYNC_INTERVAL_SECONDS
  Limit,      \* rows of a query: 500
  MaxTime,    \* bound of the exploration: the last tick
  MaxRuns     \* bound of the exploration: no sync begins once there are as many
              \* rows in posthog_sync_runs

ASSUME SyncAssumption ==
  /\ Manual \subseteq Syncer
  /\ IsFiniteSet(Event)
  /\ Lag \in Nat
  /\ Overlap \in Nat
  /\ FirstSync \in Nat \ {0}
  /\ Interval \in Nat
  /\ Limit \in Nat \ {0}
  /\ MaxTime \in Nat
  /\ MaxRuns \in Nat

VARIABLES
  now,
  \* events in PostHog: when they happened and when a query began to show them
  \* (0 is not yet)
  happenedAt, arrivedAt,
  \* signals stored by Bella; last_synced_at (0: no row); posthog_sync_runs,
  \* keyed by their window
  ingested, checkpoint, runs,
  \* the syncs in progress: program point, checkpoint read, window, rows to store
  pc, base, windowStart, windowEnd, rows,
  \* history: a query left rows out; the windows in which a sync died with their
  \* run open; the latest start of a window that had no checkpoint and saved one
  truncated, crashed, origin

eventVars == <<happenedAt, arrivedAt>>
syncVars  == <<pc, base, windowStart, windowEnd, rows>>
pollVars == <<now, eventVars, ingested, checkpoint, runs, syncVars, truncated, crashed, origin>>

Point     == {"idle", "requested", "clock_read", "query", "rows", "succeeded", "failed"}
RunStatus == {"running", "succeeded", "failed"}

PollTypeOK ==
  /\ now \in Nat
  /\ happenedAt \in [Event -> Nat]
  /\ arrivedAt \in [Event -> Nat]
  /\ ingested \subseteq Event
  /\ checkpoint \in Nat
  /\ runs \subseteq [start : Nat, end : Nat, status : RunStatus]
  /\ pc \in [Syncer -> Point]
  /\ base \in [Syncer -> Nat]
  /\ windowStart \in [Syncer -> Nat]
  /\ windowEnd \in [Syncer -> Nat]
  /\ rows \in [Syncer -> SUBSET Event]
  /\ truncated \in BOOLEAN
  /\ crashed \subseteq [start : Nat, end : Nat]
  /\ origin \in Nat

\* The clock starts late enough for a first window to lie after time 0.
PollInit ==
  /\ now = Lag + FirstSync + 1
  /\ happenedAt = [e \in Event |-> 0]
  /\ arrivedAt = [e \in Event |-> 0]
  /\ ingested = {}
  /\ checkpoint = 0
  /\ runs = {}
  /\ pc = [s \in Syncer |-> "idle"]
  /\ base = [s \in Syncer |-> 0]
  /\ windowStart = [s \in Syncer |-> 0]
  /\ windowEnd = [s \in Syncer |-> 0]
  /\ rows = [s \in Syncer |-> {}]
  /\ truncated = FALSE
  /\ crashed = {}
  /\ origin = 0

(***************************************************************************)
(* The environment.                                                        *)
(***************************************************************************)

Tick ==
  /\ now < MaxTime
  /\ now' = now + 1
  /\ UNCHANGED <<eventVars, ingested, checkpoint, runs, syncVars, truncated, crashed, origin>>

\* PostHog begins to show an event that happened at t.
Arrive(e) ==
  /\ arrivedAt[e] = 0
  /\ \E t \in 1 .. now : happenedAt' = [happenedAt EXCEPT ![e] = t]
  /\ arrivedAt' = [arrivedAt EXCEPT ![e] = now]
  /\ UNCHANGED <<now, ingested, checkpoint, runs, syncVars, truncated, crashed, origin>>

(***************************************************************************)
(* The sync.  The definitions before Start and RunWith are variants with    *)
(* a plausible mistake, which the specification does not use.              *)
(***************************************************************************)

\* due_integrations.
Due == checkpoint = 0 \/ checkpoint + Interval <= now

\* A user asks for a sync, or the worker finds the integration due.
Request(s) ==
  /\ pc[s] = "idle"
  /\ s \in Manual \/ Due
  /\ Cardinality(runs) < MaxRuns
  /\ pc' = [pc EXCEPT ![s] = "requested"]
  /\ UNCHANGED <<now, eventVars, ingested, checkpoint, runs, base, windowStart, windowEnd,
                 rows, truncated, crashed, origin>>

ReadClock(s) ==
  /\ pc[s] = "requested"
  /\ pc' = [pc EXCEPT ![s] = "clock_read"]
  /\ windowEnd' = [windowEnd EXCEPT ![s] = now - Lag]
  /\ UNCHANGED <<now, eventVars, ingested, checkpoint, runs, base, windowStart, rows,
                 truncated, crashed, origin>>

\* From the checkpoint less the overlap, or a first window.
StartWithoutOverlap(c, end) == IF c = 0 THEN end - FirstSync ELSE c
Start(c, end) ==
  IF c = 0 THEN end - FirstSync
  ELSE IF c < Overlap THEN 0 ELSE c - Overlap

\* insert into posthog_sync_runs ... on conflict do update: one row per window.
RunKept(start, end, st) == runs \cup {[start |-> start, end |-> end, status |-> st]}
RunWith(start, end, st) ==
  {x \in runs : x.start # start \/ x.end # end}
    \cup {[start |-> start, end |-> end, status |-> st]}

\* sync_integration returns.
Return(s) ==
  /\ pc' = [pc EXCEPT ![s] = "idle"]
  /\ base' = [base EXCEPT ![s] = 0]
  /\ windowStart' = [windowStart EXCEPT ![s] = 0]
  /\ windowEnd' = [windowEnd EXCEPT ![s] = 0]
  /\ rows' = [rows EXCEPT ![s] = {}]

\* Read the checkpoint; an empty window is an error before any run is recorded.
\* Two statements, of which the second reads nothing others write.
OpenWindow(s) ==
  LET start == Start(checkpoint, windowEnd[s]) IN
  /\ pc[s] = "clock_read"
  /\ IF start >= windowEnd[s]
       THEN Return(s) /\ UNCHANGED runs
       ELSE /\ pc' = [pc EXCEPT ![s] = "query"]
            /\ base' = [base EXCEPT ![s] = checkpoint]
            /\ windowStart' = [windowStart EXCEPT ![s] = start]
            /\ runs' = RunWith(start, windowEnd[s], "running")
            /\ UNCHANGED <<windowEnd, rows>>
  /\ UNCHANGED <<now, eventVars, ingested, checkpoint, truncated, crashed, origin>>

\* timestamp >= window_start and timestamp < window_end, of what PostHog shows.
InWindow(s) ==
  {e \in Event : /\ arrivedAt[e] # 0
                 /\ windowStart[s] <= happenedAt[e]
                 /\ happenedAt[e] < windowEnd[s]}

\* order by timestamp limit 500.
IsFirstRows(R, W) ==
  /\ IF Cardinality(W) <= Limit THEN R = W ELSE Cardinality(R) = Limit
  /\ \A e \in R, d \in W \ R : happenedAt[e] <= happenedAt[d]

QueryPosthog(s) ==
  /\ pc[s] = "query"
  /\ \E R \in SUBSET InWindow(s) :
       /\ IsFirstRows(R, InWindow(s))
       /\ rows' = [rows EXCEPT ![s] = R]
       /\ truncated' = (truncated \/ R # InWindow(s))
  /\ pc' = [pc EXCEPT ![s] = "rows"]
  /\ UNCHANGED <<now, eventVars, ingested, checkpoint, runs, base, windowStart, windowEnd,
                 crashed, origin>>

\* The four attempts of the query, or a row's transaction, have failed: what
\* was stored before stays.
Fail(s) ==
  /\ pc[s] \in {"query", "rows"}
  /\ pc[s] = "rows" => rows[s] # {}
  /\ pc' = [pc EXCEPT ![s] = "failed"]
  /\ rows' = [rows EXCEPT ![s] = {}]
  /\ UNCHANGED <<now, eventVars, ingested, checkpoint, runs, base, windowStart, windowEnd,
                 truncated, crashed, origin>>

\* upsert_normalized_signal of the next row.
StoreRow(s) ==
  /\ pc[s] = "rows"
  /\ \E e \in rows[s] :
       /\ \A d \in rows[s] : happenedAt[e] <= happenedAt[d]
       /\ ingested' = ingested \cup {e}
       /\ rows' = [rows EXCEPT ![s] = @ \ {e}]
  /\ UNCHANGED <<now, eventVars, checkpoint, runs, pc, base, windowStart, windowEnd,
                 truncated, crashed, origin>>

\* sync_window is through its rows.
MarkSucceeded(s) ==
  /\ pc[s] = "rows"
  /\ rows[s] = {}
  /\ runs' = RunWith(windowStart[s], windowEnd[s], "succeeded")
  /\ pc' = [pc EXCEPT ![s] = "succeeded"]
  /\ UNCHANGED <<now, eventVars, ingested, checkpoint, base, windowStart, windowEnd, rows,
                 truncated, crashed, origin>>

\* Last writer wins: the checkpoint may go back.
SaveCheckpoint(s) ==
  /\ pc[s] = "succeeded"
  /\ checkpoint' = windowEnd[s]
  /\ origin' = IF base[s] = 0 /\ windowStart[s] > origin THEN windowStart[s] ELSE origin
  /\ Return(s)
  /\ UNCHANGED <<now, eventVars, ingested, runs, truncated, crashed>>

MarkFailed(s) ==
  /\ pc[s] = "failed"
  /\ runs' = RunWith(windowStart[s], windowEnd[s], "failed")
  /\ Return(s)
  /\ UNCHANGED <<now, eventVars, ingested, checkpoint, truncated, crashed, origin>>

\* The syncs whose run is open.
Working == {s \in Syncer : pc[s] \in {"query", "rows", "failed"}}

\* The process dies, or a statement outside of sync_window fails.
Crash(s) ==
  /\ pc[s] # "idle"
  /\ Return(s)
  /\ crashed' = crashed \cup {[start |-> windowStart[t], end |-> windowEnd[t]] :
                                 t \in {s} \cap Working}
  /\ UNCHANGED <<now, eventVars, ingested, checkpoint, runs, truncated, origin>>

Step(s) ==
  \/ Request(s)
  \/ ReadClock(s)
  \/ OpenWindow(s)
  \/ QueryPosthog(s)
  \/ StoreRow(s)
  \/ MarkSucceeded(s)
  \/ SaveCheckpoint(s)
  \/ MarkFailed(s)

PollNext ==
  \/ Tick
  \/ \E e \in Event : Arrive(e)
  \/ \E s \in Syncer : Step(s) \/ Fail(s) \/ Crash(s)

PollSpec == PollInit /\ [][PollNext]_pollVars

-----------------------------------------------------------------------------

\* An event that came no later than Lag + Overlap after it happened.
Timely(e) ==
  /\ arrivedAt[e] # 0
  /\ arrivedAt[e] <= happenedAt[e] + Lag + Overlap

\* "Later syncs start from the saved checkpoint with a fifteen-minute overlap so
\* late-arriving events are retried": whatever overlaps, fails or dies, a timely
\* event is stored before the checkpoint leaves it behind for good.  Only a
\* query that was cut off by its limit may lose one.
NoTimelyEventIsLost ==
  checkpoint # 0 /\ ~truncated =>
    \A e \in Event \ ingested :
      Timely(e) /\ happenedAt[e] >= origin => happenedAt[e] + Overlap >= checkpoint

\* A run that says running has a sync that works on it, or one died at it: syncs
\* of the same window share a row and none leaves it open behind another, and one
\* that dies leaves open no row but that of its own window.
NoOrphanedRun ==
  \A x \in runs :
    x.status = "running" =>
      \/ \E s \in Working : windowStart[s] = x.start /\ windowEnd[s] = x.end
      \/ \E c \in crashed : c.start = x.start /\ c.end = x.end

\* apps/docs/ingestion/posthog-dogfood.md l.87: the first sync reads a six-hour
\* window, later ones read again what came late.  The code stores the first
\* Limit rows of a window and moves the checkpoint past all of it.
WindowsAreReadWhole ==
  checkpoint # 0 =>
    \A e \in Event \ ingested :
      Timely(e) /\ happenedAt[e] >= origin => happenedAt[e] + Overlap >= checkpoint

=============================================================================
