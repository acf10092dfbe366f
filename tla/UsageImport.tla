----------------------------- MODULE UsageImport -----------------------------
(***************************************************************************)
(* How the usage and costs of one OpenAI account reach the database:       *)
(* ingestion/src/openai.rs, started by the worker when the account is due  *)
(* and by sync_now of api/src/provider_accounts.rs at any time, and the    *)
(* events that applications report through api/src/sdk_ingestion.rs.       *)
(*                                                                         *)
(* Nothing keeps two syncs of an account apart.  A sync reads the window   *)
(* from Overlap before the checkpoint, fetches one stream, writes it row   *)
(* by row, fetches and writes the other, and moves the checkpoint.  The    *)
(* provider corrects the buckets of past days meanwhile.  next_sync_at is  *)
(* left out: sync_now starts a sync at any time.                           *)
(*                                                                         *)
(* Time counts days; the bucket of day d holds the version of the          *)
(* provider's figures that was read last, 0 for none.  A page holds a      *)
(* hundred days: a window is read at one moment.                           *)
(***************************************************************************)
EXTENDS Naturals, FiniteSets, FiniteSetsExt, Functions

CONSTANTS
  Overlap,       \* Duration::days(3)
  Lookback,      \* Duration::days(30)
  Settle,        \* Duration::minutes(5)
  MaxTime,       \* last day (bound)
  MaxRun,        \* days a sync can run (bound)
  MaxChanges,    \* changes the provider makes to its figures (bound)
  Syncs,         \* syncs that can run at once: the worker's and manual ones
  Calls,         \* SDK requests served at once
  SdkEvents,     \* event ids applications report
  Never          \* no checkpoint yet

ASSUME UsageAssumption ==
  /\ Overlap \in Nat /\ Lookback \in Nat /\ Settle \in Nat /\ MaxTime \in Nat
  /\ MaxChanges \in Nat
  /\ MaxRun \in Nat /\ MaxRun + Overlap + Settle <= Lookback
  /\ Lookback <= MaxTime
  /\ Never \notin Nat
  /\ IsFiniteSet(SdkEvents)

VARIABLES
  now,
  truth,         \* external: the provider's version of each day
  changes,       \* how many changes of these there were
  late,          \* history: days changed when they were past every overlap
  account,       \* provider_accounts.status
  bucket,        \* usage_buckets and cost_snapshots
  overwritten,   \* history: rows written with older figures than they had
  checkpoint,    \* provider_sync_checkpoints
  since,         \* history: the earliest day a successful window reached
  sync,          \* where each sync is
  reported,      \* rows of sdk_usage_events
  counted,       \* request_count of the bucket these events share
  call           \* the event an SDK request has inserted and not committed

providerVars == <<truth, changes, late>>
importVars == <<providerVars, bucket, overwritten, checkpoint, since, sync>>
sdkVars == <<reported, counted, call>>
vars == <<now, account, importVars, sdkVars>>

Streams == {"usage", "costs"}
Days == 0 .. MaxTime
NoSync == [at |-> "idle", start |-> 0, end |-> 0, stream |-> "usage", page |-> << >>]

Init ==
  /\ now = Lookback
  /\ truth = [d \in Days |-> 0]
  /\ changes = 0 /\ late = {}
  /\ account = "verified"
  /\ bucket = [s \in Streams |-> [d \in Days |-> 0]]
  /\ overwritten = {}
  /\ checkpoint = [s \in Streams |-> Never]
  /\ since = Never
  /\ sync = [p \in Syncs |-> NoSync]
  /\ reported = {}
  /\ counted = 0
  /\ call = [c \in Calls |-> "idle"]

-----------------------------------------------------------------------------
SyncAt(p, at) == sync[p].at = at
EndSync(p) == sync' = [sync EXCEPT ![p] = NoSync]
Before(day, days) == IF day >= days THEN day - days ELSE 0

\* select min(checkpoint_at) ... where stream in ('usage', 'costs')
Checkpoint ==
  LET known == {checkpoint[s] : s \in Streams} \ {Never}
  IN IF known = {} THEN Never ELSE Min(known)

\* sync_now, or the worker with an account it found due: either has seen the
\* account verified.
SyncNow(p) ==
  /\ SyncAt(p, "idle") /\ account = "verified"
  /\ sync' = [sync EXCEPT ![p].at = "load"]
  /\ UNCHANGED <<now, account, providerVars, bucket, overwritten, checkpoint, since, sdkVars>>

\* sync_account: load_account looks again, the secret is decrypted, and the
\* clock is read.
LoadAccount(p) ==
  /\ SyncAt(p, "load")
  /\ IF account = "verified"
       THEN sync' = [sync EXCEPT ![p] = [@ EXCEPT !.at = "window", !.end = now]]
       ELSE EndSync(p)
  /\ UNCHANGED <<now, account, providerVars, bucket, overwritten, checkpoint, since, sdkVars>>

\* A plausible mistake.
StartAtCheckpoint(clock) == IF Checkpoint = Never THEN Before(clock, Lookback) ELSE Checkpoint
WindowStart(clock) ==
  IF Checkpoint = Never THEN Before(clock, Lookback) ELSE Before(Checkpoint, Overlap)

\* The checkpoint may have moved since the clock was read: the window can be
\* empty.  The run is inserted with status running.
OpenRun(p) ==
  LET start == WindowStart(sync[p].end)  end == sync[p].end - Settle IN
  /\ SyncAt(p, "window")
  /\ IF start >= end \/ account = "deleted"
       THEN EndSync(p)
       ELSE sync' = [sync EXCEPT ![p] =
                       [@ EXCEPT !.at = "fetch", !.start = start, !.end = end]]
  /\ UNCHANGED <<now, account, providerVars, bucket, overwritten, checkpoint, since, sdkVars>>

\* What the pages say of each bucket the window touches.
RowsFromPayload(start, end) == [d \in start .. end |-> truth[d]]

\* fetch_pages, after up to five attempts each
FetchPages(p) ==
  /\ SyncAt(p, "fetch")
  /\ sync' = [sync EXCEPT ![p] =
       [@ EXCEPT !.at = "store", !.page = RowsFromPayload(sync[p].start, sync[p].end)]]
  /\ UNCHANGED <<now, account, providerVars, bucket, overwritten, checkpoint, since, sdkVars>>

\* One upsert, committed by itself, in the order of the payload.
StoreRow(p) ==
  LET s == sync[p].stream  page == sync[p].page  d == Min(DOMAIN page)  v == page[d] IN
  /\ SyncAt(p, "store") /\ DOMAIN page # {} /\ account # "deleted"
  /\ bucket' = [bucket EXCEPT ![s][d] = v]
  /\ overwritten' = IF v < bucket[s][d] THEN overwritten \cup {<<s, d>>}
                     ELSE overwritten \ {x \in {<<s, d>>} : v = truth[d]}
  /\ sync' = [sync EXCEPT ![p].page = Restrict(@, DOMAIN @ \ {d})]
  /\ UNCHANGED <<now, account, providerVars, checkpoint, since, sdkVars>>

\* The costs follow when all usage is stored, the checkpoint when both are.
StreamDone(p) ==
  /\ SyncAt(p, "store") /\ DOMAIN sync[p].page = {}
  /\ sync' = [sync EXCEPT ![p] =
       IF @.stream = "usage" THEN [@ EXCEPT !.at = "fetch", !.stream = "costs"]
                             ELSE [@ EXCEPT !.at = "succeed"]]
  /\ UNCHANGED <<now, account, providerVars, bucket, overwritten, checkpoint, since, sdkVars>>

\* mark_success: the statement that moves both checkpoints, forward or back.
\* The two that follow, of the run and of next_sync_at, change nothing here.
MarkSuccess(p) ==
  /\ SyncAt(p, "succeed") /\ account # "deleted"
  /\ checkpoint' = [s \in Streams |-> sync[p].end]
  /\ since' = IF since = Never THEN sync[p].start ELSE Min({since, sync[p].start})
  /\ EndSync(p)
  /\ UNCHANGED <<now, account, providerVars, bucket, overwritten, sdkVars>>

\* An error of the provider, of a row or of a statement, or the death of the
\* process: mark_failure moves no checkpoint, and what was stored stays.
Fail(p) ==
  /\ ~SyncAt(p, "idle") /\ EndSync(p)
  /\ UNCHANGED <<now, account, providerVars, bucket, overwritten, checkpoint, since, sdkVars>>

-----------------------------------------------------------------------------
(* provider_accounts.rs                                                    *)

\* provider_validation::validate: verified or one of several other states
Validated == {"verified", "rejected"}

\* upsert: the outcome of the validation is stored; checkpoints stay
Upsert(status) ==
  /\ account \notin {status, "deleted"} /\ account' = status
  /\ UNCHANGED <<now, importVars, sdkVars>>

\* on delete cascade: everything imported goes with the account, and what a
\* sync still writes fails.  An event that is being inserted refers to the
\* account and makes the deletion wait.
Delete ==
  /\ account # "deleted" /\ account' = "deleted"
  /\ \A c \in Calls : call[c] = "idle"
  /\ bucket' = [s \in Streams |-> [d \in Days |-> 0]]
  /\ checkpoint' = [s \in Streams |-> Never]
  /\ since' = Never /\ overwritten' = {} /\ reported' = {} /\ counted' = 0
  /\ UNCHANGED <<now, providerVars, sync, call>>

-----------------------------------------------------------------------------
(* record_usage_event: one transaction                                     *)

\* A plausible mistake.
NeverDuplicate(e) == FALSE

\* on conflict (organization_id, event_id) do nothing; the row of a request
\* that has not committed makes others wait.
Duplicate(e) == e \in reported

InsertEvent(c, e) ==
  /\ call[c] = "idle" /\ account # "deleted"
  /\ \A x \in Calls : call[x] # e
  /\ ~Duplicate(e)
  /\ call' = [call EXCEPT ![c] = e]
  /\ UNCHANGED <<now, account, importVars, reported, counted>>

AddToBucket(c) ==
  /\ call[c] # "idle"
  /\ reported' = reported \cup {call[c]}
  /\ counted' = counted + 1
  /\ call' = [call EXCEPT ![c] = "idle"]
  /\ UNCHANGED <<now, account, importVars>>

Rollback(c) ==
  /\ call[c] # "idle"
  /\ call' = [call EXCEPT ![c] = "idle"]
  /\ UNCHANGED <<now, account, importVars, reported, counted>>

-----------------------------------------------------------------------------
(* The clock and the provider                                              *)

\* A sync takes minutes: a first one does not run so long that another first
\* one, started meanwhile, looks back less far than its checkpoint.
Tick ==
  /\ now < MaxTime /\ now' = now + 1
  /\ \A p \in Syncs : SyncAt(p, "idle") \/ now < sync[p].end + MaxRun
  /\ UNCHANGED <<account, importVars, sdkVars>>

\* The figures of a day grow while it lasts and are corrected afterwards.
Change(d) ==
  /\ d <= now /\ changes < MaxChanges
  /\ changes' = changes + 1
  /\ truth' = [truth EXCEPT ![d] = @ + 1]
  /\ late' = IF now > d + Overlap + Settle THEN late \cup {d} ELSE late
  /\ UNCHANGED <<now, account, bucket, overwritten, checkpoint, since, sync, sdkVars>>

Step(p) ==
  \/ SyncNow(p) \/ LoadAccount(p) \/ OpenRun(p) \/ FetchPages(p) \/ StoreRow(p) \/ StreamDone(p)
  \/ MarkSuccess(p) \/ Fail(p)

Request(c) == AddToBucket(c) \/ Rollback(c) \/ \E e \in SdkEvents : InsertEvent(c, e)

Next ==
  \/ \E p \in Syncs : Step(p)
  \/ \E c \in Calls : Request(c)
  \/ \E status \in Validated : Upsert(status)
  \/ Delete \/ Tick \/ \E d \in Days : Change(d)

Spec == Init /\ [][Next]_vars

-----------------------------------------------------------------------------
(* Properties                                                              *)

SyncType ==
  [at : {"idle", "load", "window", "fetch", "store", "succeed"}, start : Days, end : Days,
   stream : Streams, page : UNION {[w -> 0 .. MaxChanges] : w \in SUBSET Days}]

TypeOK ==
  /\ now \in Days /\ late \subseteq Days /\ since \in Days \cup {Never}
  /\ account \in {"verified", "rejected", "deleted"}
  /\ truth \in [Days -> 0 .. MaxChanges] /\ changes \in 0 .. MaxChanges
  /\ bucket \in [Streams -> [Days -> 0 .. MaxChanges]]
  /\ overwritten \subseteq Streams \X Days
  /\ checkpoint \in [Streams -> Days \cup {Never}]
  /\ sync \in [Syncs -> SyncType]
  /\ reported \subseteq SdkEvents /\ counted \in 0 .. Cardinality(SdkEvents)
  /\ call \in [Calls -> SdkEvents \cup {"idle"}]

\* Once the checkpoint has left a day behind, beyond the overlap that is read
\* again, usage and costs of the day are what the provider said last, unless it
\* changed its mind later still or two syncs that ran at once stored their pages
\* in the wrong order: failed runs, runs that stored half their rows, manual
\* syncs and a checkpoint that moved back lose no other correction.
NoTimelyCorrectionIsLost ==
  Checkpoint # Never =>
    \A s \in Streams, d \in since .. MaxTime :
      \/ d + Overlap >= Checkpoint
      \/ bucket[s][d] = truth[d]
      \/ d \in late \/ <<s, d>> \in overwritten

\* However often an application repeats an event, and however many requests
\* carry it at once, its usage is added to the bucket exactly once.
SdkEventsCountOnce == counted = Cardinality(reported)
=============================================================================
