------------------------------ MODULE LlmProofs ------------------------------
(***************************************************************************)
(* Proofs about what an organization uses and sets of large language       *)
(* models: UsageImport, for any syncs, requests and events and any overlap,*)
(* lookback and length of a sync that fit together, and AgentSettings, for *)
(* any configurations and requests.                                        *)
(***************************************************************************)
EXTENDS UsageImport, AgentSettings, FiniteSetTheorems, WellFoundedInduction, TLAPS

Running(p) == sync[p].at \in {"fetch", "store", "succeed"}

\* Both streams have one checkpoint, which lies behind the clock.
CheckpointInv ==
  /\ Lookback <= now
  /\ \A s \in Streams : checkpoint[s] = checkpoint["usage"]
  /\ checkpoint["usage"] = Never <=> since = Never
  /\ account = "deleted" => since = Never
  /\ since # Never =>
       /\ since + Lookback <= now
       /\ checkpoint["usage"] + Settle <= now

\* How far the clock and the window of a sync can be apart.
WindowInv ==
  \A p \in Syncs :
    /\ SyncAt(p, "window") =>
         Lookback <= sync[p].end /\ sync[p].end <= now /\ now <= sync[p].end + MaxRun
    /\ Running(p) =>
         /\ sync[p].start < sync[p].end
         /\ sync[p].end + Settle <= now
         /\ now <= sync[p].end + Settle + MaxRun
         /\ sync[p].start + Overlap + Settle <= now
         /\ since = Never /\ account # "deleted" => sync[p].start + Lookback <= now
    /\ SyncAt(p, "succeed") => sync[p].stream = "costs"
    /\ ~Running(p) => sync[p].stream = "usage"

\* A page is of days of its window, and older than the provider's figures only in
\* days that are corrected late.
PageInv ==
  \A p \in Syncs : SyncAt(p, "store") =>
    \A d \in DOMAIN sync[p].page :
      /\ d \in sync[p].start .. sync[p].end
      /\ sync[p].page[d] <= truth[d]
      /\ d + Overlap < sync[p].end => sync[p].page[d] = truth[d] \/ d \in late

Good(s, d) == bucket[s][d] = truth[d] \/ d \in late \/ <<s, d>> \in overwritten

\* Sync p has stored stream s of day d.
Stored(p, s, d) ==
  \/ SyncAt(p, "succeed")
  \/ SyncAt(p, "fetch") /\ sync[p].stream = "costs" /\ s = "usage"
  \/ /\ SyncAt(p, "store")
     /\ \/ sync[p].stream = "costs" /\ s = "usage"
        \/ sync[p].stream = s /\ d \notin DOMAIN sync[p].page

\* What a running sync has stored is good.
StoredInv ==
  account # "deleted" =>
    \A p \in Syncs, s \in Streams, d \in Days :
      Stored(p, s, d) /\ sync[p].start <= d /\ d + Overlap < sync[p].end => Good(s, d)

\* What lies before its window is good, as far back as any window reached.
BeforeInv ==
  since # Never =>
    \A p \in Syncs, s \in Streams, d \in Days :
      Running(p) /\ since <= d /\ d < sync[p].start => Good(s, d)

KeptInv ==
  since # Never =>
    \A s \in Streams, d \in Days :
      since <= d /\ d + Overlap < checkpoint["usage"] => Good(s, d)

\* An event that is being inserted is nobody else's and not yet reported.
CallInv ==
  /\ counted = Cardinality(reported)
  /\ \A c \in Calls : call[c] # "idle" => call[c] \notin reported
  /\ \A c, x \in Calls : c # x /\ call[c] # "idle" => call[c] # call[x]

IInv ==
  /\ TypeOK
  /\ \A d \in Days : truth[d] <= changes
  /\ CheckpointInv
  /\ WindowInv
  /\ PageInv
  /\ StoredInv
  /\ BeforeInv
  /\ KeptInv
  /\ CallInv

-----------------------------------------------------------------------------
Pages == UNION {[w -> 0 .. MaxChanges] : w \in SUBSET Days}
Points == {"idle", "load", "window", "fetch", "store", "succeed"}

LEMMA Record == SyncType = [at : Points, start : Days, end : Days, stream : Streams, page : Pages]
BY DEF SyncType, Points, Pages

LEMMA IdleType == NoSync \in SyncType
<1>1. << >> \in [{} -> 0 .. MaxChanges]
  OBVIOUS
<1>2. << >> \in Pages
  BY <1>1 DEF Pages
<1>3. 0 \in Days
  BY UsageAssumption DEF Days
<1> HIDE DEF Pages, Days, Points
<1> QED BY <1>2, <1>3, Record DEF NoSync, Points, Streams

\* Any change of a sync's fields within their types.
LEMMA Changed ==
  ASSUME NEW v \in SyncType, NEW at \in Points, NEW start \in Days, NEW end \in Days,
         NEW stream \in Streams, NEW page \in Pages
  PROVE  /\ [v EXCEPT !.at = at] \in SyncType
         /\ [v EXCEPT !.at = at, !.end = end] \in SyncType
         /\ [v EXCEPT !.at = at, !.start = start, !.end = end] \in SyncType
         /\ [v EXCEPT !.at = at, !.page = page] \in SyncType
         /\ [v EXCEPT !.page = page] \in SyncType
         /\ [v EXCEPT !.at = at, !.stream = stream] \in SyncType
<1> DEFINE D == Days  A == Points  T == Streams  P == Pages
<1>1. SyncType = [at : A, start : D, end : D, stream : T, page : P]
  BY Record
<1>2. at \in A /\ start \in D /\ end \in D /\ stream \in T /\ page \in P
  OBVIOUS
<1> HIDE DEF D, A, T, P
<1> QED BY <1>1, <1>2

LEMMA MinOfNats ==
  ASSUME NEW S \in SUBSET Nat, S # {}
  PROVE  Min(S) \in S /\ \A y \in S : Min(S) <= y
<1> DEFINE R == OpToRel(<, Nat)
<1>1. IsWellFoundedOn(R, Nat)
  BY NatLessThanWellFounded
<1>2. \A x, y \in Nat : x < y => <<x, y>> \in R
  BY DEF OpToRel
<1> HIDE DEF R
<1>3. PICK x \in S : \A y \in S : ~(<<y, x>> \in R)
  BY <1>1, WFMin
<1>4. ASSUME NEW y \in S
      PROVE  x <= y
  <2>1. x \in Nat /\ y \in Nat
    OBVIOUS
  <2>2. ~(y < x)
    BY <1>2, <1>3, <2>1, Zenon
  <2> QED BY <2>1, <2>2
<1>5. \E z \in S : \A y \in S : z <= y
  BY <1>4, Zenon
<1> QED BY <1>5, Zenon DEF Min

\* The checkpoint of either stream is the checkpoint.
LEMMA OneCheckpoint ==
  ASSUME TypeOK, CheckpointInv
  PROVE  Checkpoint = checkpoint["usage"]
<1> DEFINE c == checkpoint["usage"]
           known == {checkpoint[s] : s \in Streams} \ {Never}
<1>1. {checkpoint[s] : s \in Streams} = {c}
  BY DEF CheckpointInv, Streams
<1>2. CASE c = Never
  BY <1>1, <1>2 DEF Checkpoint
<1>3. CASE c # Never
  <2>0. c \in Days \cup {Never}
    BY DEF TypeOK, Streams
  <2>1. known = {c} /\ c \in Nat
    BY <1>1, <1>3, <2>0 DEF Days
  <2>2. Min({c}) \in {c}
    BY <2>1, MinOfNats
  <2> QED BY <2>1, <2>2 DEF Checkpoint
<1> QED BY <1>2, <1>3

\* A window starts where nothing before it is lost: a lookback ago, or an overlap
\* before the checkpoint.
LEMMA WindowStarts ==
  ASSUME TypeOK, CheckpointInv, NEW clock \in Days
  PROVE  /\ WindowStart(clock) \in Days
         /\ Lookback <= clock /\ clock <= now => WindowStart(clock) + Overlap + Settle <= now
         /\ since = Never /\ Lookback <= clock => WindowStart(clock) + Lookback = clock
         /\ since # Never =>
              \A d \in Days : d < WindowStart(clock) => d + Overlap < checkpoint["usage"]
<1> DEFINE c == checkpoint["usage"]
<1>1. /\ Overlap \in Nat /\ Lookback \in Nat /\ Settle \in Nat /\ MaxTime \in Nat /\ MaxRun \in Nat
      /\ MaxRun + Overlap + Settle <= Lookback /\ clock \in Nat /\ now \in Nat /\ Lookback <= now
  BY UsageAssumption DEF TypeOK, Days, CheckpointInv
<1>2. CASE c = Never
  <2>1. WindowStart(clock) = IF clock >= Lookback THEN clock - Lookback ELSE 0
    BY <1>2, OneCheckpoint DEF WindowStart, Before
  <2>2. since = Never
    BY <1>2 DEF CheckpointInv
  <2> QED BY <1>1, <2>1, <2>2 DEF Days
<1>3. CASE c # Never
  <2>1. WindowStart(clock) = IF c >= Overlap THEN c - Overlap ELSE 0
    BY <1>3, OneCheckpoint DEF WindowStart, Before
  <2>2. since # Never /\ c + Settle <= now
    BY <1>3 DEF CheckpointInv
  <2>3. c \in Days
    BY <1>3 DEF TypeOK, Streams
  <2> HIDE DEF c
  <2>4. WindowStart(clock) \in Days
    BY <1>1, <2>1, <2>3 DEF Days
  <2>5. WindowStart(clock) + Overlap + Settle <= now
    BY <1>1, <2>1, <2>2, <2>3 DEF Days
  <2>6. \A d \in Days : d < WindowStart(clock) => d + Overlap < c
    BY <1>1, <2>1, <2>3 DEF Days
  <2> QED BY <2>2, <2>4, <2>5, <2>6 DEF c
<1> QED BY <1>2, <1>3

-----------------------------------------------------------------------------
(* What a step does to a sync                                              *)

Rests(p) == sync'[p].at \in {"idle", "load"} /\ sync'[p].stream = "usage"

Loads(p) ==
  /\ sync'[p].at = "window" /\ sync'[p].end = now /\ sync'[p].stream = sync[p].stream
  /\ sync[p].at = "load"

SameWindow(p) == sync'[p].start = sync[p].start /\ sync'[p].end = sync[p].end

Opens(p) ==
  /\ sync[p].at = "window" /\ sync'[p].at = "fetch" /\ account # "deleted"
  /\ sync'[p].start = WindowStart(sync[p].end) /\ sync'[p].end = sync[p].end - Settle
  /\ sync'[p].start < sync'[p].end /\ sync'[p].stream = sync[p].stream

Fetches(p) ==
  /\ sync[p].at = "fetch" /\ sync'[p].at = "store" /\ SameWindow(p)
  /\ sync'[p].stream = sync[p].stream
  /\ sync'[p].page = RowsFromPayload(sync[p].start, sync[p].end)

Stores(p) ==
  /\ sync[p].at = "store" /\ sync'[p].at = "store" /\ SameWindow(p)
  /\ sync'[p].stream = sync[p].stream
  /\ sync'[p].page = Restrict(sync[p].page, DOMAIN sync[p].page \ {Min(DOMAIN sync[p].page)})

Finishes(p) ==
  /\ sync[p].at = "store" /\ DOMAIN sync[p].page = {} /\ SameWindow(p)
  /\ \/ sync[p].stream = "usage" /\ sync'[p].at = "fetch" /\ sync'[p].stream = "costs"
     \/ sync[p].stream = "costs" /\ sync'[p].at = "succeed" /\ sync'[p].stream = "costs"

Others(p) == \A q \in Syncs \ {p} : sync'[q] = sync[q]

Data == <<truth, changes, late, bucket, overwritten>>
Marks == <<checkpoint, since>>

LEMMA Effects ==
  ASSUME TypeOK, CheckpointInv, WindowInv, NEW p \in Syncs, Step(p)
  PROVE  /\ Others(p) /\ now' = now /\ account' = account
         /\ \/ Rests(p) /\ UNCHANGED <<Data, Marks>>
            \/ Loads(p) /\ UNCHANGED <<Data, Marks>>
            \/ Opens(p) /\ UNCHANGED <<Data, Marks>>
            \/ Fetches(p) /\ UNCHANGED <<Data, Marks>>
            \/ Stores(p) /\ StoreRow(p)
            \/ Finishes(p) /\ UNCHANGED <<Data, Marks>>
            \/ Rests(p) /\ MarkSuccess(p)
<1>0. sync \in [Syncs -> SyncType] /\ sync[p] \in SyncType
  BY DEF TypeOK
<1>i. NoSync.at = "idle" /\ NoSync.stream = "usage"
  BY DEF NoSync
<1>e. ASSUME EndSync(p)
      PROVE  Rests(p) /\ Others(p)
  <2>1. sync'[p] = NoSync /\ Others(p)
    BY <1>0, <1>e DEF EndSync, Others
  <2> QED BY <1>i, <2>1 DEF Rests
<1>x. ASSUME NEW v, sync' = [sync EXCEPT ![p] = v]
      PROVE  sync'[p] = v /\ Others(p)
  BY <1>0, <1>x DEF Others
<1>t. sync[p].at \in {"idle", "load", "window"} => sync[p].stream = "usage"
  BY DEF WindowInv, Running
<1>f. UNCHANGED <<providerVars, bucket, overwritten, checkpoint, since>> =>
        UNCHANGED <<Data, Marks>>
  BY DEF providerVars, Data, Marks
<1>1. ASSUME SyncNow(p)
      PROVE  /\ Rests(p) /\ UNCHANGED <<Data, Marks>>
             /\ Others(p) /\ now' = now /\ account' = account
  <2> DEFINE v == [sync[p] EXCEPT !.at = "load"]
  <2>1. sync' = [sync EXCEPT ![p] = v] /\ sync[p].at = "idle"
    BY <1>1 DEF SyncNow, SyncAt
  <2>2. v.at = "load" /\ v.stream = sync[p].stream
    BY <1>0 DEF SyncType
  <2> HIDE DEF v
  <2>3. Rests(p) /\ Others(p)
    BY <1>t, <1>x, <2>1, <2>2 DEF Rests
  <2> QED BY <1>1, <1>f, <2>3 DEF SyncNow
<1>2. ASSUME LoadAccount(p)
      PROVE  /\ Rests(p) \/ Loads(p)
             /\ UNCHANGED <<Data, Marks>> /\ Others(p) /\ now' = now /\ account' = account
  <2> DEFINE v == [sync[p] EXCEPT !.at = "window", !.end = now]
  <2>1. sync[p].at = "load" /\ (EndSync(p) \/ sync' = [sync EXCEPT ![p] = v])
    BY <1>2 DEF LoadAccount, SyncAt
  <2>2. v.at = "window" /\ v.end = now /\ v.stream = sync[p].stream
    BY <1>0 DEF SyncType
  <2> HIDE DEF v
  <2>3. (Rests(p) \/ Loads(p)) /\ Others(p)
    BY <1>e, <1>x, <2>1, <2>2 DEF Loads
  <2> QED BY <1>2, <1>f, <2>3 DEF LoadAccount
<1>3. ASSUME OpenRun(p)
      PROVE  /\ Rests(p) \/ Opens(p)
             /\ UNCHANGED <<Data, Marks>> /\ Others(p) /\ now' = now /\ account' = account
  <2> DEFINE start == WindowStart(sync[p].end)  end == sync[p].end - Settle
             v == [sync[p] EXCEPT !.at = "fetch", !.start = start, !.end = end]
  <2>1. /\ sync[p].at = "window"
        /\ EndSync(p) \/ (sync' = [sync EXCEPT ![p] = v] /\ ~(start >= end) /\ account # "deleted")
    BY <1>3 DEF OpenRun, SyncAt
  <2>2. v.at = "fetch" /\ v.start = start /\ v.end = end /\ v.stream = sync[p].stream
    BY <1>0 DEF SyncType
  <2>3. ~(start >= end) => start < end
    <3>1. sync[p].end \in Days /\ start \in Days
      BY <1>0, WindowStarts DEF SyncType
    <3>2. start \in Int /\ end \in Int
      BY <3>1, UsageAssumption DEF Days
    <3> HIDE DEF start, end
    <3> QED BY <3>2
  <2> HIDE DEF v, start, end
  <2>4. (Rests(p) \/ Opens(p)) /\ Others(p)
    BY <1>e, <1>x, <2>1, <2>2, <2>3 DEF Opens, start, end
  <2> QED BY <1>3, <1>f, <2>4 DEF OpenRun
<1>4. ASSUME FetchPages(p)
      PROVE  /\ Fetches(p) /\ UNCHANGED <<Data, Marks>>
             /\ Others(p) /\ now' = now /\ account' = account
  <2> DEFINE page == RowsFromPayload(sync[p].start, sync[p].end)
             v == [sync[p] EXCEPT !.at = "store", !.page = page]
  <2>1. sync' = [sync EXCEPT ![p] = v] /\ sync[p].at = "fetch"
    BY <1>4 DEF FetchPages, SyncAt
  <2> HIDE DEF page
  <2>2. /\ v.at = "store" /\ v.page = page /\ v.stream = sync[p].stream
        /\ v.start = sync[p].start /\ v.end = sync[p].end
    BY <1>0 DEF SyncType
  <2> HIDE DEF v
  <2>3. Fetches(p) /\ Others(p)
    BY <1>x, <2>1, <2>2 DEF Fetches, SameWindow, page
  <2> QED BY <1>4, <1>f, <2>3 DEF FetchPages
<1>5. ASSUME StoreRow(p)
      PROVE  Stores(p) /\ Others(p) /\ now' = now /\ account' = account
  <2> DEFINE page == Restrict(sync[p].page, DOMAIN sync[p].page \ {Min(DOMAIN sync[p].page)})
             v == [sync[p] EXCEPT !.page = page]
  <2>1. sync' = [sync EXCEPT ![p] = v] /\ sync[p].at = "store"
    BY <1>0, <1>5 DEF StoreRow, SyncAt
  <2> HIDE DEF page
  <2>2. /\ v.at = sync[p].at /\ v.page = page /\ v.stream = sync[p].stream
        /\ v.start = sync[p].start /\ v.end = sync[p].end
    BY <1>0 DEF SyncType
  <2> HIDE DEF v
  <2>3. Stores(p) /\ Others(p)
    BY <1>x, <2>1, <2>2 DEF Stores, SameWindow, page
  <2> QED BY <1>5, <2>3 DEF StoreRow
<1>6. ASSUME StreamDone(p)
      PROVE  /\ Finishes(p) /\ UNCHANGED <<Data, Marks>>
             /\ Others(p) /\ now' = now /\ account' = account
  <2> DEFINE v == [sync[p] EXCEPT !.at = "fetch", !.stream = "costs"]
             w == [sync[p] EXCEPT !.at = "succeed"]
  <2>1. /\ sync[p].at = "store" /\ DOMAIN sync[p].page = {}
        /\ sync' = [sync EXCEPT ![p] = IF sync[p].stream = "usage" THEN v ELSE w]
    BY <1>0, <1>6 DEF StreamDone, SyncAt
  <2>2. /\ v.at = "fetch" /\ v.stream = "costs" /\ v.start = sync[p].start /\ v.end = sync[p].end
        /\ w.at = "succeed" /\ w.stream = sync[p].stream
        /\ w.start = sync[p].start /\ w.end = sync[p].end
        /\ sync[p].stream \in {"usage", "costs"}
    BY <1>0 DEF SyncType, Streams
  <2> HIDE DEF v, w
  <2>3. Finishes(p) /\ Others(p)
    BY <1>x, <2>1, <2>2 DEF Finishes, SameWindow
  <2> QED BY <1>6, <1>f, <2>3 DEF StreamDone
<1>7. ASSUME MarkSuccess(p)
      PROVE  Rests(p) /\ Others(p) /\ now' = now /\ account' = account
  BY <1>e, <1>7 DEF MarkSuccess
<1>8. ASSUME Fail(p)
      PROVE  /\ Rests(p) /\ UNCHANGED <<Data, Marks>>
             /\ Others(p) /\ now' = now /\ account' = account
  BY <1>e, <1>f, <1>8 DEF Fail
<1> QED BY <1>1, <1>2, <1>3, <1>4, <1>5, <1>6, <1>7, <1>8 DEF Step

\* Everything but syncs, the clock, the deletion and the provider.
Bystands ==
  /\ UNCHANGED <<now, sync, Data, Marks>>
  /\ account = "deleted" <=> account' = "deleted"

LEMMA StepCases ==
  ASSUME [Next]_vars
  PROVE  \/ \E p \in Syncs : Step(p) /\ UNCHANGED sdkVars
         \/ Bystands
         \/ Delete \/ (Tick /\ UNCHANGED sdkVars) \/ \E d \in Days : Change(d)
<1>1. CASE UNCHANGED vars
  BY <1>1 DEF vars, importVars, providerVars, Bystands, Data, Marks
<1>2. ASSUME NEW c \in Calls, Request(c)
      PROVE  Bystands
  BY <1>2 DEF Request, InsertEvent, AddToBucket, Rollback, importVars, providerVars, Bystands,
              Data, Marks
<1>3. ASSUME NEW status \in Validated, Upsert(status)
      PROVE  Bystands
  BY <1>3 DEF Upsert, Validated, importVars, providerVars, Bystands, Data, Marks
<1>4. ASSUME NEW p \in Syncs, Step(p)
      PROVE  UNCHANGED sdkVars
  BY <1>4 DEF Step, SyncNow, LoadAccount, OpenRun, FetchPages, StoreRow, StreamDone, MarkSuccess, Fail
<1>5. Tick => UNCHANGED sdkVars
  BY DEF Tick
<1> QED BY <1>1, <1>2, <1>3, <1>4, <1>5 DEF Next

\* The page a sync stores from, and the row it writes.
LEMMA Row ==
  ASSUME TypeOK, PageInv, NEW p \in Syncs, StoreRow(p)
  PROVE  LET s == sync[p].stream  page == sync[p].page  d == Min(DOMAIN page) IN
         /\ s \in Streams /\ d \in DOMAIN page /\ d \in Days
         /\ page[d] \in 0 .. MaxChanges /\ page[d] <= truth[d]
         /\ d + Overlap < sync[p].end => page[d] = truth[d] \/ d \in late
         /\ \A x \in Streams, y \in Days :
              bucket'[x][y] = IF x = s /\ y = d THEN page[d] ELSE bucket[x][y]
         /\ bucket' \in [Streams -> [Days -> 0 .. MaxChanges]]
<1> DEFINE s == sync[p].stream  page == sync[p].page  d == Min(DOMAIN page)
<1>1. sync[p] \in SyncType
  BY DEF TypeOK
<1>2. s \in Streams /\ page \in Pages
  BY <1>1, Record
<1>3. PICK w \in SUBSET Days : page \in [w -> 0 .. MaxChanges]
  BY <1>2 DEF Pages
<1>4. DOMAIN page \in SUBSET Days /\ \A y \in DOMAIN page : page[y] \in 0 .. MaxChanges
  BY <1>3
<1>5. DOMAIN page # {} /\ bucket' = [bucket EXCEPT ![s][d] = page[d]] /\ sync[p].at = "store"
  BY DEF StoreRow, SyncAt
<1>6. DOMAIN page \in SUBSET Nat
  BY <1>4 DEF Days
<1> HIDE DEF page, s
<1>7. d \in DOMAIN page
  BY <1>5, <1>6, MinOfNats
<1>8. d \in Days /\ page[d] \in 0 .. MaxChanges
  BY <1>4, <1>7
<1>9. page[d] <= truth[d] /\ (d + Overlap < sync[p].end => page[d] = truth[d] \/ d \in late)
  BY <1>5, <1>7 DEF PageInv, SyncAt, page
<1> HIDE DEF d
<1>10. bucket \in [Streams -> [Days -> 0 .. MaxChanges]]
  BY DEF TypeOK
<1>11. /\ \A x \in Streams, y \in Days :
            bucket'[x][y] = IF x = s /\ y = d THEN page[d] ELSE bucket[x][y]
       /\ bucket' \in [Streams -> [Days -> 0 .. MaxChanges]]
  BY <1>2, <1>5, <1>8, <1>10
<1> QED BY <1>2, <1>7, <1>8, <1>9, <1>11 DEF s, page, d

LEMMA SyncTypes ==
  ASSUME TypeOK, CheckpointInv, WindowInv, PageInv, NEW p \in Syncs, Step(p)
  PROVE  sync' \in [Syncs -> SyncType]
<1> DEFINE v == sync[p]
<1>0. sync \in [Syncs -> SyncType] /\ v \in SyncType
  BY DEF TypeOK
<1>1. /\ v.at \in Points /\ v.start \in Days /\ v.end \in Days /\ v.stream \in Streams
      /\ v.page \in Pages /\ now \in Days
  BY <1>0, Record DEF TypeOK
<1>2. /\ {"load", "window", "fetch", "store", "succeed"} \subseteq Points
      /\ {"usage", "costs"} \subseteq Streams
  BY DEF Points, Streams
<1>3. CASE EndSync(p)
  BY <1>0, <1>3, IdleType DEF EndSync
<1>4. CASE SyncNow(p)
  <2>1. [v EXCEPT !.at = "load"] \in SyncType
    BY <1>0, <1>1, <1>2, Changed
  <2> QED BY <1>0, <1>4, <2>1 DEF SyncNow
<1>5. CASE LoadAccount(p)
  <2>1. [v EXCEPT !.at = "window", !.end = now] \in SyncType
    BY <1>0, <1>1, <1>2, Changed
  <2> QED BY <1>0, <1>3, <1>5, <2>1 DEF LoadAccount
<1>6. CASE OpenRun(p) /\ ~EndSync(p)
  <2> DEFINE start == WindowStart(v.end)  end == v.end - Settle
  <2>1. v.at = "window" /\ ~(start >= end)
    BY <1>6 DEF OpenRun, SyncAt
  <2>2. start \in Days
    BY <1>1, WindowStarts
  <2> HIDE DEF start
  <2>3. end \in Days
    BY <1>1, <2>1, <2>2, UsageAssumption DEF Days
  <2> HIDE DEF end
  <2>4. [v EXCEPT !.at = "fetch", !.start = start, !.end = end] \in SyncType
    BY <1>0, <1>1, <1>2, <2>2, <2>3, Changed
  <2> QED BY <1>0, <1>6, <2>4 DEF OpenRun, start, end
<1>7. CASE FetchPages(p)
  <2> DEFINE page == RowsFromPayload(v.start, v.end)
  <2>1. v.start .. v.end \subseteq Days
    BY <1>1, UsageAssumption DEF Days
  <2>2. page \in [v.start .. v.end -> 0 .. MaxChanges]
    BY <2>1 DEF RowsFromPayload, TypeOK
  <2>3. page \in Pages
    BY <2>1, <2>2 DEF Pages
  <2> HIDE DEF page
  <2>4. [v EXCEPT !.at = "store", !.page = page] \in SyncType
    BY <1>0, <1>1, <1>2, <2>3, Changed
  <2> QED BY <1>0, <1>7, <2>4 DEF FetchPages, page
<1>8. CASE StoreRow(p)
  <2> DEFINE d == Min(DOMAIN v.page)  page == Restrict(v.page, DOMAIN v.page \ {d})
  <2>1. PICK w \in SUBSET Days : v.page \in [w -> 0 .. MaxChanges]
    BY <1>1 DEF Pages
  <2>2. page \in [w \ {d} -> 0 .. MaxChanges] /\ w \ {d} \in SUBSET Days
    BY <2>1 DEF Restrict
  <2>3. page \in Pages
    BY <2>2 DEF Pages
  <2>4. sync' = [sync EXCEPT ![p].page = Restrict(@, DOMAIN @ \ {d})]
    BY <1>8 DEF StoreRow
  <2>5. sync' = [sync EXCEPT ![p] = [v EXCEPT !.page = page]]
    BY <1>0, <2>4
  <2> HIDE DEF page, d
  <2>6. [v EXCEPT !.page = page] \in SyncType
    BY <1>0, <1>1, <2>3, Changed
  <2> QED BY <1>0, <2>5, <2>6
<1>9. CASE StreamDone(p)
  <2>1. /\ [v EXCEPT !.at = "fetch", !.stream = "costs"] \in SyncType
        /\ [v EXCEPT !.at = "succeed"] \in SyncType
    BY <1>0, <1>1, <1>2, Changed
  <2> QED BY <1>0, <1>9, <2>1 DEF StreamDone
<1> QED BY <1>3, <1>4, <1>5, <1>6, <1>7, <1>8, <1>9 DEF Step, MarkSuccess, Fail, OpenRun

LEMMA StepKeeps ==
  ASSUME NEW p \in Syncs, Step(p)
  PROVE  UNCHANGED <<now, account, truth, changes, late>>
BY DEF Step, SyncNow, LoadAccount, OpenRun, FetchPages, StoreRow, StreamDone, MarkSuccess, Fail,
       providerVars

\* The clock, the provider's figures and what is late.
LEMMA ProviderTypes ==
  ASSUME IInv, [Next]_vars
  PROVE  /\ now' \in Days /\ late' \subseteq Days
         /\ truth' \in [Days -> 0 .. MaxChanges] /\ changes' \in 0 .. MaxChanges
         /\ \A d \in Days : truth'[d] <= changes'
<1>0. /\ now \in Days /\ late \subseteq Days /\ truth \in [Days -> 0 .. MaxChanges]
      /\ changes \in 0 .. MaxChanges /\ \A d \in Days : truth[d] <= changes
  BY DEF IInv, TypeOK
<1>1. CASE UNCHANGED <<now, truth, changes, late>>
  BY <1>0, <1>1
<1>2. CASE Tick
  <2>1. now' = now + 1 /\ now < MaxTime /\ UNCHANGED <<truth, changes, late>>
    BY <1>2 DEF Tick, importVars, providerVars
  <2>2. now' \in Days
    BY <1>0, <2>1, UsageAssumption DEF Days
  <2> QED BY <1>0, <2>1, <2>2
<1>3. ASSUME NEW d \in Days, Change(d)
      PROVE  /\ now' \in Days /\ late' \subseteq Days
             /\ truth' \in [Days -> 0 .. MaxChanges] /\ changes' \in 0 .. MaxChanges
             /\ \A y \in Days : truth'[y] <= changes'
  <2>1. /\ now' = now /\ changes' = changes + 1 /\ changes < MaxChanges
        /\ truth' = [truth EXCEPT ![d] = truth[d] + 1]
        /\ late' \subseteq late \cup {d}
    BY <1>0, <1>3 DEF Change
  <2>2. changes' \in 0 .. MaxChanges
    BY <1>0, <2>1, UsageAssumption
  <2>3. \A y \in Days : truth'[y] = IF y = d THEN truth[d] + 1 ELSE truth[y]
    BY <1>0, <2>1
  <2>4. \A y \in Days : truth'[y] \in 0 .. MaxChanges /\ truth'[y] <= changes'
    BY <1>0, <2>1, <2>3, UsageAssumption
  <2>5. truth' \in [Days -> 0 .. MaxChanges]
    BY <1>0, <2>1, <2>4
  <2> QED BY <1>0, <2>1, <2>2, <2>4, <2>5
<1> QED
  BY <1>1, <1>2, <1>3, StepCases, StepKeeps DEF Bystands, Data, Delete, providerVars

LEMMA DataTypes ==
  ASSUME IInv, [Next]_vars
  PROVE  /\ bucket' \in [Streams -> [Days -> 0 .. MaxChanges]]
         /\ overwritten' \subseteq Streams \X Days
<1>0. /\ bucket \in [Streams -> [Days -> 0 .. MaxChanges]] /\ overwritten \subseteq Streams \X Days
  BY DEF IInv, TypeOK
<1>1. CASE UNCHANGED <<bucket, overwritten>>
  BY <1>0, <1>1
<1>2. ASSUME NEW p \in Syncs, StoreRow(p)
      PROVE  /\ bucket' \in [Streams -> [Days -> 0 .. MaxChanges]]
             /\ overwritten' \subseteq Streams \X Days
  <2> DEFINE s == sync[p].stream  d == Min(DOMAIN sync[p].page)
  <2>1. s \in Streams /\ d \in Days /\ bucket' \in [Streams -> [Days -> 0 .. MaxChanges]]
    BY <1>2, Row DEF IInv
  <2>2. overwritten' \subseteq overwritten \cup {<<s, d>>}
    BY <1>2 DEF StoreRow
  <2> HIDE DEF s, d
  <2> QED BY <1>0, <2>1, <2>2
<1>3. CASE Delete
  <2>1. /\ bucket' = [x \in Streams |-> [y \in Days |-> 0]] /\ overwritten' = {}
    BY <1>3 DEF Delete
  <2>2. 0 \in 0 .. MaxChanges
    BY UsageAssumption
  <2> QED BY <2>1, <2>2
<1>4. ASSUME NEW p \in Syncs, Step(p)
      PROVE  StoreRow(p) \/ UNCHANGED <<bucket, overwritten>>
  BY <1>4 DEF Step, SyncNow, LoadAccount, OpenRun, FetchPages, StreamDone, MarkSuccess, Fail
<1> QED
  BY <1>1, <1>2, <1>3, <1>4, StepCases DEF Bystands, Data, Tick, Change, importVars

\* The windows that have succeeded.
LEMMA Success ==
  ASSUME IInv, NEW p \in Syncs, MarkSuccess(p)
  PROVE  LET start == sync[p].start IN
         /\ start \in Days /\ sync[p].end \in Days
         /\ checkpoint' = [s \in Streams |-> sync[p].end]
         /\ since' \in Days /\ since' <= start
         /\ since = Never => since' = start
         /\ since # Never => since \in Days /\ since' <= since /\ since' \in {since, start}
<1> DEFINE start == sync[p].start
<1>1. sync[p] \in SyncType /\ since \in Days \cup {Never}
  BY DEF IInv, TypeOK
<1>2. start \in Days /\ sync[p].end \in Days
  BY <1>1, Record
<1>3. /\ checkpoint' = [s \in Streams |-> sync[p].end]
      /\ since' = IF since = Never THEN start ELSE Min({since, start})
  BY DEF MarkSuccess
<1> HIDE DEF start
<1>4. CASE since = Never
  BY <1>2, <1>3, <1>4 DEF Days, start
<1>5. CASE since # Never
  <2>1. {since, start} \in SUBSET Nat /\ {since, start} # {} /\ since \in Days
    BY <1>1, <1>2, <1>5 DEF Days
  <2>2. Min({since, start}) \in {since, start} /\ \A y \in {since, start} : Min({since, start}) <= y
    BY <2>1, MinOfNats, Zenon
  <2>3. since' \in {since, start} /\ since' <= since /\ since' <= start
    BY <1>3, <1>5, <2>2
  <2> QED BY <1>2, <1>3, <1>5, <2>1, <2>3 DEF start
<1> QED BY <1>4, <1>5

\* Only a success and a deletion move the checkpoints.
LEMMA MarksCases ==
  ASSUME IInv, [Next]_vars
  PROVE  \/ UNCHANGED Marks
         \/ Delete
         \/ \E p \in Syncs : MarkSuccess(p)
<1>1. ASSUME NEW p \in Syncs, Step(p)
      PROVE  MarkSuccess(p) \/ UNCHANGED Marks
  BY <1>1 DEF Step, SyncNow, LoadAccount, OpenRun, FetchPages, StoreRow, StreamDone, Fail, Marks
<1> QED BY <1>1, StepCases DEF Bystands, Tick, Change, importVars, Marks

LEMMA MarksTypes ==
  ASSUME IInv, [Next]_vars
  PROVE  checkpoint' \in [Streams -> Days \cup {Never}] /\ since' \in Days \cup {Never}
<1>1. CASE UNCHANGED Marks
  BY <1>1 DEF IInv, TypeOK, Marks
<1>2. CASE Delete
  BY <1>2 DEF Delete
<1>3. ASSUME NEW p \in Syncs, MarkSuccess(p)
      PROVE  checkpoint' \in [Streams -> Days \cup {Never}] /\ since' \in Days \cup {Never}
  BY <1>3, Success
<1> QED BY <1>1, <1>2, <1>3, MarksCases

\* Where an account is deleted for good, and where the clock moves.
LEMMA AccountCases ==
  ASSUME IInv, [Next]_vars
  PROVE  /\ account' \in {"verified", "rejected", "deleted"}
         /\ account = "deleted" => account' = "deleted"
         /\ account' = "deleted" /\ account # "deleted" => Delete
<1>0. account \in {"verified", "rejected", "deleted"}
  BY DEF IInv, TypeOK
<1>1. CASE account' = account
  BY <1>0, <1>1
<1>2. ASSUME NEW status \in Validated, Upsert(status)
      PROVE  account # "deleted" /\ account' \in {"verified", "rejected"}
  BY <1>2 DEF Upsert, Validated
<1>3. CASE Delete
  BY <1>3 DEF Delete
<1>4. ASSUME NEW c \in Calls, Request(c)
      PROVE  account' = account
  BY <1>4 DEF Request, InsertEvent, AddToBucket, Rollback
<1>5. Tick \/ (\E d \in Days : Change(d)) \/ UNCHANGED vars => account' = account
  BY DEF Tick, Change, vars
<1> QED BY <1>1, <1>2, <1>3, <1>4, <1>5, StepKeeps DEF Next

LEMMA ClockCases ==
  ASSUME IInv, [Next]_vars
  PROVE  /\ now \in Nat /\ now' \in Nat /\ now <= now'
         /\ now' = now \/ (Tick /\ now' = now + 1 /\ sync' = sync)
<1>1. now \in Nat
  BY UsageAssumption DEF IInv, TypeOK, Days
<1>2. now' = now \/ Tick
  BY StepCases, StepKeeps DEF Bystands, Delete, Change
<1>3. Tick => now' = now + 1 /\ sync' = sync
  BY DEF Tick, importVars
<1> QED BY <1>1, <1>2, <1>3

\* What the window of a running sync says in numbers.
LEMMA InWindow ==
  ASSUME IInv, NEW p \in Syncs, Running(p)
  PROVE  /\ sync[p].start \in Nat /\ sync[p].end \in Nat
         /\ sync[p].start < sync[p].end
         /\ sync[p].end + Settle <= now
         /\ now <= sync[p].end + Settle + MaxRun
         /\ sync[p].start + Overlap + Settle <= now
         /\ since = Never /\ account # "deleted" => sync[p].start + Lookback <= now
<1>1. sync[p] \in SyncType
  BY DEF IInv, TypeOK
<1>2. sync[p].start \in Nat /\ sync[p].end \in Nat
  BY <1>1, Record DEF Days
<1> QED BY <1>2 DEF IInv, WindowInv

LEMMA CheckpointStep ==
  ASSUME IInv, [Next]_vars
  PROVE  CheckpointInv'
<1>0. /\ Lookback <= now
      /\ \A s \in Streams : checkpoint[s] = checkpoint["usage"]
      /\ checkpoint["usage"] = Never <=> since = Never
      /\ account = "deleted" => since = Never
      /\ since # Never =>
           /\ since + Lookback <= now
           /\ checkpoint["usage"] + Settle <= now
  BY DEF IInv, CheckpointInv
<1>1. /\ since \in Days \cup {Never} /\ checkpoint["usage"] \in Days \cup {Never}
      /\ Lookback \in Nat /\ Settle \in Nat /\ MaxTime \in Nat /\ Never \notin Nat
  BY UsageAssumption DEF IInv, TypeOK, Streams
<1>2. Lookback <= now'
  BY <1>0, <1>1, ClockCases
<1>3. CASE UNCHANGED Marks /\ ~Delete
  <2>1. checkpoint' = checkpoint /\ since' = since
    BY <1>3 DEF Marks
  <2>2. account' = "deleted" => since' = Never
    BY <1>0, <1>3, <2>1, AccountCases
  <2>3. since' # Never => since' + Lookback <= now' /\ checkpoint'["usage"] + Settle <= now'
    BY <1>0, <1>1, <2>1, ClockCases DEF Days
  <2> QED BY <1>0, <1>2, <2>1, <2>2, <2>3 DEF CheckpointInv
<1>4. CASE Delete
  <2>1. checkpoint' = [s \in Streams |-> Never] /\ since' = Never
    BY <1>4 DEF Delete
  <2> QED BY <1>2, <2>1 DEF CheckpointInv, Streams
<1>5. ASSUME NEW p \in Syncs, MarkSuccess(p)
      PROVE  CheckpointInv'
  <2> DEFINE start == sync[p].start  end == sync[p].end
  <2>1. /\ checkpoint' = [s \in Streams |-> end] /\ start \in Days /\ end \in Days
        /\ since' \in Days /\ since' <= start
        /\ since = Never => since' = start
        /\ since # Never => since \in Days /\ since' <= since
    BY <1>5, Success
  <2>2. Running(p) /\ account' = account /\ account # "deleted" /\ now' = now
    BY <1>5 DEF MarkSuccess, SyncAt, Running
  <2>3. /\ end + Settle <= now
        /\ since = Never => start + Lookback <= now
    BY <2>2, InWindow
  <2> HIDE DEF start, end
  <2>4. since' + Lookback <= now
    BY <1>0, <1>1, <2>1, <2>3, ClockCases DEF Days
  <2>5. end # Never /\ since' # Never
    BY <1>1, <2>1 DEF Days
  <2>6. checkpoint'["usage"] = end /\ \A s \in Streams : checkpoint'[s] = end
    BY <2>1 DEF Streams
  <2> QED BY <1>2, <2>2, <2>3, <2>4, <2>5, <2>6 DEF CheckpointInv
<1> QED BY <1>3, <1>4, <1>5, MarksCases

\* While no window has succeeded, none has been taken from a checkpoint.
LEMMA NeverBefore ==
  ASSUME IInv, [Next]_vars, since' = Never, account' # "deleted"
  PROVE  since = Never /\ account # "deleted"
<1>1. ASSUME NEW p \in Syncs, MarkSuccess(p)
      PROVE  FALSE
  <2>1. since' \in Nat
    BY <1>1, Success DEF Days
  <2> QED BY <2>1, UsageAssumption
<1>2. ~Delete
  BY DEF Delete
<1> QED BY <1>1, <1>2, MarksCases, AccountCases DEF Marks

WindowOf(p) ==
  /\ SyncAt(p, "window") =>
       Lookback <= sync[p].end /\ sync[p].end <= now /\ now <= sync[p].end + MaxRun
  /\ Running(p) =>
       /\ sync[p].start < sync[p].end
       /\ sync[p].end + Settle <= now
       /\ now <= sync[p].end + Settle + MaxRun
       /\ sync[p].start + Overlap + Settle <= now
       /\ since = Never /\ account # "deleted" => sync[p].start + Lookback <= now
  /\ SyncAt(p, "succeed") => sync[p].stream = "costs"
  /\ ~Running(p) => sync[p].stream = "usage"

LEMMA OfEach == WindowInv <=> \A p \in Syncs : WindowOf(p)
BY DEF WindowInv, WindowOf

LEMMA WindowStep ==
  ASSUME IInv, [Next]_vars
  PROVE  WindowInv'
<1> SUFFICES ASSUME NEW q \in Syncs
             PROVE  WindowOf(q)'
  BY DEF WindowInv, WindowOf
<1>0. /\ now \in Nat /\ now' \in Nat /\ now <= now'
      /\ Lookback \in Nat /\ Settle \in Nat /\ MaxRun \in Nat /\ Overlap \in Nat
  BY UsageAssumption, ClockCases
<1>1. sync[q] \in SyncType /\ sync[q].start \in Nat /\ sync[q].end \in Nat
  <2>1. sync[q] \in SyncType
    BY DEF IInv, TypeOK
  <2> QED BY <2>1, Record DEF Days
<1>2. WindowOf(q)
  BY OfEach DEF IInv
<1>3. CASE sync'[q] = sync[q] /\ now' = now
  BY <1>2, <1>3, NeverBefore DEF WindowOf, SyncAt, Running
<1>4. CASE Tick
  <2>1. now' = now + 1 /\ sync' = sync /\ (SyncAt(q, "idle") \/ now < sync[q].end + MaxRun)
    BY <1>4 DEF Tick, importVars
  <2> DEFINE start == sync[q].start  end == sync[q].end
  <2>2. start \in Nat /\ end \in Nat
    BY <1>1
  <2>3. SyncAt(q, "idle") => ~SyncAt(q, "window") /\ ~Running(q)
    BY DEF SyncAt, Running
  <2> HIDE DEF start, end
  <2>4. SyncAt(q, "window") => Lookback <= end /\ end <= now' /\ now' <= end + MaxRun
    BY <1>0, <1>2, <2>1, <2>2, <2>3 DEF WindowOf, end
  <2>5. Running(q) => /\ start < end
                      /\ end + Settle <= now'
                      /\ now' <= end + Settle + MaxRun
                      /\ start + Overlap + Settle <= now'
                      /\ since = Never /\ account # "deleted" => start + Lookback <= now'
    BY <1>0, <1>2, <2>1, <2>2, <2>3 DEF WindowOf, start, end
  <2>6. sync' = sync
    BY <2>1
  <2> QED BY <1>2, <2>4, <2>5, <2>6, NeverBefore DEF WindowOf, SyncAt, Running, start, end
<1>5. ASSUME NEW p \in Syncs, Step(p)
      PROVE  WindowOf(q)'
  <2>1. now' = now /\ Others(p)
    BY <1>5, Effects DEF IInv
  <2>2. CASE q # p
    BY <1>3, <2>1, <2>2 DEF Others
  <2>3. CASE q = p /\ Rests(q)
    BY <2>3 DEF Rests, WindowOf, SyncAt, Running
  <2>4. CASE q = p /\ Loads(q)
    <3>1. sync[q].at = "load" /\ sync[q].stream = "usage" /\ Lookback <= now
      BY <1>2, <2>4 DEF Loads, WindowOf, Running, IInv, CheckpointInv
    <3>2. /\ sync'[q].at = "window" /\ sync'[q].end = now /\ sync'[q].stream = "usage"
          /\ now <= now + MaxRun
      BY <1>0, <2>4, <3>1 DEF Loads
    <3>3. /\ Lookback <= sync'[q].end /\ sync'[q].end <= now'
          /\ now' <= sync'[q].end + MaxRun
      BY <1>0, <2>1, <3>1, <3>2
    <3>4. ~Running(q)' /\ sync'[q].at # "succeed"
      BY <3>2 DEF Running
    <3> QED BY <3>2, <3>3, <3>4 DEF WindowOf, SyncAt
  <2>5. CASE q = p /\ Opens(q) /\ UNCHANGED Marks
    <3> DEFINE end == sync[q].end  start == WindowStart(sync[q].end)
    <3>1. /\ sync[q].at = "window" /\ sync'[q].at = "fetch"
          /\ sync'[q].start = start /\ sync'[q].end = end - Settle /\ start < end - Settle
      BY <2>5 DEF Opens
    <3>2. end \in Days /\ Lookback <= end /\ end <= now /\ now <= end + MaxRun
      <4>1. end \in Days
        BY Record DEF IInv, TypeOK
      <4> QED BY <1>2, <3>1, <4>1 DEF WindowOf, SyncAt
    <3>3. /\ start \in Days /\ start + Overlap + Settle <= now
          /\ since = Never => start + Lookback = end
      BY <3>2, WindowStarts DEF IInv
    <3>4. end \in Nat /\ start \in Nat
      BY <3>2, <3>3 DEF Days
    <3> HIDE DEF start, end
    <3>5. /\ end - Settle + Settle <= now
          /\ now <= end - Settle + Settle + MaxRun
          /\ since = Never => start + Lookback <= now
      BY <1>0, <3>2, <3>3, <3>4
    <3>6. since' = since
      BY <2>5 DEF Marks
    <3>7. /\ sync'[q].start < sync'[q].end
          /\ sync'[q].end + Settle <= now'
          /\ now' <= sync'[q].end + Settle + MaxRun
          /\ sync'[q].start + Overlap + Settle <= now'
          /\ since' = Never => sync'[q].start + Lookback <= now'
      BY <2>1, <3>1, <3>3, <3>5, <3>6
    <3> QED BY <3>1, <3>7 DEF WindowOf, SyncAt, Running
  <2>6. CASE q = p /\ (Fetches(q) \/ Stores(q) \/ Finishes(q))
    <3>1. /\ Running(q) /\ SameWindow(q) /\ sync'[q].at \in {"fetch", "store", "succeed"}
          /\ sync'[q].at = "succeed" => sync'[q].stream = "costs"
      BY <2>6 DEF Fetches, Stores, Finishes, Running
    <3> QED BY <1>2, <2>1, <3>1, NeverBefore DEF WindowOf, SyncAt, Running, SameWindow
  <2> QED BY <1>5, <2>2, <2>3, <2>4, <2>5, <2>6, Effects DEF IInv
<1> QED
  BY <1>3, <1>4, <1>5, StepCases DEF Bystands, Delete, Change

PageOf(p) ==
  SyncAt(p, "store") =>
    \A d \in DOMAIN sync[p].page :
      /\ d \in sync[p].start .. sync[p].end
      /\ sync[p].page[d] <= truth[d]
      /\ d + Overlap < sync[p].end => sync[p].page[d] = truth[d] \/ d \in late

\* A correction of day d makes an older version of it one that is late, if the day
\* was read from before the overlap of a window.
LEMMA Corrected ==
  ASSUME IInv, NEW d \in Days, Change(d)
  PROVE  /\ \A y \in Days : truth'[y] = IF y = d THEN truth[d] + 1 ELSE truth[y]
         /\ \A y \in Days : truth[y] \in Nat
         /\ late \subseteq late'
         /\ now > d + Overlap + Settle => d \in late'
<1>1. truth \in [Days -> 0 .. MaxChanges]
  BY DEF IInv, TypeOK
<1>2. truth' = [truth EXCEPT ![d] = truth[d] + 1]
  BY <1>1 DEF Change
<1> QED BY <1>1, <1>2 DEF Change

LEMMA PageStep ==
  ASSUME IInv, [Next]_vars
  PROVE  PageInv'
<1> SUFFICES ASSUME NEW q \in Syncs
             PROVE  PageOf(q)'
  BY DEF PageInv, PageOf
<1>0. sync[q] \in SyncType /\ PageOf(q)
  BY DEF IInv, TypeOK, PageInv, PageOf
<1>1. CASE UNCHANGED <<sync[q], truth, late>>
  <2>1. SyncAt(q, "store")' <=> SyncAt(q, "store")
    BY <1>1 DEF SyncAt
  <2> QED BY <1>0, <1>1, <2>1 DEF PageOf
<1>2. CASE sync'[q].at # "store"
  BY <1>2 DEF PageOf, SyncAt
<1>3. CASE Fetches(q) /\ UNCHANGED <<truth, late>>
  <2> DEFINE start == sync[q].start  end == sync[q].end
  <2>1. start \in Days /\ end \in Days
    BY <1>0, Record
  <2>2. /\ sync'[q].page = [d \in start .. end |-> truth[d]]
        /\ sync'[q].start = start /\ sync'[q].end = end
    BY <1>3 DEF Fetches, SameWindow, RowsFromPayload
  <2>3. \A d \in start .. end : d \in Days
    BY <2>1, UsageAssumption DEF Days
  <2> HIDE DEF start, end
  <2>4. \A d \in start .. end : truth'[d] = truth[d] /\ truth[d] \in Nat
    BY <1>3, <2>3 DEF IInv, TypeOK
  <2>5. \A d \in DOMAIN sync'[q].page :
          /\ d \in start .. end
          /\ sync'[q].page[d] = truth'[d] /\ truth'[d] <= truth'[d]
    BY <2>2, <2>4
  <2> QED BY <2>2, <2>5 DEF PageOf
<1>4. CASE Stores(q) /\ UNCHANGED <<truth, late>>
  <2> DEFINE d0 == Min(DOMAIN sync[q].page)
  <2>1. /\ sync'[q].page = Restrict(sync[q].page, DOMAIN sync[q].page \ {d0})
        /\ sync[q].at = "store" /\ SameWindow(q)
    BY <1>4 DEF Stores
  <2> HIDE DEF d0
  <2>2. \A d \in DOMAIN sync'[q].page :
          d \in DOMAIN sync[q].page /\ sync'[q].page[d] = sync[q].page[d]
    BY <2>1 DEF Restrict
  <2> QED BY <1>0, <1>4, <2>1, <2>2 DEF PageOf, SyncAt, SameWindow
<1>5. ASSUME NEW y \in Days, Change(y)
      PROVE  PageOf(q)'
  <2>1. sync' = sync /\ now' = now
    BY <1>5 DEF Change
  <2>2. SUFFICES ASSUME SyncAt(q, "store"), NEW d \in DOMAIN sync[q].page
                 PROVE  /\ sync[q].page[d] <= truth'[d]
                        /\ d + Overlap < sync[q].end =>
                             sync[q].page[d] = truth'[d] \/ d \in late'
    BY <1>0, <2>1 DEF PageOf, SyncAt
  <2> DEFINE v == sync[q].page[d]  start == sync[q].start  end == sync[q].end
  <2>3. /\ d \in start .. end /\ v <= truth[d]
        /\ d + Overlap < end => v = truth[d] \/ d \in late
    BY <1>0, <2>2 DEF PageOf
  <2>4. start \in Nat /\ end \in Nat /\ end + Settle <= now
    BY <2>2, InWindow DEF Running, SyncAt
  <2>5. PICK w \in SUBSET Days : sync[q].page \in [w -> 0 .. MaxChanges]
    BY <1>0, Record DEF Pages
  <2>6. v \in Nat /\ d \in Days
    BY <2>2, <2>5
  <2> HIDE DEF v, start, end
  <2>7. d \in Nat /\ truth[d] \in Nat /\ truth'[d] = (IF d = y THEN truth[y] + 1 ELSE truth[d])
    BY <1>5, <2>6, Corrected DEF Days
  <2>8. v <= truth'[d]
    BY <2>3, <2>6, <2>7
  <2>9. ASSUME d + Overlap < end
        PROVE  v = truth'[d] \/ d \in late'
    <3>1. d + Overlap + Settle < now
      BY <2>4, <2>7, <2>9, UsageAssumption, ClockCases
    <3>2. CASE d = y
      BY <1>5, <3>1, <3>2, Corrected, ClockCases, UsageAssumption
    <3>3. CASE d # y
      BY <1>5, <2>3, <2>7, <2>9, <3>3, Corrected
    <3> QED BY <3>2, <3>3
  <2> QED BY <2>8, <2>9 DEF v, end
<1>6. ASSUME NEW p \in Syncs, Step(p)
      PROVE  PageOf(q)'
  <2>1. UNCHANGED <<truth, late>> /\ Others(p)
    BY <1>6, StepKeeps, Effects DEF IInv
  <2>2. CASE q # p
    BY <1>1, <2>1, <2>2 DEF Others
  <2>3. CASE q = p
    <3>1. sync'[q].at # "store" \/ Fetches(q) \/ Stores(q)
      BY <1>6, <2>3, Effects DEF IInv, Rests, Loads, Opens, Finishes
    <3> QED BY <1>2, <1>3, <1>4, <2>1, <3>1
  <2> QED BY <2>2, <2>3
<1> QED
  BY <1>1, <1>5, <1>6, StepCases DEF Bystands, Data, Delete, Tick, importVars, providerVars

-----------------------------------------------------------------------------
(* What is stored                                                          *)

\* Whatever is right about a day that is past every overlap stays so while the
\* account exists: newer figures are late, older ones count as overwritten.
LEMMA GoodKept ==
  ASSUME IInv, [Next]_vars, NEW s \in Streams, NEW d \in Days, Good(s, d),
         account' # "deleted", d + Overlap + Settle < now
  PROVE  Good(s, d)'
<1>0. /\ truth \in [Days -> 0 .. MaxChanges] /\ bucket \in [Streams -> [Days -> 0 .. MaxChanges]]
  BY DEF IInv, TypeOK
<1>1. truth[d] \in Nat /\ bucket[s][d] \in Nat
  BY <1>0
<1>2. CASE UNCHANGED Data
  BY <1>2 DEF Data, Good
<1>3. ASSUME NEW y \in Days, Change(y)
      PROVE  Good(s, d)'
  <2>1. bucket' = bucket /\ overwritten' = overwritten /\ late \subseteq late'
    BY <1>3, Corrected DEF Change
  <2>2. truth'[d] = truth[d] \/ d = y
    BY <1>3, Corrected
  <2>3. d = y => d \in late'
    BY <1>3, Corrected, ClockCases, UsageAssumption DEF Days
  <2> QED BY <2>1, <2>2, <2>3 DEF Good
<1>4. ASSUME NEW p \in Syncs, StoreRow(p)
      PROVE  Good(s, d)'
  <2> DEFINE s0 == sync[p].stream  page == sync[p].page  d0 == Min(DOMAIN page)  v == page[d0]
  <2>1. /\ s0 \in Streams /\ d0 \in Days /\ v \in 0 .. MaxChanges /\ v <= truth[d0]
        /\ bucket'[s][d] = IF s = s0 /\ d = d0 THEN v ELSE bucket[s][d]
    BY <1>4, Row DEF IInv
  <2>2. overwritten' = IF v < bucket[s0][d0] THEN overwritten \cup {<<s0, d0>>}
                        ELSE overwritten \ {x \in {<<s0, d0>>} : v = truth[d0]}
    BY <1>4 DEF StoreRow
  <2>3. truth' = truth /\ late' = late
    BY <1>4 DEF StoreRow, providerVars
  <2> HIDE DEF s0, d0, v, page
  <2>4. CASE s = s0 /\ d = d0
    <3>1. v \in Nat /\ v <= truth[d] /\ bucket'[s][d] = v
      BY <2>1, <2>4
    <3>2. CASE v < bucket[s][d]
      BY <2>2, <2>4, <3>2 DEF Good
    <3>3. CASE ~(v < bucket[s][d])
      <4>1. bucket[s][d] = truth[d] => v = truth[d]
        BY <1>1, <3>1, <3>3
      <4>2. v = truth[d] \/ overwritten' = overwritten
        BY <2>2, <2>4, <3>3
      <4> QED BY <2>3, <3>1, <4>1, <4>2 DEF Good
    <3> QED BY <3>2, <3>3
  <2>5. CASE ~(s = s0 /\ d = d0)
    <3>1. <<s, d>> # <<s0, d0>> /\ bucket'[s][d] = bucket[s][d]
      BY <2>1, <2>5
    <3>2. <<s, d>> \in overwritten => <<s, d>> \in overwritten'
      BY <2>2, <3>1
    <3> QED BY <2>3, <3>1, <3>2 DEF Good
  <2> QED BY <2>4, <2>5
<1>5. ASSUME NEW p \in Syncs, Step(p)
      PROVE  StoreRow(p) \/ UNCHANGED Data
  BY <1>5, Effects DEF IInv, MarkSuccess, Data, providerVars
<1>6. ~Delete
  BY DEF Delete
<1> QED BY <1>2, <1>3, <1>4, <1>5, <1>6, StepCases DEF Bystands, Tick, importVars, providerVars, Data

\* What a sync has stored after a step, it had stored before, or this is its row.
LEMMA StoredBefore ==
  ASSUME IInv, NEW p \in Syncs, Step(p), NEW s \in Streams, NEW d \in Days, Stored(p, s, d)',
         sync'[p].start <= d, d + Overlap < sync'[p].end
  PROVE  /\ SameWindow(p)
         /\ \/ Stored(p, s, d)
            \/ StoreRow(p) /\ s = sync[p].stream /\ d = Min(DOMAIN sync[p].page)
<1>0. sync'[p].at \in {"fetch", "store", "succeed"} /\ ~Rests(p) /\ ~Loads(p)
  BY DEF Stored, SyncAt, Rests, Loads
<1>1. CASE Opens(p)
  <2>1. sync'[p].at = "fetch" /\ sync'[p].stream = "usage"
    BY <1>1 DEF Opens, IInv, WindowInv, Running
  <2> QED BY <2>1 DEF Stored, SyncAt
<1>2. CASE Fetches(p)
  <2> DEFINE start == sync[p].start  end == sync[p].end
  <2>0. sync[p].start \in Nat /\ sync[p].end \in Nat /\ d \in Nat /\ Overlap \in Nat
    BY <1>2, InWindow, UsageAssumption DEF Fetches, Running, Days
  <2>1. /\ sync[p].at = "fetch" /\ sync'[p].at = "store" /\ SameWindow(p)
        /\ sync'[p].stream = sync[p].stream
        /\ sync'[p].page = [y \in start .. end |-> truth[y]]
    BY <1>2 DEF Fetches, RowsFromPayload
  <2>2. d \in start .. end
    BY <2>0, <2>1 DEF SameWindow
  <2> HIDE DEF start, end
  <2>3. d \in DOMAIN sync'[p].page
    BY <2>1, <2>2
  <2> QED BY <2>1, <2>3 DEF Stored, SyncAt
<1>3. CASE Stores(p) /\ StoreRow(p)
  <2> DEFINE d0 == Min(DOMAIN sync[p].page)
  <2>1. /\ sync[p].at = "store" /\ sync'[p].at = "store" /\ SameWindow(p)
        /\ sync'[p].stream = sync[p].stream
        /\ sync'[p].page = Restrict(sync[p].page, DOMAIN sync[p].page \ {d0})
    BY <1>3 DEF Stores
  <2> HIDE DEF d0
  <2>2. DOMAIN sync'[p].page = DOMAIN sync[p].page \ {d0}
    BY <2>1 DEF Restrict
  <2>3. d \notin DOMAIN sync'[p].page => d \notin DOMAIN sync[p].page \/ d = d0
    BY <2>2
  <2> QED BY <1>3, <2>1, <2>3 DEF Stored, SyncAt, d0
<1>4. CASE Finishes(p)
  BY <1>4 DEF Finishes, Stored, SyncAt, Streams
<1> QED BY <1>0, <1>1, <1>2, <1>3, <1>4, Effects DEF IInv

LEMMA StoredStep ==
  ASSUME IInv, [Next]_vars
  PROVE  StoredInv'
<1> SUFFICES ASSUME account' # "deleted", NEW q \in Syncs, NEW s \in Streams, NEW d \in Days,
                    Stored(q, s, d)', sync'[q].start <= d, d + Overlap < sync'[q].end
             PROVE  Good(s, d)'
  BY DEF StoredInv, Stored, SyncAt, Good
<1>0. account # "deleted"
  BY AccountCases
<1>1. ASSUME SameWindow(q), Stored(q, s, d)
      PROVE  Good(s, d)'
  <2>1. Good(s, d)
    BY <1>0, <1>1 DEF IInv, StoredInv, SameWindow
  <2>2. sync[q].end \in Nat /\ sync[q].end + Settle <= now
    BY <1>1, InWindow DEF Stored, SyncAt, Running
  <2>3. d + Overlap + Settle < now
    BY <1>1, <2>2, ClockCases, UsageAssumption DEF SameWindow, Days
  <2> QED BY <2>1, <2>3, GoodKept
<1>2. CASE sync'[q] = sync[q]
  BY <1>1, <1>2 DEF SameWindow, Stored, SyncAt
<1>3. CASE Step(q)
  <2>1. CASE Stored(q, s, d)
    BY <1>1, <1>3, <2>1, StoredBefore
  <2>2. CASE StoreRow(q) /\ s = sync[q].stream /\ d = Min(DOMAIN sync[q].page)
    <3>1. SameWindow(q)
      BY <1>3, StoredBefore
    <3> DEFINE v == sync[q].page[d]
    <3>2. /\ bucket'[s][d] = v
          /\ d + Overlap < sync[q].end => v = truth[d] \/ d \in late
      BY <2>2, Row DEF IInv
    <3>3. truth' = truth /\ late' = late
      BY <2>2 DEF StoreRow, providerVars
    <3> QED BY <3>1, <3>2, <3>3 DEF Good, SameWindow
  <2> QED BY <1>3, <2>1, <2>2, StoredBefore
<1>4. ASSUME NEW p \in Syncs, Step(p), p # q
      PROVE  sync'[q] = sync[q]
  BY <1>4, Effects DEF IInv, Others
<1> QED
  BY <1>2, <1>3, <1>4, StepCases DEF Bystands, Delete, Tick, Change, importVars

LEMMA NotDeleted ==
  ASSUME IInv, [Next]_vars, since' # Never
  PROVE  account' # "deleted"
BY CheckpointStep DEF CheckpointInv

\* What lies between the earliest window and this one: it was good, or the sync
\* that succeeds just now has stored it.
LEMMA BeforeSuccess ==
  ASSUME IInv, NEW p \in Syncs, MarkSuccess(p), NEW s \in Streams, NEW d \in Days,
         d < since \/ since = Never, since' <= d, d + Lookback < now
  PROVE  Good(s, d)
<1> DEFINE start == sync[p].start  end == sync[p].end
<1>1. account # "deleted" /\ Stored(p, s, d) /\ Running(p)
  BY DEF MarkSuccess, Stored, SyncAt, Running
<1>2. /\ start \in Nat /\ end \in Nat /\ now <= end + Settle + MaxRun
  BY <1>1, InWindow
<1>3. since' \in Nat /\ since' <= start /\ (since # Never => since \in Nat) /\ d \in Nat
  BY Success DEF Days
<1>4. since' = start \/ (since # Never /\ since' = since)
  BY Success
<1> HIDE DEF start, end
<1>5. start <= d
  <2>1. since # Never => since' # since
    BY <1>3
  <2> QED BY <1>4, <2>1
<1>6. d + Overlap < end
  BY <1>2, <1>3, UsageAssumption, ClockCases DEF IInv, TypeOK, Days
<1> QED BY <1>1, <1>5, <1>6 DEF IInv, StoredInv, start, end

LEMMA BeforeStep ==
  ASSUME IInv, [Next]_vars
  PROVE  BeforeInv'
<1> SUFFICES ASSUME since' # Never, NEW q \in Syncs, NEW s \in Streams, NEW d \in Days,
                    Running(q)', since' <= d, d < sync'[q].start
             PROVE  Good(s, d)'
  BY DEF BeforeInv, Running, Good
<1>d. account' # "deleted"
  BY NotDeleted
<1>n. /\ d \in Nat /\ Overlap \in Nat /\ Settle \in Nat /\ Lookback \in Nat
      /\ now \in Nat /\ since \in Days \cup {Never}
  BY UsageAssumption, ClockCases DEF IInv, TypeOK, Days
<1>0. /\ account' # "deleted" /\ d \in Nat /\ Overlap \in Nat /\ Settle \in Nat
      /\ now \in Nat /\ since \in Days \cup {Never} /\ Lookback \in Nat
  BY <1>d, <1>n
<1>1. ASSUME Running(q), SameWindow(q), UNCHANGED Marks
      PROVE  Good(s, d)'
  <2>1. Good(s, d)
    BY <1>1 DEF IInv, BeforeInv, SameWindow, Marks
  <2>2. sync[q].start \in Nat /\ sync[q].start + Overlap + Settle <= now /\ d < sync[q].start
    BY <1>1, InWindow DEF SameWindow
  <2>3. d + Overlap + Settle < now
    BY <1>0, <2>2
  <2> QED BY <1>0, <2>1, <2>3, GoodKept
<1>2. CASE sync'[q] = sync[q] /\ UNCHANGED Marks
  BY <1>1, <1>2 DEF SameWindow, Running
<1>3. CASE Opens(q) /\ UNCHANGED Marks
  <2> DEFINE end == sync[q].end  start == WindowStart(sync[q].end)
  <2>1. sync[q].at = "window" /\ sync'[q].start = start
    BY <1>3 DEF Opens
  <2>2. end \in Days /\ Lookback <= end /\ end <= now
    <3>1. sync[q].end \in Days
      BY Record DEF IInv, TypeOK
    <3> QED BY <2>1, <3>1 DEF IInv, WindowInv, SyncAt
  <2>3. since' = since /\ since # Never
    BY <1>3 DEF Marks
  <2>4. d + Overlap < checkpoint["usage"] /\ start \in Days /\ start + Overlap + Settle <= now
    BY <2>1, <2>2, <2>3, WindowStarts DEF IInv
  <2>5. Good(s, d)
    BY <2>3, <2>4 DEF IInv, KeptInv
  <2>6. start \in Nat /\ d < start
    BY <2>1, <2>4 DEF Days
  <2> HIDE DEF start
  <2>7. d + Overlap + Settle < now
    BY <1>0, <2>4, <2>6
  <2> QED BY <1>0, <2>5, <2>7, GoodKept
<1>4. CASE (Fetches(q) \/ Stores(q) \/ Finishes(q)) /\ UNCHANGED Marks
  BY <1>1, <1>4 DEF Fetches, Stores, Finishes, Running
<1>5. ASSUME NEW p \in Syncs, MarkSuccess(p)
      PROVE  Good(s, d)'
  <2>1. Rests(p) /\ Others(p)
    BY <1>5, Effects DEF IInv, Step, Stores, StoreRow, MarkSuccess, SyncAt, Loads, Opens, Fetches,
                        Finishes
  <2>2. q # p
    BY <2>1 DEF Rests, Running
  <2>3. sync'[q] = sync[q] /\ Running(q)
    BY <2>1, <2>2 DEF Others, Running
  <2>4. UNCHANGED Data /\ account # "deleted"
    BY <1>5 DEF MarkSuccess, providerVars, Data
  <2>5. Good(s, d)
    <3>1. CASE since # Never /\ since <= d
      BY <2>3, <3>1 DEF IInv, BeforeInv
    <3>2. CASE since = Never
      <4>1. sync[q].start \in Nat /\ sync[q].start + Lookback <= now /\ d < sync[q].start
        BY <2>3, <2>4, <3>2, InWindow
      <4>2. d + Lookback < now
        BY <1>0, <4>1
      <4> QED BY <1>5, <3>2, <4>2, BeforeSuccess
    <3>3. CASE since # Never /\ ~(since <= d)
      <4>1. since \in Nat /\ since + Lookback <= now /\ d < since
        BY <1>0, <3>3 DEF Days, IInv, CheckpointInv
      <4>2. d + Lookback < now
        BY <1>0, <4>1
      <4> QED BY <1>5, <4>1, <4>2, BeforeSuccess
    <3> QED BY <3>1, <3>2, <3>3
  <2> QED BY <2>4, <2>5 DEF Data, Good
<1>6. ASSUME NEW p \in Syncs, Step(p)
      PROVE  Good(s, d)'
  <2>1. CASE p # q /\ UNCHANGED Marks
    <3>1. sync'[q] = sync[q]
      BY <1>6, <2>1, Effects DEF IInv, Others
    <3> QED BY <1>2, <2>1, <3>1
  <2>2. CASE p = q /\ UNCHANGED Marks /\ ~MarkSuccess(p)
    <3>1. Opens(q) \/ Fetches(q) \/ Stores(q) \/ Finishes(q)
      BY <1>6, <2>2, Effects DEF IInv, Rests, Loads, Running
    <3> QED BY <1>3, <1>4, <2>2, <3>1
  <2>3. MarkSuccess(p) \/ UNCHANGED Marks
    BY <1>6 DEF Step, SyncNow, LoadAccount, OpenRun, FetchPages, StoreRow, StreamDone, Fail, Marks
  <2> QED BY <1>5, <2>1, <2>2, <2>3
<1>7. ~Delete
  BY <1>0 DEF Delete
<1> QED
  BY <1>2, <1>6, <1>7, StepCases DEF Bystands, Tick, Change, importVars, Marks

LEMMA KeptStep ==
  ASSUME IInv, [Next]_vars
  PROVE  KeptInv'
<1> SUFFICES ASSUME since' # Never, NEW s \in Streams, NEW d \in Days,
                    since' <= d, d + Overlap < checkpoint'["usage"]
             PROVE  Good(s, d)'
  BY DEF KeptInv, Good
<1>d. account' # "deleted"
  BY NotDeleted
<1>n. /\ d \in Nat /\ Overlap \in Nat /\ Settle \in Nat
      /\ now \in Nat /\ since \in Days \cup {Never}
  BY UsageAssumption, ClockCases DEF IInv, TypeOK, Days
<1>0. /\ account' # "deleted" /\ d \in Nat /\ Overlap \in Nat /\ Settle \in Nat
      /\ now \in Nat /\ since \in Days \cup {Never}
  BY <1>d, <1>n
<1>1. CASE UNCHANGED Marks
  <2> DEFINE c == checkpoint["usage"]
  <2>1. since # Never /\ since <= d /\ d + Overlap < c
    BY <1>1 DEF Marks
  <2>2. c \in Nat /\ c + Settle <= now
    BY <2>1 DEF IInv, TypeOK, CheckpointInv, Streams, Days
  <2>3. Good(s, d)
    BY <2>1 DEF IInv, KeptInv
  <2> HIDE DEF c
  <2>4. d + Overlap + Settle < now
    BY <1>0, <2>1, <2>2
  <2> QED BY <1>0, <2>3, <2>4, GoodKept
<1>2. ASSUME NEW p \in Syncs, MarkSuccess(p)
      PROVE  Good(s, d)'
  <2> DEFINE start == sync[p].start  end == sync[p].end
  <2>1. UNCHANGED Data /\ account # "deleted" /\ Stored(p, s, d) /\ Running(p)
    BY <1>2 DEF MarkSuccess, providerVars, Data, Stored, SyncAt, Running
  <2>2. checkpoint'["usage"] = end
    BY <1>2, Success DEF Streams
  <2>3. start \in Nat /\ since' \in {since, start} /\ (since = Never => since' = start)
    BY <1>2, Success DEF Days
  <2> HIDE DEF start, end
  <2>4. CASE start <= d
    BY <2>1, <2>2, <2>4 DEF IInv, StoredInv, start, end, Data, Good
  <2>5. CASE ~(start <= d)
    <3>1. since # Never /\ since <= d /\ d < start
      BY <1>0, <2>3, <2>5
    <3> QED BY <2>1, <3>1 DEF IInv, BeforeInv, start, Data, Good
  <2> QED BY <2>4, <2>5
<1>3. ~Delete
  BY <1>0 DEF Delete
<1> QED BY <1>1, <1>2, <1>3, MarksCases

-----------------------------------------------------------------------------
(* Events of applications                                                  *)

\* Requests insert, commit and give up; nothing else but a deletion touches events.
LEMMA CallStep ==
  ASSUME IInv, [Next]_vars
  PROVE  /\ CallInv'
         /\ reported' \subseteq SdkEvents /\ counted' \in 0 .. Cardinality(SdkEvents)
         /\ call' \in [Calls -> SdkEvents \cup {"idle"}]
<1> DEFINE CallType == /\ reported' \subseteq SdkEvents
                       /\ call' \in [Calls -> SdkEvents \cup {"idle"}]
<1>0. /\ call \in [Calls -> SdkEvents \cup {"idle"}] /\ reported \subseteq SdkEvents
      /\ counted = Cardinality(reported) /\ IsFiniteSet(reported)
      /\ \A c \in Calls : call[c] # "idle" => call[c] \notin reported
      /\ \A c, x \in Calls : c # x /\ call[c] # "idle" => call[c] # call[x]
  BY UsageAssumption, FS_Subset DEF IInv, TypeOK, CallInv
<1>1. ASSUME UNCHANGED sdkVars
      PROVE  CallInv' /\ CallType
  <2>1. reported' = reported /\ counted' = counted /\ call' = call
    BY <1>1 DEF sdkVars
  <2> QED BY <1>0, <2>1 DEF CallInv
<1>2. ASSUME NEW c \in Calls, Request(c)
      PROVE  CallInv' /\ CallType
  <2>1. CASE AddToBucket(c)
    <3>1. /\ call[c] # "idle" /\ reported' = reported \cup {call[c]} /\ counted' = counted + 1
          /\ call' = [call EXCEPT ![c] = "idle"]
      BY <2>1 DEF AddToBucket
    <3>2. call[c] \notin reported /\ call[c] \in SdkEvents
      BY <1>0, <3>1
    <3>3. Cardinality(reported') = Cardinality(reported) + 1
      BY <1>0, <3>1, <3>2, FS_AddElement
    <3>4. \A x \in Calls : call'[x] = IF x = c THEN "idle" ELSE call[x]
      BY <1>0, <3>1
    <3>5. \A x \in Calls : call'[x] # "idle" => x # c /\ call'[x] = call[x]
      BY <3>4
    <3>6. \A x \in Calls : call'[x] # "idle" => call'[x] \notin reported'
      BY <1>0, <3>1, <3>5
    <3>7. \A x, y \in Calls : x # y /\ call'[x] # "idle" => call'[x] # call'[y]
      BY <1>0, <3>4
    <3>8. CallType
      BY <1>0, <3>1, <3>2
    <3> QED BY <1>0, <3>1, <3>3, <3>6, <3>7, <3>8 DEF CallInv
  <2>2. CASE Rollback(c)
    <3>1. call' = [call EXCEPT ![c] = "idle"] /\ UNCHANGED <<reported, counted>>
      BY <2>2 DEF Rollback
    <3>2. \A x \in Calls : call'[x] = IF x = c THEN "idle" ELSE call[x]
      BY <1>0, <3>1
    <3>3. CallType
      BY <1>0, <3>1
    <3> QED BY <1>0, <3>1, <3>2, <3>3 DEF CallInv
  <2>3. ASSUME NEW e \in SdkEvents, InsertEvent(c, e)
        PROVE  CallInv' /\ CallType
    <3>1. /\ call' = [call EXCEPT ![c] = e] /\ UNCHANGED <<reported, counted>>
          /\ e \notin reported /\ \A x \in Calls : call[x] # e
      BY <2>3 DEF InsertEvent, Duplicate
    <3>2. \A x \in Calls : call'[x] = IF x = c THEN e ELSE call[x]
      BY <1>0, <3>1
    <3>3. CallType
      BY <1>0, <3>1
    <3>4. \A x \in Calls : call'[x] # "idle" => call'[x] \notin reported
      BY <1>0, <3>1, <3>2
    <3>5. \A x, y \in Calls : x # y /\ call'[x] # "idle" => call'[x] # call'[y]
      BY <1>0, <3>1, <3>2
    <3> QED BY <1>0, <3>1, <3>3, <3>4, <3>5 DEF CallInv
  <2> QED BY <1>2, <2>1, <2>2, <2>3 DEF Request
<1>3. ASSUME Delete
      PROVE  CallInv' /\ CallType
  <2>1. reported' = {} /\ counted' = 0 /\ call' = call /\ \A c \in Calls : call[c] = "idle"
    BY <1>3 DEF Delete
  <2> QED BY <1>0, <2>1, FS_EmptySet DEF CallInv
<1>4. CallInv' /\ CallType
  <2>1. ASSUME NEW p \in Syncs, Step(p)
        PROVE  UNCHANGED sdkVars
    BY <2>1 DEF Step, SyncNow, LoadAccount, OpenRun, FetchPages, StoreRow, StreamDone, MarkSuccess,
                Fail
  <2>2. (\E status \in Validated : Upsert(status)) => UNCHANGED sdkVars
    BY DEF Upsert
  <2>3. Tick \/ (\E d \in Days : Change(d)) \/ UNCHANGED vars => UNCHANGED sdkVars
    BY DEF Tick, Change, vars
  <2> HIDE DEF CallType
  <2> QED BY <1>1, <1>2, <1>3, <2>1, <2>2, <2>3 DEF Next
<1>5. counted' \in 0 .. Cardinality(SdkEvents)
  <2>1. counted' = Cardinality(reported') /\ reported' \in SUBSET SdkEvents
    BY <1>4 DEF CallInv
  <2>2. IsFiniteSet(SdkEvents)
    BY UsageAssumption
  <2>3. /\ IsFiniteSet(reported') /\ Cardinality(reported') <= Cardinality(SdkEvents)
    BY <2>1, <2>2, FS_Subset
  <2>4. Cardinality(reported') \in Nat /\ Cardinality(SdkEvents) \in Nat
    BY <2>2, <2>3, FS_CardinalityType
  <2> QED BY <2>1, <2>3, <2>4
<1> QED BY <1>4, <1>5

-----------------------------------------------------------------------------
(* The invariant                                                           *)

LEMMA Starts ==
  ASSUME Init
  PROVE  IInv
<1>0. /\ now = Lookback
      /\ truth = [d \in Days |-> 0] /\ changes = 0 /\ late = {}
      /\ account = "verified"
      /\ bucket = [s \in Streams |-> [d \in Days |-> 0]] /\ overwritten = {}
      /\ checkpoint = [s \in Streams |-> Never] /\ since = Never
      /\ sync = [p \in Syncs |-> NoSync]
      /\ reported = {} /\ counted = 0 /\ call = [c \in Calls |-> "idle"]
  BY DEF Init
<1>1. /\ \A p \in Syncs : sync[p].at = "idle" /\ sync[p].stream = "usage"
      /\ sync \in [Syncs -> SyncType]
  BY <1>0, IdleType DEF NoSync
<1>2. /\ Cardinality(reported) = 0 /\ Cardinality(SdkEvents) \in Nat
  BY <1>0, FS_EmptySet, FS_CardinalityType, UsageAssumption
<1>3. now \in Days /\ 0 \in 0 .. MaxChanges /\ 0 \in 0 .. Cardinality(SdkEvents)
  BY <1>0, <1>2, UsageAssumption DEF Days
<1>4. /\ now \in Days /\ late \subseteq Days /\ since \in Days \cup {Never}
      /\ account \in {"verified", "rejected", "deleted"}
      /\ truth \in [Days -> 0 .. MaxChanges] /\ changes \in 0 .. MaxChanges
  BY <1>0, <1>3
<1>5. /\ bucket \in [Streams -> [Days -> 0 .. MaxChanges]]
      /\ overwritten \subseteq Streams \X Days
      /\ checkpoint \in [Streams -> Days \cup {Never}]
  BY <1>0, <1>3
<1>6. /\ reported \subseteq SdkEvents /\ counted \in 0 .. Cardinality(SdkEvents)
      /\ call \in [Calls -> SdkEvents \cup {"idle"}]
  BY <1>0, <1>3
<1>7. TypeOK
  BY <1>1, <1>4, <1>5, <1>6 DEF TypeOK
<1>8. CheckpointInv
  BY <1>0, UsageAssumption DEF CheckpointInv, Streams
<1>9. WindowInv /\ PageInv
  BY <1>1 DEF WindowInv, PageInv, Running, SyncAt
<1>10. StoredInv /\ BeforeInv /\ KeptInv
  BY <1>0, <1>1 DEF StoredInv, BeforeInv, KeptInv, Stored, SyncAt
<1>11. CallInv
  BY <1>0, <1>2 DEF CallInv
<1>12. \A d \in Days : truth[d] <= changes
  BY <1>0
<1> QED BY <1>7, <1>8, <1>9, <1>10, <1>11, <1>12 DEF IInv

LEMMA TypeStep ==
  ASSUME IInv, [Next]_vars
  PROVE  TypeOK'
<1>1. sync' \in [Syncs -> SyncType]
  <2>1. ASSUME NEW p \in Syncs, Step(p)
        PROVE  sync' \in [Syncs -> SyncType]
    BY <2>1, SyncTypes DEF IInv
  <2>2. sync' = sync => sync' \in [Syncs -> SyncType]
    BY DEF IInv, TypeOK
  <2> QED BY <2>1, <2>2, StepCases DEF Bystands, Delete, Tick, Change, importVars
<1> QED BY <1>1, ProviderTypes, DataTypes, MarksTypes, AccountCases, CallStep DEF TypeOK

\* The invariant rests on what the clock bounds: a window starts an overlap before a
\* checkpoint that lies behind, and a sync ends before a first one would look back
\* less far.
THEOREM Invariance == Spec => []IInv
<1>1. Init => IInv
  BY Starts
<1>2. IInv /\ [Next]_vars => IInv'
  BY TypeStep, ProviderTypes, CheckpointStep, WindowStep, PageStep, StoredStep, BeforeStep,
     KeptStep, CallStep DEF IInv
<1> QED BY <1>1, <1>2, PTL DEF Spec

\* Every variable keeps its type.
THEOREM TypeCorrect == Spec => []TypeOK
<1>1. IInv => TypeOK
  BY DEF IInv
<1> QED BY <1>1, Invariance, PTL

\* Behind the overlap no correction is lost that was made in time, whichever syncs
\* fail, stop half way, run at once or move the checkpoint back.
THEOREM CorrectionsAreKept == Spec => []NoTimelyCorrectionIsLost
<1>1. ASSUME IInv
      PROVE  NoTimelyCorrectionIsLost
  <2>1. SUFFICES ASSUME Checkpoint # Never, NEW s \in Streams, NEW d \in since .. MaxTime,
                        ~(d + Overlap >= Checkpoint)
                 PROVE  Good(s, d)
    BY DEF NoTimelyCorrectionIsLost, Good
  <2>2. Checkpoint = checkpoint["usage"]
    BY <1>1, OneCheckpoint DEF IInv
  <2>3. since \in Nat /\ checkpoint["usage"] \in Nat /\ since # Never
    BY <1>1, <2>1, <2>2 DEF IInv, TypeOK, CheckpointInv, Streams, Days
  <2>4. d \in Days /\ since <= d
    BY <2>3, UsageAssumption DEF Days
  <2>5. d + Overlap < checkpoint["usage"]
    BY <2>1, <2>2, <2>3, <2>4, UsageAssumption DEF Days
  <2> QED BY <1>1, <2>3, <2>4, <2>5 DEF IInv, KeptInv
<1> QED BY <1>1, Invariance, PTL

\* An event is added to its bucket exactly once.
THEOREM EventsCountOnce == Spec => []SdkEventsCountOnce
<1>1. IInv => SdkEventsCountOnce
  BY DEF IInv, CallInv, SdkEventsCountOnce
<1> QED BY <1>1, Invariance, PTL

-----------------------------------------------------------------------------
(* AgentSettings                                                           *)

HandlerType ==
  [at : {"idle", "clear", "clearing", "write", "delete", "promote", "promoted", "commit"},
   op : {"create", "update", "delete"}, id : Settings \cup {NoSetting}, default : BOOLEAN,
   todo : SUBSET Settings, target : Settings \cup {NoSetting},
   wrote : [Settings -> {"same", "plain", "default", "gone"}]]

\* Any change of a handler's fields within their types.
LEMMA AgentChanged ==
  ASSUME NEW v \in HandlerType,
         NEW at \in {"idle", "clear", "clearing", "write", "delete", "promote", "promoted", "commit"},
         NEW todo \in SUBSET Settings, NEW target \in Settings \cup {NoSetting},
         NEW wrote \in [Settings -> {"same", "plain", "default", "gone"}]
  PROVE  /\ [v EXCEPT !.at = at, !.target = target] \in HandlerType
         /\ [v EXCEPT !.at = at, !.todo = todo] \in HandlerType
         /\ [v EXCEPT !.wrote = wrote, !.at = at] \in HandlerType
         /\ [v EXCEPT !.todo = todo, !.wrote = wrote] \in HandlerType
<1> DEFINE W == [Settings -> {"same", "plain", "default", "gone"}]
           T == SUBSET Settings
           I == Settings \cup {NoSetting}
           A == {"idle", "clear", "clearing", "write", "delete", "promote", "promoted", "commit"}
           O == {"create", "update", "delete"}
<1>1. HandlerType = [at : A, op : O, id : I, default : BOOLEAN, todo : T, target : I, wrote : W]
  BY DEF HandlerType
<1>2. at \in A /\ todo \in T /\ target \in I /\ wrote \in W
  OBVIOUS
<1> HIDE DEF W, T, I, A, O
<1> QED BY <1>1, <1>2

\* A row is written by one transaction at a time.
RowLock ==
  \A p, q \in Handlers, s \in Settings :
    p # q => h[p].wrote[s] = "same" \/ h[q].wrote[s] = "same"

OneDefault == \A s, x \in Settings : row[s] = "default" /\ row[x] = "default" => s = x

\* A transaction that wrote a default is the only one, wrote no other, and wrote the
\* committed one too.
IndexInv ==
  \A p \in Handlers, s \in Settings : h[p].wrote[s] = "default" =>
    \A x \in Settings \ {s} :
      /\ h[p].wrote[x] # "default"
      /\ row[x] = "default" => h[p].wrote[x] # "same"
IndexLock ==
  \A p, q \in Handlers, s, x \in Settings :
    p # q /\ h[p].wrote[s] = "default" => h[q].wrote[x] # "default"

\* What a transaction can have written.
WroteInv ==
  \A p \in Handlers, s \in Settings :
    /\ h[p].wrote[s] = "gone" => h[p].op = "delete" /\ s = h[p].id /\ row[s] \in Present
    /\ h[p].wrote[s] \in Present /\ row[s] \notin Present => h[p].op = "create" /\ s = h[p].id

OnlyOwn(p) == \A s \in Settings \ {h[p].id} : h[p].wrote[s] = "same"
WroteDefault(p) == \E s \in Settings : h[p].wrote[s] = "default"

\* Where a request is, and what it has written by then.
HandlerInv ==
  \A p \in Handlers :
    /\ At(p, "idle") => h[p] = Idle
    /\ ~At(p, "idle") => h[p].id \in Settings
    /\ h[p].at \in {"clear", "clearing"} => h[p].op # "delete" /\ h[p].default
    /\ h[p].todo # {} => At(p, "clearing")
    /\ At(p, "write") => h[p].op # "delete" /\ (h[p].default \/ h[p].wrote = Nothing)
    /\ At(p, "delete") => h[p].op = "delete" /\ h[p].wrote = Nothing
    /\ h[p].at \in {"promote", "promoted"} =>
         /\ h[p].op = "delete" /\ OnlyOwn(p)
         /\ h[p].wrote[h[p].id] = "gone" /\ row[h[p].id] = "default"
    /\ At(p, "promoted") => h[p].target \in Settings \ {h[p].id}
    /\ At(p, "commit") /\ h[p].op = "delete" =>
         /\ h[p].wrote[h[p].id] = "gone"
         /\ OnlyOwn(p) \/ WroteDefault(p)
    /\ At(p, "commit") /\ h[p].op # "delete" =>
         \/ h[p].wrote[h[p].id] = "default"
         \/ /\ ~h[p].default /\ OnlyOwn(p) /\ h[p].wrote[h[p].id] \in Present
            /\ h[p].op = "update" => h[p].wrote[h[p].id] = row[h[p].id]

\* The row of a request that creates one is not there, and no one else's.
CreateInv ==
  \A p \in Handlers : ~At(p, "idle") /\ h[p].op = "create" =>
    /\ row[h[p].id] = "absent"
    /\ \A q \in Handlers \ {p} : h[q].op = "create" => h[q].id # h[p].id

Calm == ~raced /\ ~Race

\* Without a race the row to be promoted stays, none appears where none was, and a
\* configuration that is not to be the default finds one.
CalmInv ==
  Calm =>
    /\ (\E s \in Settings : row[s] \in Present) => LlmAssisted
    /\ \A p \in Handlers :
         /\ At(p, "promoted") => row[h[p].target] \in Present
         /\ At(p, "commit") /\ h[p].op = "delete" /\ row[h[p].id] = "default" /\ ~WroteDefault(p) =>
              \A s \in Settings \ {h[p].id} : row[s] \notin Present
         /\ ~At(p, "idle") /\ h[p].op = "create" /\ ~h[p].default =>
              \E s \in Settings : row[s] \in Present

AgentIInv ==
  /\ AgentTypeOK /\ RowLock /\ OneDefault /\ IndexInv /\ IndexLock /\ WroteInv /\ HandlerInv
  /\ CreateInv /\ CalmInv

-----------------------------------------------------------------------------
(* What a step changes                                                     *)

LEMMA Blank ==
  /\ Idle \in HandlerType
  /\ Idle.at = "idle" /\ Idle.op = "create" /\ Idle.id = NoSetting /\ Idle.todo = {}
  /\ Idle.wrote = Nothing /\ Idle.target = NoSetting /\ Idle.default = FALSE
  /\ Nothing \in [Settings -> {"same", "plain", "default", "gone"}]
  /\ \A s \in Settings : Nothing[s] = "same"
BY DEF Idle, Nothing, HandlerType

AgentOthers(p) == \A q \in Handlers \ {p} : h'[q] = h[q]
SameRequest(p) == h'[p].op = h[p].op /\ h'[p].id = h[p].id /\ h'[p].default = h[p].default

Ended(p) == h'[p] = Idle /\ AgentOthers(p) /\ row' = row

\* CreateSettings, UpdateSettings, SetDefault, DeleteSettings
Begun(p) ==
  /\ h[p].at = "idle" /\ h'[p].id \in Settings /\ h'[p].wrote = Nothing /\ h'[p].todo = {}
  /\ \/ /\ h'[p].op = "create" /\ row[h'[p].id] = "absent"
        /\ \A q \in Handlers : h[q].id # h'[p].id
        /\ h'[p].default \/ \E s \in Settings : row[s] \in Present
        /\ h'[p].at = IF h'[p].default THEN "clear" ELSE "write"
     \/ h'[p].op = "update" /\ h'[p].at = IF h'[p].default THEN "clear" ELSE "write"
     \/ h'[p].op = "delete" /\ h'[p].at = "delete"
  /\ AgentOthers(p) /\ row' = row

\* A statement that writes nothing
Looked(p) ==
  /\ SameRequest(p) /\ h'[p].wrote = h[p].wrote
  /\ \/ h[p].at \in {"clear", "clearing"} /\ h'[p].at = "clearing"
     \/ h[p].at = "clearing" /\ h'[p].at = "write" /\ h'[p].todo = {}
     \/ /\ h[p].at = "promote" /\ h'[p].at = "commit" /\ Rows(p) = {} /\ h'[p].todo = h[p].todo
     \/ /\ h[p].at = "promote" /\ h'[p].at = "promoted" /\ h'[p].target \in Rows(p)
        /\ h'[p].todo = h[p].todo
     \/ /\ h[p].at = "promoted" /\ h'[p].at = "commit" /\ Sees(p, h[p].target) \notin Present
        /\ h'[p].todo = h[p].todo
  /\ AgentOthers(p) /\ row' = row

\* A statement that writes row s
Wrote(p, s, value) ==
  /\ SameRequest(p) /\ h'[p].wrote = [h[p].wrote EXCEPT ![s] = value] /\ Free(p, s)
  /\ value = "default" =>
       \/ Sees(p, s) = "default"
       \/ Decided(p, s) /\ ~Clashes(p, s)
  /\ \/ h[p].at = "clearing" /\ h'[p].at = "clearing" /\ value = "plain" /\ row[s] \in Present
     \/ /\ h[p].at = "write" /\ h'[p].at = "commit" /\ s = h[p].id
        /\ h[p].op = "create" \/ Sees(p, s) \in Present
        /\ value = IF h[p].default THEN "default"
                   ELSE IF h[p].op = "create" THEN "plain" ELSE Sees(p, s)
        /\ h'[p].todo = h[p].todo
     \/ /\ h[p].at = "delete" /\ s = h[p].id /\ value = "gone" /\ Sees(p, s) \in Present
        /\ h'[p].at = IF Sees(p, s) = "default" THEN "promote" ELSE "commit"
        /\ h'[p].todo = h[p].todo
     \/ /\ h[p].at = "promoted" /\ h'[p].at = "commit" /\ s = h[p].target /\ value = "default"
        /\ Sees(p, s) \in Present /\ h'[p].todo = h[p].todo
  /\ AgentOthers(p) /\ row' = row

Committed(p) ==
  /\ h[p].at = "commit" /\ h'[p] = Idle /\ AgentOthers(p)
  /\ \A s \in Settings : row'[s] = Sees(p, s)

Values == {"plain", "default", "gone"}

LEMMA AgentEffects ==
  ASSUME AgentTypeOK, HandlerInv, [AgentNext]_agentVars
  PROVE  \/ UNCHANGED <<row, h>>
         \/ \E p \in Handlers :
              \/ Ended(p) \/ Begun(p) \/ Looked(p) \/ Committed(p)
              \/ \E s \in Settings, value \in Values : Wrote(p, s, value)
<1>0. h \in [Handlers -> HandlerType] /\ row \in [Settings -> {"absent", "plain", "default", "gone"}]
  BY DEF AgentTypeOK, HandlerType
<1>a. ASSUME NEW p \in Handlers, NEW v, h' = [h EXCEPT ![p] = v]
      PROVE  h'[p] = v /\ AgentOthers(p)
  BY <1>0, <1>a DEF AgentOthers
<1>b. ASSUME NEW p \in Handlers, End(p), row' = row
      PROVE  Ended(p)
  BY <1>a, <1>b DEF End, Ended
<1>c. ASSUME NEW p \in Handlers, NEW op, NEW s, NEW default, NEW at, Begin(p, op, s, default, at)
      PROVE  /\ h[p].at = "idle" /\ h'[p].at = at /\ h'[p].op = op /\ h'[p].id = s
             /\ h'[p].default = default /\ h'[p].wrote = Nothing /\ h'[p].todo = {}
             /\ AgentOthers(p) /\ row' = row
  <2> DEFINE v == [Idle EXCEPT !.at = at, !.op = op, !.id = s, !.default = default]
  <2>1. /\ v.at = at /\ v.op = op /\ v.id = s /\ v.default = default /\ v.wrote = Nothing
        /\ v.todo = {}
    BY DEF Idle
  <2>2. h' = [h EXCEPT ![p] = v]
    BY <1>c DEF Begin
  <2> HIDE DEF v
  <2> QED BY <1>a, <1>c, <2>1, <2>2 DEF Begin, At
<1>d. ASSUME NEW p \in Handlers, NEW s \in Settings, NEW value, NEW next, Write(p, s, value, next),
             row' = row
      PROVE  \/ Ended(p)
             \/ /\ SameRequest(p) /\ h'[p].wrote = [h[p].wrote EXCEPT ![s] = value] /\ Free(p, s)
                /\ value = "default" => Sees(p, s) = "default" \/ (Decided(p, s) /\ ~Clashes(p, s))
                /\ h'[p].at = next /\ h'[p].todo = h[p].todo /\ AgentOthers(p)
  <2> DEFINE v == [h[p] EXCEPT !.wrote[s] = value, !.at = next]
  <2>1. CASE End(p)
    BY <1>b, <1>d, <2>1
  <2>2. CASE h' = [h EXCEPT ![p].wrote[s] = value, ![p].at = next]
    <3>1. h' = [h EXCEPT ![p] = v]
      BY <1>0, <2>2
    <3>2. /\ v.at = next /\ v.op = h[p].op /\ v.id = h[p].id /\ v.default = h[p].default
          /\ v.wrote = [h[p].wrote EXCEPT ![s] = value] /\ v.todo = h[p].todo
      BY <1>0 DEF HandlerType
    <3> HIDE DEF v
    <3>3. \/ Ended(p)
          \/ value = "default" => Sees(p, s) = "default" \/ (Decided(p, s) /\ ~Clashes(p, s))
      BY <1>b, <1>d DEF Write
    <3> QED BY <1>a, <1>d, <3>1, <3>2, <3>3 DEF SameRequest, Write
  <2> QED BY <1>d, <2>1, <2>2 DEF Write
<1>1. ASSUME NEW p \in Handlers, NEW s \in Settings, NEW asked \in BOOLEAN, CreateSettings(p, s, asked)
      PROVE  Begun(p)
  <2> DEFINE default == asked \/ \A x \in Settings : row[x] \notin Present
             at == IF default THEN "clear" ELSE "write"
  <2>1. default \/ \E x \in Settings : row[x] \in Present
    OBVIOUS
  <2> HIDE DEF default
  <2>2. Begin(p, "create", s, default, at) /\ row[s] = "absent" /\ \A q \in Handlers : h[q].id # s
    BY <1>1 DEF CreateSettings, default
  <2>3. /\ h[p].at = "idle" /\ h'[p].at = at /\ h'[p].op = "create" /\ h'[p].id = s
        /\ h'[p].default = default /\ h'[p].wrote = Nothing /\ h'[p].todo = {}
        /\ AgentOthers(p) /\ row' = row
    BY <1>c, <2>2
  <2> QED BY <2>1, <2>2, <2>3 DEF Begun
<1>2. ASSUME NEW p \in Handlers, NEW s \in Settings, NEW asked \in BOOLEAN, UpdateSettings(p, s, asked)
      PROVE  Begun(p)
  <2>1. /\ h[p].at = "idle" /\ h'[p].at = (IF asked THEN "clear" ELSE "write")
        /\ h'[p].op = "update" /\ h'[p].id = s
        /\ h'[p].default = asked /\ h'[p].wrote = Nothing /\ h'[p].todo = {}
        /\ AgentOthers(p) /\ row' = row
    BY <1>c, <1>2 DEF UpdateSettings
  <2> QED BY <2>1 DEF Begun
<1>3. ASSUME NEW p \in Handlers, NEW s \in Settings, SetDefault(p, s) \/ DeleteSettings(p, s)
      PROVE  Begun(p)
  <2>1. \/ Begin(p, "update", s, TRUE, "clear")
        \/ Begin(p, "delete", s, FALSE, "delete")
    BY <1>3 DEF SetDefault, DeleteSettings
  <2>2. /\ h[p].at = "idle" /\ h'[p].id = s /\ h'[p].wrote = Nothing /\ h'[p].todo = {}
        /\ AgentOthers(p) /\ row' = row
        /\ \/ h'[p].op = "update" /\ h'[p].default = TRUE /\ h'[p].at = "clear"
           \/ h'[p].op = "delete" /\ h'[p].at = "delete"
    BY <1>c, <2>1
  <2> QED BY <2>2 DEF Begun
<1>4. ASSUME NEW p \in Handlers, FindRows(p)
      PROVE  Looked(p)
  <2> DEFINE rows == Rows(p)
             v == [h[p] EXCEPT !.at = "clearing", !.todo = rows]
  <2>1. h' = [h EXCEPT ![p] = v]
    BY <1>0, <1>4 DEF FindRows
  <2>2. /\ v.at = "clearing" /\ v.op = h[p].op /\ v.id = h[p].id /\ v.default = h[p].default
        /\ v.wrote = h[p].wrote
    BY <1>0 DEF HandlerType
  <2> HIDE DEF v
  <2> QED BY <1>a, <1>4, <2>1, <2>2 DEF FindRows, At, Looked, SameRequest
<1>5. ASSUME NEW p \in Handlers, ClearRow(p)
      PROVE  Looked(p) \/ \E s \in Settings, value \in Values : Wrote(p, s, value)
  <2>0. h[p].at = "clearing" /\ row' = row
    BY <1>5 DEF ClearRow, At
  <2>1. CASE h[p].todo = {} /\ h' = [h EXCEPT ![p].at = "write"]
    <3> DEFINE v == [h[p] EXCEPT !.at = "write"]
    <3>1. h' = [h EXCEPT ![p] = v]
      BY <1>0, <2>1
    <3>2. /\ v.at = "write" /\ v.op = h[p].op /\ v.id = h[p].id /\ v.default = h[p].default
          /\ v.wrote = h[p].wrote /\ v.todo = {}
      BY <1>0, <2>1 DEF HandlerType
    <3> HIDE DEF v
    <3> QED BY <1>a, <2>0, <3>1, <3>2 DEF Looked, SameRequest
  <2>2. ASSUME NEW s \in h[p].todo, Free(p, s),
               h' = [h EXCEPT ![p].todo = @ \ {s},
                              ![p].wrote[s] = IF row[s] \in Present THEN "plain" ELSE @]
        PROVE  Looked(p) \/ \E x \in Settings, value \in Values : Wrote(p, x, value)
    <3> DEFINE value == IF row[s] \in Present THEN "plain" ELSE h[p].wrote[s]
               wrote == [h[p].wrote EXCEPT ![s] = value]
               v == [h[p] EXCEPT !.todo = h[p].todo \ {s}, !.wrote = wrote]
    <3>1. h' = [h EXCEPT ![p] = v]
      BY <1>0, <2>2 DEF HandlerType
    <3>2. /\ v.at = h[p].at /\ v.op = h[p].op /\ v.id = h[p].id /\ v.default = h[p].default
          /\ v.wrote = wrote
      <4> HIDE DEF wrote
      <4> QED BY <1>0 DEF HandlerType
    <3> HIDE DEF v
    <3>3. s \in Settings /\ h[p].wrote \in [Settings -> {"same", "plain", "default", "gone"}]
      BY <1>0 DEF HandlerType
    <3>4. h'[p].wrote = wrote /\ h'[p].at = "clearing" /\ SameRequest(p) /\ AgentOthers(p)
      BY <1>a, <2>0, <3>1, <3>2 DEF SameRequest
    <3>5. CASE row[s] \in Present
      <4>1. wrote = [h[p].wrote EXCEPT ![s] = "plain"]
        BY <3>5
      <4>2. Wrote(p, s, "plain")
        BY <2>0, <2>2, <3>4, <3>5, <4>1 DEF Wrote
      <4> QED BY <3>3, <4>2 DEF Values
    <3>6. CASE row[s] \notin Present
      <4>1. wrote = h[p].wrote
        BY <3>3, <3>6
      <4> QED BY <2>0, <3>4, <4>1 DEF Looked
    <3> QED BY <3>5, <3>6
  <2> QED BY <1>5, <2>1, <2>2 DEF ClearRow
<1>6. ASSUME NEW p \in Handlers, WriteSettings(p)
      PROVE  Ended(p) \/ \E s \in Settings, value \in Values : Wrote(p, s, value)
  <2> DEFINE s == h[p].id  there == h[p].op = "create" \/ Sees(p, s) \in Present
             value == IF h[p].default THEN "default"
                      ELSE IF h[p].op = "create" THEN "plain" ELSE Sees(p, s)
  <2>0. h[p].at = "write" /\ row' = row /\ s \in Settings
    BY <1>6 DEF WriteSettings, At, HandlerInv
  <2>1. CASE ~there
    BY <1>b, <1>6, <2>0, <2>1 DEF WriteSettings
  <2>2. CASE there
    <3>1. Write(p, s, value, "commit")
      BY <1>6, <2>2 DEF WriteSettings
    <3>2. value \in Values
      BY <2>2 DEF Values, Present
    <3> HIDE DEF value
    <3>3. \/ Ended(p)
          \/ /\ SameRequest(p) /\ h'[p].wrote = [h[p].wrote EXCEPT ![s] = value] /\ Free(p, s)
             /\ value = "default" => Sees(p, s) = "default" \/ (Decided(p, s) /\ ~Clashes(p, s))
             /\ h'[p].at = "commit" /\ h'[p].todo = h[p].todo /\ AgentOthers(p)
      BY <1>d, <2>0, <3>1
    <3>4. Ended(p) \/ Wrote(p, s, value)
      BY <2>0, <2>2, <3>3 DEF Wrote, value
    <3> QED BY <2>0, <3>2, <3>4
  <2> QED BY <2>1, <2>2
<1>7. ASSUME NEW p \in Handlers, DeleteRow(p)
      PROVE  Ended(p) \/ \E s \in Settings, value \in Values : Wrote(p, s, value)
  <2> DEFINE s == h[p].id  next == IF Sees(p, s) = "default" THEN "promote" ELSE "commit"
  <2>0. h[p].at = "delete" /\ row' = row /\ s \in Settings
    BY <1>7 DEF DeleteRow, At, HandlerInv
  <2>1. CASE Sees(p, s) \notin Present
    BY <1>b, <1>7, <2>0, <2>1 DEF DeleteRow
  <2>2. CASE Sees(p, s) \in Present
    <3>1. Write(p, s, "gone", next)
      BY <1>7, <2>2 DEF DeleteRow
    <3> HIDE DEF next
    <3>2. \/ Ended(p)
          \/ /\ SameRequest(p) /\ h'[p].wrote = [h[p].wrote EXCEPT ![s] = "gone"] /\ Free(p, s)
             /\ h'[p].at = next /\ h'[p].todo = h[p].todo /\ AgentOthers(p)
      BY <1>d, <2>0, <3>1
    <3>3. Ended(p) \/ Wrote(p, s, "gone")
      BY <2>0, <2>2, <3>2 DEF Wrote, next
    <3> QED BY <2>0, <3>3 DEF Values
  <2> QED BY <2>1, <2>2
<1>8. ASSUME NEW p \in Handlers, FindCandidate(p)
      PROVE  Looked(p)
  <2>0. h[p].at = "promote" /\ row' = row /\ Candidates(p) = Rows(p)
    BY <1>8 DEF FindCandidate, At, Candidates
  <2>1. CASE Rows(p) = {} /\ h' = [h EXCEPT ![p].at = "commit"]
    <3> DEFINE v == [h[p] EXCEPT !.at = "commit"]
    <3>1. h' = [h EXCEPT ![p] = v]
      BY <1>0, <2>1
    <3>2. /\ v.at = "commit" /\ v.op = h[p].op /\ v.id = h[p].id /\ v.default = h[p].default
          /\ v.wrote = h[p].wrote /\ v.todo = h[p].todo
      BY <1>0 DEF HandlerType
    <3> HIDE DEF v
    <3> QED BY <1>a, <2>0, <2>1, <3>1, <3>2 DEF Looked, SameRequest
  <2>2. ASSUME NEW s \in Rows(p), h' = [h EXCEPT ![p].at = "promoted", ![p].target = s]
        PROVE  Looked(p)
    <3> DEFINE v == [h[p] EXCEPT !.at = "promoted", !.target = s]
    <3>1. h' = [h EXCEPT ![p] = v]
      BY <1>0, <2>2
    <3>2. /\ v.at = "promoted" /\ v.op = h[p].op /\ v.id = h[p].id /\ v.default = h[p].default
          /\ v.wrote = h[p].wrote /\ v.todo = h[p].todo /\ v.target = s
      BY <1>0 DEF HandlerType
    <3> HIDE DEF v
    <3> QED BY <1>a, <2>0, <2>2, <3>1, <3>2 DEF Looked, SameRequest
  <2> QED BY <1>8, <2>0, <2>1, <2>2 DEF FindCandidate
<1>9. ASSUME NEW p \in Handlers, PromoteCandidate(p)
      PROVE  Ended(p) \/ Looked(p) \/ \E s \in Settings, value \in Values : Wrote(p, s, value)
  <2> DEFINE s == h[p].target
  <2>0. h[p].at = "promoted" /\ row' = row /\ s \in Settings
    BY <1>9 DEF PromoteCandidate, At, HandlerInv
  <2>1. CASE Sees(p, s) \notin Present
    <3> DEFINE v == [h[p] EXCEPT !.at = "commit"]
    <3>1. h' = [h EXCEPT ![p] = v]
      BY <1>0, <1>9, <2>1 DEF PromoteCandidate
    <3>2. /\ v.at = "commit" /\ v.op = h[p].op /\ v.id = h[p].id /\ v.default = h[p].default
          /\ v.wrote = h[p].wrote /\ v.todo = h[p].todo
      BY <1>0 DEF HandlerType
    <3> HIDE DEF v
    <3> QED BY <1>a, <2>0, <2>1, <3>1, <3>2 DEF Looked, SameRequest
  <2>2. CASE Sees(p, s) \in Present
    <3>1. Write(p, s, "default", "commit")
      BY <1>9, <2>2 DEF PromoteCandidate
    <3>2. \/ Ended(p)
          \/ /\ SameRequest(p) /\ h'[p].wrote = [h[p].wrote EXCEPT ![s] = "default"] /\ Free(p, s)
             /\ Sees(p, s) = "default" \/ (Decided(p, s) /\ ~Clashes(p, s))
             /\ h'[p].at = "commit" /\ h'[p].todo = h[p].todo /\ AgentOthers(p)
      BY <1>d, <2>0, <3>1
    <3>3. Ended(p) \/ Wrote(p, s, "default")
      BY <2>0, <2>2, <3>2 DEF Wrote
    <3> QED BY <2>0, <3>3 DEF Values
  <2> QED BY <2>1, <2>2
<1>10. ASSUME NEW p \in Handlers, Commit(p)
       PROVE  Committed(p)
  BY <1>a, <1>10 DEF Commit, Committed, At, End
<1>11. ASSUME NEW p \in Handlers, Abort(p)
       PROVE  Ended(p)
  BY <1>b, <1>11 DEF Abort
<1> QED BY <1>1, <1>2, <1>3, <1>4, <1>5, <1>6, <1>7, <1>8, <1>9, <1>10, <1>11
        DEF AgentNext, Handle, agentVars

LEMMA HandlerCases ==
  ASSUME AgentTypeOK, HandlerInv, [AgentNext]_agentVars, NEW p \in Handlers
  PROVE  \/ h'[p] = h[p] \/ h'[p] = Idle \/ Begun(p) \/ Looked(p)
         \/ \E s \in Settings, value \in Values : Wrote(p, s, value)
<1>1. ASSUME NEW q \in Handlers, q # p, AgentOthers(q)
      PROVE  h'[p] = h[p]
  BY <1>1 DEF AgentOthers
<1>2. ASSUME NEW q \in Handlers, Ended(q) \/ Begun(q) \/ Looked(q) \/ Committed(q)
      PROVE  AgentOthers(q)
  BY <1>2 DEF Ended, Begun, Looked, Committed
<1>3. ASSUME NEW q \in Handlers, NEW s \in Settings, NEW value \in Values, Wrote(q, s, value)
      PROVE  AgentOthers(q)
  BY <1>3 DEF Wrote
<1>4. Ended(p) \/ Committed(p) => h'[p] = Idle
  BY DEF Ended, Committed
<1>5. CASE UNCHANGED <<row, h>>
  BY <1>5
<1> QED BY <1>1, <1>2, <1>3, <1>4, <1>5, AgentEffects, Zenon

\* Rows change when a transaction commits.
LEMMA RowCases ==
  ASSUME AgentTypeOK, HandlerInv, [AgentNext]_agentVars
  PROVE  row' = row \/ \E p \in Handlers : Committed(p)
<1>1. ASSUME NEW q \in Handlers, Ended(q) \/ Begun(q) \/ Looked(q)
      PROVE  row' = row
  BY <1>1 DEF Ended, Begun, Looked
<1>2. ASSUME NEW q \in Handlers, NEW s \in Settings, NEW value \in Values, Wrote(q, s, value)
      PROVE  row' = row
  BY <1>2 DEF Wrote
<1> QED BY <1>1, <1>2, AgentEffects, Zenon

LEMMA WroteCases ==
  ASSUME AgentTypeOK, HandlerInv, [AgentNext]_agentVars, NEW p \in Handlers, NEW s \in Settings
  PROVE  \/ h'[p].wrote[s] = h[p].wrote[s] \/ h'[p].wrote[s] = "same"
         \/ \E value \in Values : Wrote(p, s, value) /\ h'[p].wrote[s] = value
<1>0. h[p].wrote \in [Settings -> {"same", "plain", "default", "gone"}]
  BY DEF AgentTypeOK
<1>1. ASSUME NEW x \in Settings, NEW value \in Values, Wrote(p, x, value)
      PROVE  \/ h'[p].wrote[s] = h[p].wrote[s]
             \/ x = s /\ h'[p].wrote[s] = value
  BY <1>0, <1>1 DEF Wrote
<1>2. h'[p] = Idle \/ Begun(p) => h'[p].wrote[s] = "same"
  BY Blank DEF Begun
<1>3. Looked(p) => h'[p].wrote[s] = h[p].wrote[s]
  BY DEF Looked
<1>4. h'[p] = h[p] => h'[p].wrote[s] = h[p].wrote[s]
  OBVIOUS
<1> QED BY <1>1, <1>2, <1>3, <1>4, HandlerCases, Zenon

\* The row a transaction wrote stays as it is until it ends.
LEMMA Held ==
  ASSUME AgentTypeOK, HandlerInv, RowLock, [AgentNext]_agentVars, NEW p \in Handlers, NEW s \in Settings,
         h[p].wrote[s] # "same", h'[p] # Idle
  PROVE  row'[s] = row[s]
<1>1. ASSUME NEW q \in Handlers, Committed(q)
      PROVE  row'[s] = row[s]
  <2>1. q # p
    BY <1>1 DEF Committed
  <2>2. h[q].wrote[s] = "same"
    BY <2>1 DEF RowLock
  <2> QED BY <1>1, <2>2 DEF Committed, Sees
<1> QED BY <1>1, RowCases

-----------------------------------------------------------------------------
(* The conjuncts                                                           *)

LEMMA RowLockStep ==
  ASSUME AgentTypeOK, HandlerInv, RowLock, [AgentNext]_agentVars
  PROVE  RowLock'
<1> SUFFICES ASSUME NEW p \in Handlers, NEW q \in Handlers, NEW s \in Settings, p # q,
                    h'[p].wrote[s] # "same", h'[q].wrote[s] # "same"
             PROVE  FALSE
  BY DEF RowLock
<1>1. ASSUME NEW a \in Handlers, NEW b \in Handlers, a # b, NEW value, Wrote(a, s, value)
      PROVE  h'[b].wrote[s] = "same"
  BY <1>1 DEF Wrote, AgentOthers, Free
<1> QED BY <1>1, WroteCases DEF RowLock

LEMMA OneDefaultStep ==
  ASSUME AgentTypeOK, HandlerInv, OneDefault, IndexInv, [AgentNext]_agentVars
  PROVE  OneDefault'
<1> SUFFICES ASSUME NEW s \in Settings, NEW x \in Settings, s # x,
                    row'[s] = "default", row'[x] = "default"
             PROVE  FALSE
  BY DEF OneDefault
<1>1. CASE row' = row
  BY <1>1 DEF OneDefault
<1>2. ASSUME NEW p \in Handlers, Committed(p)
      PROVE  FALSE
  <2>1. Sees(p, s) = "default" /\ Sees(p, x) = "default"
    BY <1>2 DEF Committed
  <2>2. \/ h[p].wrote[s] = "default" \/ h[p].wrote[x] = "default"
        \/ row[s] = "default" /\ row[x] = "default"
    BY <2>1 DEF Sees
  <2> QED BY <2>1, <2>2 DEF Sees, OneDefault, IndexInv
<1> QED BY <1>1, <1>2, RowCases

\* What a transaction that may write a default into row s sees of the others.
LEMMA MayBeDefault ==
  ASSUME AgentTypeOK, OneDefault, IndexInv, NEW p \in Handlers, NEW s \in Settings,
         Sees(p, s) = "default" \/ ~Clashes(p, s)
  PROVE  \A x \in Settings \ {s} :
           h[p].wrote[x] # "default" /\ (row[x] = "default" => h[p].wrote[x] # "same")
<1> SUFFICES ASSUME NEW x \in Settings \ {s}
             PROVE  h[p].wrote[x] # "default" /\ (row[x] = "default" => h[p].wrote[x] # "same")
  OBVIOUS
<1>1. CASE ~Clashes(p, s)
  <2>1. Sees(p, x) # "default"
    BY <1>1 DEF Clashes, Default
  <2> QED BY <2>1 DEF Sees
<1>2. CASE h[p].wrote[s] = "default"
  BY <1>2 DEF IndexInv
<1>3. CASE h[p].wrote[s] = "same" /\ row[s] = "default"
  BY <1>3 DEF OneDefault, IndexInv
<1> QED BY <1>1, <1>2, <1>3 DEF Sees

LEMMA IndexStep ==
  ASSUME AgentTypeOK, HandlerInv, OneDefault, IndexInv, IndexLock, [AgentNext]_agentVars
  PROVE  IndexInv'
<1> SUFFICES ASSUME NEW p \in Handlers, NEW s \in Settings, h'[p].wrote[s] = "default",
                    NEW x \in Settings \ {s}
             PROVE  h'[p].wrote[x] # "default" /\ (row'[x] = "default" => h'[p].wrote[x] # "same")
  BY DEF IndexInv
<1>0. h[p].wrote \in [Settings -> {"same", "plain", "default", "gone"}]
  BY DEF AgentTypeOK
<1>1. CASE h'[p] = h[p]
  <2>1. h[p].wrote[x] # "default" /\ (row[x] = "default" => h[p].wrote[x] # "same")
    BY <1>1 DEF IndexInv
  <2>2. ASSUME NEW q \in Handlers, Committed(q), row'[x] = "default"
        PROVE  row[x] = "default"
    <3>1. q # p
      BY <1>1, <2>2, Blank DEF Committed
    <3>2. h[q].wrote[x] # "default"
      BY <1>1, <3>1 DEF IndexLock
    <3> QED BY <2>2, <3>2 DEF Committed, Sees
  <2> QED BY <1>1, <2>1, <2>2, RowCases
<1>2. CASE h'[p] = Idle \/ Begun(p)
  BY <1>2, Blank DEF Begun
<1>3. CASE Looked(p)
  BY <1>3 DEF Looked, IndexInv
<1>4. ASSUME NEW y \in Settings, NEW value \in Values, Wrote(p, y, value)
      PROVE  h'[p].wrote[x] # "default" /\ (row'[x] = "default" => h'[p].wrote[x] # "same")
  <2>0. h'[p].wrote = [h[p].wrote EXCEPT ![y] = value] /\ row' = row
    BY <1>4 DEF Wrote
  <2>1. CASE y = s
    <3>1. value = "default"
      BY <1>0, <2>0, <2>1
    <3>2. Sees(p, s) = "default" \/ ~Clashes(p, s)
      BY <1>4, <2>1, <3>1 DEF Wrote
    <3>3. h'[p].wrote[x] = h[p].wrote[x]
      BY <1>0, <2>0, <2>1
    <3> QED BY <2>0, <3>2, <3>3, MayBeDefault
  <2>2. CASE y # s
    <3>1. h[p].wrote[s] = "default"
      BY <1>0, <2>0, <2>2
    <3>2. h[p].wrote[x] # "default" /\ (row[x] = "default" => h[p].wrote[x] # "same")
      BY <3>1 DEF IndexInv
    <3>3. CASE y = x
      <4>1. h'[p].wrote[x] = value
        BY <1>0, <2>0, <3>3
      <4>2. value # "same"
        BY DEF Values
      <4>3. ASSUME value = "default"
            PROVE  FALSE
        <5>1. CASE Sees(p, x) = "default"
          BY <3>2, <5>1 DEF Sees
        <5>2. CASE ~Clashes(p, x)
          BY <3>1, <5>2 DEF Clashes, Default, Sees
        <5> QED BY <1>4, <3>3, <4>3, <5>1, <5>2 DEF Wrote
      <4> QED BY <4>1, <4>2, <4>3
    <3>4. CASE y # x
      <4>1. h'[p].wrote[x] = h[p].wrote[x]
        BY <1>0, <2>0, <3>4
      <4> QED BY <2>0, <3>2, <4>1
    <3> QED BY <3>3, <3>4
  <2> QED BY <2>1, <2>2
<1> QED BY <1>1, <1>2, <1>3, <1>4, HandlerCases

LEMMA IndexLockStep ==
  ASSUME AgentTypeOK, HandlerInv, IndexInv, IndexLock, [AgentNext]_agentVars
  PROVE  IndexLock'
<1> SUFFICES ASSUME NEW p \in Handlers, NEW q \in Handlers, NEW s \in Settings, NEW x \in Settings,
                    p # q, h'[p].wrote[s] = "default", h'[q].wrote[x] = "default"
             PROVE  FALSE
  BY DEF IndexLock
<1>1. ASSUME NEW a \in Handlers, NEW b \in Handlers, a # b, NEW c \in Settings, NEW d \in Settings,
             Wrote(a, c, "default"), h'[b].wrote[d] = "default"
      PROVE  FALSE
  <2>1. h[b].wrote[d] = "default" /\ h[b].wrote[c] = "same" /\ c # d
    BY <1>1 DEF Wrote, AgentOthers, Free
  <2>2. CASE Decided(a, c)
    BY <1>1, <2>1, <2>2 DEF Decided
  <2>3. CASE Sees(a, c) = "default"
    <3>1. CASE h[a].wrote[c] = "default"
      BY <1>1, <2>1, <3>1 DEF IndexLock
    <3>2. CASE row[c] = "default"
      BY <1>1, <2>1, <3>2 DEF IndexInv
    <3> QED BY <2>3, <3>1, <3>2 DEF Sees
  <2> QED BY <1>1, <2>2, <2>3 DEF Wrote
<1>2. h[p].wrote[s] # "default" \/ h[q].wrote[x] # "default"
  BY DEF IndexLock
<1>3. h[p].wrote[s] = "default" \/ Wrote(p, s, "default")
  BY WroteCases
<1>4. h[q].wrote[x] = "default" \/ Wrote(q, x, "default")
  BY WroteCases
<1> QED BY <1>1, <1>2, <1>3, <1>4

LEMMA WroteStep ==
  ASSUME AgentTypeOK, HandlerInv, RowLock, WroteInv, [AgentNext]_agentVars
  PROVE  WroteInv'
<1> DEFINE Fine(v, s) ==
      /\ v.wrote[s] = "gone" => v.op = "delete" /\ s = v.id /\ row'[s] \in Present
      /\ v.wrote[s] \in Present /\ row'[s] \notin Present => v.op = "create" /\ s = v.id
<1>1. ASSUME NEW p \in Handlers, NEW s \in Settings
      PROVE  Fine(h'[p], s)
  <2>0. h[p].wrote \in [Settings -> {"same", "plain", "default", "gone"}]
    BY DEF AgentTypeOK
  <2>1. CASE h'[p].wrote[s] = "same"
    BY <2>1 DEF Present
  <2>2. CASE h'[p] = Idle \/ Begun(p)
    BY <2>1, <2>2, Blank DEF Begun
  <2>3. ASSUME h'[p].wrote[s] = h[p].wrote[s], h'[p].wrote[s] # "same", h'[p] # Idle,
               SameRequest(p) \/ h'[p] = h[p]
        PROVE  Fine(h'[p], s)
    <3>1. row'[s] = row[s]
      BY <2>3, Held
    <3> QED BY <2>3, <3>1 DEF WroteInv, SameRequest
  <2>4. CASE Looked(p)
    BY <2>1, <2>2, <2>3, <2>4 DEF Looked
  <2>5. ASSUME NEW x \in Settings, NEW value \in Values, Wrote(p, x, value)
        PROVE  Fine(h'[p], s)
    <3>1. SameRequest(p) /\ h'[p].wrote = [h[p].wrote EXCEPT ![x] = value] /\ row' = row
      BY <2>5 DEF Wrote
    <3>2. CASE x # s
      BY <2>0, <2>1, <2>2, <2>3, <3>1, <3>2
    <3>3. CASE x = s
      <4>1. h'[p].wrote[s] = value
        BY <2>0, <3>1, <3>3
      <4>2. value = "gone" =>
              /\ h[p].at = "delete" \/ h[p].at = "write"
              /\ s = h[p].id /\ Sees(p, s) \in Present
        BY <2>5, <3>3 DEF Wrote, Present
      <4>3. value = "gone" => h[p].at = "delete"
        BY <2>5, <3>3 DEF Wrote, Present
      <4>4. value = "gone" => h[p].op = "delete" /\ row[s] \in Present
        BY <4>2, <4>3, Blank DEF HandlerInv, At, Sees
      <4>5. ASSUME row[s] \notin Present
            PROVE  (h[p].op = "create" /\ s = h[p].id) \/ value \notin Present
        <5>1. Sees(p, s) \in Present => h[p].op = "create" /\ s = h[p].id
          BY <4>5 DEF Sees, WroteInv
        <5> QED BY <2>5, <3>3, <4>5, <5>1 DEF Wrote, Present
      <4> QED BY <3>1, <4>1, <4>2, <4>4, <4>5 DEF SameRequest
    <3> QED BY <3>2, <3>3
  <2>6. CASE h'[p] = h[p]
    BY <2>1, <2>2, <2>3, <2>6
  <2> HIDE DEF Fine
  <2> QED BY <2>2, <2>4, <2>5, <2>6, HandlerCases
<1> QED BY <1>1 DEF WroteInv

LEMMA HandlerStep ==
  ASSUME AgentTypeOK, HandlerInv, RowLock, [AgentNext]_agentVars
  PROVE  HandlerInv'
<1> DEFINE Own(v) == \A s \in Settings \ {v.id} : v.wrote[s] = "same"
           Some(v) == \E s \in Settings : v.wrote[s] = "default"
           Fine(v) ==
             /\ v.at = "idle" => v = Idle
             /\ v.at # "idle" => v.id \in Settings
             /\ v.at \in {"clear", "clearing"} => v.op # "delete" /\ v.default
             /\ v.todo # {} => v.at = "clearing"
             /\ v.at = "write" => v.op # "delete" /\ (v.default \/ v.wrote = Nothing)
             /\ v.at = "delete" => v.op = "delete" /\ v.wrote = Nothing
             /\ v.at \in {"promote", "promoted"} =>
                  /\ v.op = "delete" /\ Own(v) /\ v.wrote[v.id] = "gone" /\ row'[v.id] = "default"
             /\ v.at = "promoted" => v.target \in Settings \ {v.id}
             /\ v.at = "commit" /\ v.op = "delete" =>
                  v.wrote[v.id] = "gone" /\ (Own(v) \/ Some(v))
             /\ v.at = "commit" /\ v.op # "delete" =>
                  \/ v.wrote[v.id] = "default"
                  \/ /\ ~v.default /\ Own(v) /\ v.wrote[v.id] \in Present
                     /\ v.op = "update" => v.wrote[v.id] = row'[v.id]
<1>1. ASSUME NEW p \in Handlers
      PROVE  Fine(h'[p])
  <2>0. /\ h[p].wrote \in [Settings -> {"same", "plain", "default", "gone"}]
        /\ h[p].default \in BOOLEAN
    BY DEF AgentTypeOK
  <2>1. CASE h'[p] = Idle
    BY <2>1, Blank
  <2>2. CASE h'[p] = h[p] /\ h[p] # Idle
    <3>1. h[p].at # "idle" /\ h[p].id \in Settings
      BY <2>2 DEF HandlerInv, At
    <3>2. h[p].wrote[h[p].id] # "same" => row'[h[p].id] = row[h[p].id]
      BY <2>2, <3>1, Held
    <3> QED BY <2>2, <3>1, <3>2 DEF HandlerInv, At, OnlyOwn, WroteDefault, Present
  <2>3. CASE Begun(p)
    BY <2>3 DEF Begun
  <2>4. CASE Looked(p)
    <3>0. SameRequest(p) /\ h'[p].wrote = h[p].wrote /\ row' = row /\ h[p].at # "idle"
      BY <2>4 DEF Looked
    <3>1. CASE h[p].at \in {"clear", "clearing"} /\ h'[p].at = "clearing"
      BY <3>0, <3>1 DEF SameRequest, HandlerInv, At
    <3>2. CASE h[p].at = "clearing" /\ h'[p].at = "write" /\ h'[p].todo = {}
      BY <3>0, <3>2 DEF SameRequest, HandlerInv, At
    <3>3. CASE /\ h[p].at = "promote" /\ h'[p].at = "commit" /\ Rows(p) = {}
               /\ h'[p].todo = h[p].todo
      BY <3>0, <3>3 DEF SameRequest, HandlerInv, At, OnlyOwn
    <3>4. CASE /\ h[p].at = "promote" /\ h'[p].at = "promoted" /\ h'[p].target \in Rows(p)
               /\ h'[p].todo = h[p].todo
      <4>1. h[p].wrote[h[p].id] = "gone" /\ h[p].id \in Settings
        BY <3>4 DEF HandlerInv, At
      <4>2. h'[p].target \in Settings \ {h[p].id}
        BY <3>4, <4>1 DEF Rows, Sees, Present
      <4> QED BY <3>0, <3>4, <4>1, <4>2 DEF SameRequest, HandlerInv, At, OnlyOwn
    <3>5. CASE /\ h[p].at = "promoted" /\ h'[p].at = "commit" /\ Sees(p, h[p].target) \notin Present
               /\ h'[p].todo = h[p].todo
      BY <3>0, <3>5 DEF SameRequest, HandlerInv, At, OnlyOwn
    <3> QED BY <2>4, <3>1, <3>2, <3>3, <3>4, <3>5 DEF Looked
  <2>5. ASSUME NEW s \in Settings, NEW value \in Values, Wrote(p, s, value)
        PROVE  Fine(h'[p])
    <3>0. /\ SameRequest(p) /\ h'[p].wrote = [h[p].wrote EXCEPT ![s] = value] /\ row' = row
          /\ h[p].at # "idle" /\ h[p].id \in Settings
      BY <2>5 DEF Wrote, HandlerInv, At
    <3>1. CASE h[p].at = "clearing" /\ h'[p].at = "clearing"
      BY <3>0, <3>1 DEF SameRequest, HandlerInv, At
    <3>2. CASE /\ h[p].at = "write" /\ h'[p].at = "commit" /\ s = h[p].id
               /\ h[p].op = "create" \/ Sees(p, s) \in Present
               /\ value = IF h[p].default THEN "default"
                          ELSE IF h[p].op = "create" THEN "plain" ELSE Sees(p, s)
               /\ h'[p].todo = h[p].todo
      <4>1. h'[p].wrote[h[p].id] = value /\ h[p].op # "delete" /\ h'[p].todo = {}
        BY <2>0, <3>0, <3>2 DEF HandlerInv, At
      <4>2. CASE h[p].default
        BY <3>0, <3>2, <4>1, <4>2 DEF SameRequest
      <4>3. CASE ~h[p].default
        <5>1. h[p].wrote = Nothing
          BY <3>2, <4>3 DEF HandlerInv, At
        <5>2. Own(h'[p])
          BY <2>0, <3>0, <3>2, <5>1, Blank DEF SameRequest
        <5>3. value \in Present /\ (h[p].op = "update" => value = row[s])
          BY <3>0, <3>2, <4>3, <5>1, Blank DEF Sees, Present
        <5> QED BY <3>0, <3>2, <4>1, <4>3, <5>2, <5>3 DEF SameRequest
      <4> QED BY <2>0, <4>2, <4>3
    <3>3. CASE /\ h[p].at = "delete" /\ s = h[p].id /\ value = "gone" /\ Sees(p, s) \in Present
               /\ h'[p].at = IF Sees(p, s) = "default" THEN "promote" ELSE "commit"
               /\ h'[p].todo = h[p].todo
      <4>1. h[p].wrote = Nothing /\ h[p].op = "delete" /\ h'[p].todo = {}
        BY <3>3 DEF HandlerInv, At
      <4>2. Own(h'[p]) /\ h'[p].wrote[h[p].id] = "gone" /\ Sees(p, s) = row[s]
        BY <2>0, <3>0, <3>3, <4>1, Blank DEF SameRequest, Sees
      <4> QED BY <3>0, <3>3, <4>1, <4>2 DEF SameRequest
    <3>4. CASE /\ h[p].at = "promoted" /\ h'[p].at = "commit" /\ s = h[p].target /\ value = "default"
               /\ Sees(p, s) \in Present /\ h'[p].todo = h[p].todo
      <4>1. /\ h[p].op = "delete" /\ h[p].wrote[h[p].id] = "gone" /\ s # h[p].id
            /\ h'[p].todo = {}
        BY <3>4 DEF HandlerInv, At
      <4>2. h'[p].wrote[h[p].id] = "gone" /\ h'[p].wrote[s] = "default"
        BY <2>0, <3>0, <3>4, <4>1
      <4> QED BY <3>0, <3>4, <4>1, <4>2 DEF SameRequest
    <3> HIDE DEF Fine
    <3> QED BY <2>5, <3>1, <3>2, <3>3, <3>4 DEF Wrote
  <2> HIDE DEF Fine
  <2> QED BY <2>1, <2>2, <2>3, <2>4, <2>5, HandlerCases
<1> QED BY <1>1 DEF HandlerInv, At, OnlyOwn, WroteDefault

LEMMA CreateStep ==
  ASSUME AgentTypeOK, NoSetting \notin Settings, HandlerInv, WroteInv, CreateInv, [AgentNext]_agentVars
  PROVE  CreateInv'
<1> DEFINE Creates(v) == v.at # "idle" /\ v.op = "create"
<1>1. ASSUME NEW p \in Handlers, Creates(h'[p])
      PROVE  \/ Creates(h[p]) /\ h'[p].id = h[p].id
             \/ /\ Begun(p) /\ row[h'[p].id] = "absent"
                /\ \A q \in Handlers : h[q].id # h'[p].id
  BY <1>1, Blank, HandlerCases DEF Begun, Looked, Wrote, SameRequest
<1>2. ASSUME NEW p \in Handlers, Creates(h'[p])
      PROVE  row'[h'[p].id] = "absent"
  <2>1. CASE Creates(h[p]) /\ h'[p].id = h[p].id
    <3> DEFINE s == h[p].id
    <3>1. s \in Settings /\ row[s] = "absent"
      BY <2>1 DEF CreateInv, HandlerInv, At
    <3>2. ASSUME NEW q \in Handlers, Committed(q)
          PROVE  row'[s] = "absent"
      <4>1. q # p /\ h[q].wrote[s] \in {"same", "plain", "default", "gone"}
        BY <1>2, <3>1, <3>2, Blank DEF Committed, AgentTypeOK
      <4>2. h[q].wrote[s] # "gone"
        BY <3>1 DEF WroteInv, Present
      <4>3. h[q].wrote[s] \in Present => h[q].op = "create" /\ h[q].id = s
        BY <3>1 DEF WroteInv, Present
      <4>4. h[q].wrote[s] \notin Present
        BY <2>1, <4>1, <4>3 DEF CreateInv, At
      <4> QED BY <3>1, <3>2, <4>1, <4>2, <4>4 DEF Committed, Sees, Present
    <3> QED BY <2>1, <3>1, <3>2, RowCases
  <2>2. CASE Begun(p) /\ row[h'[p].id] = "absent"
    BY <2>2 DEF Begun
  <2> QED BY <1>1, <1>2, <2>1, <2>2
<1>3. ASSUME NEW p \in Handlers, Creates(h'[p]), NEW q \in Handlers \ {p}, h'[q].op = "create"
      PROVE  h'[q].id # h'[p].id
  <2>0. h'[p].id \in Settings
    BY <1>1, <1>3 DEF Begun, HandlerInv, At
  <2>1. CASE h'[q] = Idle
    BY <2>0, <2>1, Blank
  <2>2. CASE Begun(q)
    <3>1. h'[p] = h[p] /\ \A x \in Handlers : h[x].id # h'[q].id
      BY <1>3, <2>2 DEF Begun, AgentOthers
    <3> QED BY <3>1
  <2>3. CASE h[q].op = "create" /\ h'[q].id = h[q].id
    BY <1>1, <1>3, <2>3 DEF CreateInv, At
  <2>4. ASSUME NEW s \in Settings, NEW value \in Values, Wrote(q, s, value)
        PROVE  h[q].op = "create" /\ h'[q].id = h[q].id
    BY <1>3, <2>4 DEF Wrote, SameRequest
  <2>5. Looked(q) \/ h'[q] = h[q] => h[q].op = "create" /\ h'[q].id = h[q].id
    BY <1>3 DEF Looked, SameRequest
  <2> QED BY <2>1, <2>2, <2>3, <2>4, <2>5, HandlerCases
<1> QED BY <1>2, <1>3 DEF CreateInv, At

\* Whoever deletes the default meets nobody who creates or deletes another.
LEMMA Alone ==
  ASSUME Calm, NEW p \in Handlers, ~At(p, "idle"), h[p].op = "delete", row[h[p].id] = "default",
         NEW q \in Handlers, ~At(q, "idle"), h[q].op \in {"create", "delete"}
  PROVE  h[q].id = h[p].id
BY DEF Calm, Race

\* A row of another id that comes or goes was created or deleted.
LEMMA ComesOrGoes ==
  ASSUME AgentTypeOK, WroteInv, NEW q \in Handlers, Committed(q), NEW s \in Settings,
         ~(row'[s] \in Present <=> row[s] \in Present)
  PROVE  ~At(q, "idle") /\ h[q].op \in {"create", "delete"} /\ h[q].id = s
<1>1. h[q].wrote[s] \in {"same", "plain", "default", "gone"} /\ row'[s] = Sees(q, s)
  BY DEF AgentTypeOK, Committed
<1>2. h[q].wrote[s] # "same"
  BY <1>1 DEF Sees
<1>3. h[q].wrote[s] = "gone" \/ (h[q].wrote[s] \in Present /\ row[s] \notin Present)
  BY <1>1, <1>2 DEF Sees, Present
<1> QED BY <1>3 DEF WroteInv, Committed, At

LEMMA CalmStep ==
  ASSUME AgentTypeOK, HandlerInv, RowLock, WroteInv, CreateInv, CalmInv, [AgentNext]_agentVars
  PROVE  CalmInv'
<1>0. CASE UNCHANGED agentVars
  BY <1>0 DEF agentVars, CalmInv, Calm, Race, LlmAssisted, At, WroteDefault
<1> SUFFICES ASSUME AgentNext, Calm'
             PROVE  CalmInv'
  BY <1>0 DEF CalmInv
<1>1. Calm
  BY DEF AgentNext, Calm, AgentTypeOK
<1>2. (\E s \in Settings : row[s] \in Present) => \E s \in Settings : row[s] = "default"
  BY <1>1 DEF CalmInv, LlmAssisted
<1>3. ASSUME NEW q \in Handlers, Committed(q), NEW x \in Settings, row'[x] \in Present
      PROVE  \E s \in Settings : row'[s] = "default"
  <2>0. /\ \A s \in Settings : row'[s] = Sees(q, s)
        /\ h[q].at = "commit" /\ h[q].id \in Settings
    BY <1>3 DEF Committed, HandlerInv, At
  <2>1. CASE WroteDefault(q)
    BY <2>0, <2>1 DEF WroteDefault, Sees
  <2>2. CASE ~WroteDefault(q) /\ h[q].op = "delete"
    <3>1. OnlyOwn(q) /\ h[q].wrote[h[q].id] = "gone"
      BY <2>0, <2>2 DEF HandlerInv, At
    <3>2. x # h[q].id /\ row[x] \in Present
      BY <1>3, <2>0, <3>1 DEF Sees, OnlyOwn, Present
    <3>3. row[h[q].id] # "default"
      BY <1>1, <2>0, <2>2, <3>2 DEF CalmInv, At
    <3>4. PICK s \in Settings : row[s] = "default"
      BY <1>2, <3>2
    <3>5. row'[s] = row[s]
      BY <2>0, <3>1, <3>3, <3>4 DEF Sees, OnlyOwn
    <3> QED BY <3>4, <3>5
  <2>3. CASE ~WroteDefault(q) /\ h[q].op # "delete"
    <3>1. /\ ~h[q].default /\ OnlyOwn(q) /\ h[q].wrote[h[q].id] \in Present
          /\ h[q].op = "update" => h[q].wrote[h[q].id] = row[h[q].id]
      BY <2>0, <2>3 DEF HandlerInv, At, WroteDefault
    <3>2. h[q].op \in {"create", "update"}
      BY <2>3 DEF AgentTypeOK
    <3>3. CASE h[q].op = "update"
      <4>1. \A s \in Settings : row'[s] = row[s]
        BY <2>0, <3>1, <3>3 DEF Sees, OnlyOwn
      <4> QED BY <1>2, <1>3, <4>1
    <3>4. CASE h[q].op = "create"
      <4>1. PICK s \in Settings : row[s] = "default"
        BY <1>1, <1>2, <2>0, <3>1, <3>4 DEF CalmInv, At
      <4>2. s # h[q].id
        BY <2>0, <3>4, <4>1 DEF CreateInv, At
      <4>3. row'[s] = row[s]
        BY <2>0, <3>1, <4>2 DEF Sees, OnlyOwn
      <4> QED BY <4>1, <4>3
    <3> QED BY <3>2, <3>3, <3>4
  <2> QED BY <2>1, <2>2, <2>3
<1>4. (\E s \in Settings : row'[s] \in Present) => \E s \in Settings : row'[s] = "default"
  BY <1>2, <1>3, RowCases
<1>5. ASSUME NEW p \in Handlers, h'[p].at = "promoted"
      PROVE  row'[h'[p].target] \in Present
  <2>1. CASE h'[p] = h[p]
    <3> DEFINE t == h[p].target
    <3>1. /\ row[t] \in Present /\ t \in Settings \ {h[p].id} /\ h[p].op = "delete"
          /\ row[h[p].id] = "default"
      BY <1>1, <1>5, <2>1 DEF CalmInv, HandlerInv, At
    <3>2. ASSUME NEW q \in Handlers, Committed(q), row'[t] \notin Present
          PROVE  FALSE
      <4>1. ~At(q, "idle") /\ h[q].op \in {"create", "delete"} /\ h[q].id = t
        BY <3>1, <3>2, ComesOrGoes
      <4> QED BY <1>1, <1>5, <2>1, <3>1, <4>1, Alone DEF At
    <3> QED BY <2>1, <3>1, <3>2, RowCases
  <2>2. CASE Looked(p)
    <3>1. h[p].at = "promote" /\ h'[p].target \in Rows(p) /\ row' = row
      BY <1>5, <2>2 DEF Looked
    <3>2. OnlyOwn(p) /\ h[p].wrote[h[p].id] = "gone"
      BY <3>1 DEF HandlerInv, At
    <3>3. h'[p].target # h[p].id
      BY <3>1, <3>2 DEF Rows, Sees, Present
    <3> QED BY <3>1, <3>2, <3>3 DEF Rows, Sees, OnlyOwn
  <2>3. h'[p] # Idle /\ ~Begun(p)
    BY <1>5, Blank DEF Begun
  <2>4. ASSUME NEW s \in Settings, NEW value \in Values, Wrote(p, s, value)
        PROVE  FALSE
    BY <1>5, <2>4 DEF Wrote
  <2> QED BY <2>1, <2>2, <2>3, <2>4, HandlerCases
<1>6. ASSUME NEW p \in Handlers, h'[p].at = "commit", h'[p].op = "delete",
             row'[h'[p].id] = "default", \A s \in Settings : h'[p].wrote[s] # "default",
             NEW x \in Settings \ {h'[p].id}
      PROVE  row'[x] \notin Present
  <2>0. h[p].wrote \in [Settings -> {"same", "plain", "default", "gone"}]
    BY DEF AgentTypeOK
  <2>1. CASE h'[p] = h[p]
    <3>1. h[p].wrote[h[p].id] = "gone" /\ OnlyOwn(p) /\ h[p].id \in Settings
      BY <1>6, <2>1 DEF HandlerInv, At, WroteDefault
    <3>2. CASE row' = row
      BY <1>1, <1>6, <2>1, <3>2 DEF CalmInv, At, WroteDefault
    <3>3. ASSUME NEW q \in Handlers, Committed(q)
          PROVE  row'[x] \notin Present
      <4>1. q # p
        BY <1>6, <2>1, <3>3, Blank DEF Committed
      <4>2. row[h[p].id] = "default"
        <5>1. CASE row'[h[p].id] = row[h[p].id]
          BY <1>6, <2>1, <5>1
        <5>2. CASE h[q].wrote[h[p].id] # "same"
          BY <3>1, <4>1, <5>2 DEF RowLock
        <5> QED BY <3>1, <3>3, <5>1, <5>2 DEF Committed, Sees
      <4>3. row[x] \notin Present
        BY <1>1, <1>6, <2>1, <4>2 DEF CalmInv, At, WroteDefault
      <4>4. ASSUME row'[x] \in Present
            PROVE  FALSE
        <5>1. ~At(q, "idle") /\ h[q].op \in {"create", "delete"} /\ h[q].id = x
          BY <3>3, <4>3, <4>4, ComesOrGoes
        <5> QED BY <1>1, <1>6, <2>1, <4>2, <5>1, Alone DEF At
      <4> QED BY <4>4
    <3> QED BY <3>2, <3>3, RowCases
  <2>2. CASE Looked(p)
    <3>0. SameRequest(p) /\ row' = row
      BY <2>2 DEF Looked
    <3>1. CASE h[p].at = "promote" /\ Rows(p) = {}
      <4>1. OnlyOwn(p)
        BY <3>1 DEF HandlerInv, At
      <4> QED BY <1>6, <3>0, <3>1, <4>1 DEF Rows, Sees, OnlyOwn, SameRequest
    <3>2. CASE h[p].at = "promoted" /\ Sees(p, h[p].target) \notin Present
      <4>1. OnlyOwn(p) /\ h[p].target \in Settings \ {h[p].id}
        BY <3>2 DEF HandlerInv, At
      <4>2. row[h[p].target] \in Present
        BY <1>1, <3>2 DEF CalmInv, At
      <4> QED BY <3>2, <4>1, <4>2 DEF Sees, OnlyOwn
    <3> QED BY <1>6, <2>2, <3>1, <3>2 DEF Looked
  <2>3. h'[p] # Idle /\ ~Begun(p)
    BY <1>6, Blank DEF Begun
  <2>4. ASSUME NEW s \in Settings, NEW value \in Values, Wrote(p, s, value)
        PROVE  FALSE
    <3>0. SameRequest(p) /\ h'[p].wrote[s] = value /\ row' = row
      BY <2>0, <2>4 DEF Wrote
    <3>1. value # "default"
      BY <1>6, <3>0
    <3>2. CASE h[p].at = "delete" /\ s = h[p].id /\ Sees(p, s) # "default"
      <4>1. Sees(p, s) = row[s]
        BY <3>2, Blank DEF HandlerInv, At, Sees
      <4> QED BY <1>6, <3>0, <3>2, <4>1 DEF SameRequest
    <3>3. h[p].at # "write"
      BY <1>6, <3>0 DEF SameRequest, HandlerInv, At
    <3> QED BY <1>6, <2>4, <3>1, <3>2, <3>3 DEF Wrote
  <2> QED BY <2>1, <2>2, <2>3, <2>4, HandlerCases
<1>7. ASSUME NEW p \in Handlers, h'[p].at # "idle", h'[p].op = "create", ~h'[p].default
      PROVE  \E s \in Settings : row'[s] \in Present
  <2>1. CASE Begun(p)
    BY <1>7, <2>1 DEF Begun
  <2>2. CASE h[p].at # "idle" /\ h[p].op = "create" /\ ~h[p].default
    <3>1. PICK s \in Settings : row[s] = "default"
      BY <1>1, <1>2, <2>2 DEF CalmInv, At
    <3>2. CASE row' = row
      BY <3>1, <3>2 DEF Present
    <3>3. ASSUME NEW q \in Handlers, Committed(q), row'[s] \notin Present
          PROVE  FALSE
      <4>1. ~At(q, "idle") /\ h[q].op \in {"create", "delete"} /\ h[q].id = s
        BY <3>1, <3>3, ComesOrGoes DEF Present
      <4>2. h[q].op = "delete"
        BY <3>1, <4>1 DEF CreateInv
      <4>3. h[p].id # s
        BY <2>2, <3>1 DEF CreateInv, At
      <4> QED BY <1>1, <2>2, <3>1, <4>1, <4>2, <4>3, Alone DEF At
    <3> QED BY <3>2, <3>3, RowCases
  <2>3. ASSUME NEW s \in Settings, NEW value \in Values, Wrote(p, s, value)
        PROVE  h[p].at # "idle" /\ h[p].op = "create" /\ ~h[p].default
    BY <1>7, <2>3 DEF Wrote, SameRequest
  <2>4. Looked(p) => h[p].at # "idle" /\ h[p].op = "create" /\ ~h[p].default
    BY <1>7 DEF Looked, SameRequest
  <2> QED BY <1>7, <2>1, <2>2, <2>3, <2>4, Blank, HandlerCases
<1> QED BY <1>4, <1>5, <1>6, <1>7 DEF CalmInv, LlmAssisted, At, WroteDefault

LEMMA AgentTypeStep ==
  ASSUME AgentTypeOK, HandlerInv, [AgentNext]_agentVars
  PROVE  AgentTypeOK'
<1>0. /\ h \in [Handlers -> HandlerType] /\ raced \in BOOLEAN
      /\ row \in [Settings -> {"absent", "plain", "default", "gone"}]
  BY DEF AgentTypeOK, HandlerType
<1> DEFINE Work == h' \in [Handlers -> HandlerType]
<1>a. ASSUME NEW p \in Handlers, NEW v \in HandlerType, h' = [h EXCEPT ![p] = v]
      PROVE  Work
  BY <1>0, <1>a
<1>b. ASSUME NEW p \in Handlers, End(p)
      PROVE  Work
  BY <1>a, <1>b, Blank DEF End
<1>c. ASSUME NEW p \in Handlers, NEW op \in {"create", "update", "delete"}, NEW s \in Settings,
             NEW default \in BOOLEAN, NEW at \in {"clear", "write", "delete"},
             Begin(p, op, s, default, at)
      PROVE  Work /\ row' = row
  <2> DEFINE v == [Idle EXCEPT !.at = at, !.op = op, !.id = s, !.default = default]
  <2>1. v \in HandlerType
    BY Blank DEF HandlerType
  <2>2. h' = [h EXCEPT ![p] = v] /\ row' = row
    BY <1>c DEF Begin
  <2> HIDE DEF v
  <2> QED BY <1>a, <2>1, <2>2
<1>d. ASSUME NEW p \in Handlers, NEW s \in Settings, NEW value \in Values,
             NEW next \in {"promote", "commit"}, Write(p, s, value, next)
      PROVE  Work
  <2> DEFINE wrote == [h[p].wrote EXCEPT ![s] = value]
             v == [h[p] EXCEPT !.wrote = wrote, !.at = next]
  <2>1. CASE End(p)
    BY <1>b, <2>1
  <2>2. CASE h' = [h EXCEPT ![p].wrote[s] = value, ![p].at = next]
    <3>1. h' = [h EXCEPT ![p] = v]
      BY <1>0, <2>2 DEF HandlerType
    <3>2. wrote \in [Settings -> {"same", "plain", "default", "gone"}]
      BY <1>0 DEF HandlerType, Values
    <3> HIDE DEF wrote
    <3>3. v \in HandlerType
      BY <1>0, <3>2, AgentChanged
    <3> HIDE DEF v
    <3> QED BY <1>a, <3>1, <3>3
  <2> QED BY <1>d, <2>1, <2>2 DEF Write
<1>e. ASSUME NEW p \in Handlers, NEW at \in {"write", "commit"}, h' = [h EXCEPT ![p].at = at]
      PROVE  Work
  <2> DEFINE v == [h[p] EXCEPT !.at = at]
  <2>1. h' = [h EXCEPT ![p] = v]
    BY <1>0, <1>e
  <2>2. v \in HandlerType
    BY <1>0 DEF HandlerType
  <2> HIDE DEF v
  <2> QED BY <1>a, <2>1, <2>2
<1>1. ASSUME NEW p \in Handlers, NEW s \in Settings, NEW asked \in BOOLEAN,
             CreateSettings(p, s, asked) \/ UpdateSettings(p, s, asked)
      PROVE  Work /\ row' = row
  <2> DEFINE default == asked \/ \A x \in Settings : row[x] \notin Present
  <2>1. default \in BOOLEAN
    OBVIOUS
  <2> HIDE DEF default
  <2>2. \/ Begin(p, "create", s, default, IF default THEN "clear" ELSE "write")
        \/ Begin(p, "update", s, asked, IF asked THEN "clear" ELSE "write")
    BY <1>1 DEF CreateSettings, UpdateSettings, default
  <2> QED BY <1>c, <2>1, <2>2
<1>2. ASSUME NEW p \in Handlers, NEW s \in Settings, SetDefault(p, s) \/ DeleteSettings(p, s)
      PROVE  Work /\ row' = row
  <2>1. Begin(p, "update", s, TRUE, "clear") \/ Begin(p, "delete", s, FALSE, "delete")
    BY <1>2 DEF SetDefault, DeleteSettings
  <2> QED BY <1>c, <2>1
<1>3. ASSUME NEW p \in Handlers, FindRows(p)
      PROVE  Work /\ row' = row
  <2> DEFINE rows == Rows(p)
             v == [h[p] EXCEPT !.at = "clearing", !.todo = rows]
  <2>1. h' = [h EXCEPT ![p] = v] /\ row' = row
    BY <1>0, <1>3 DEF FindRows
  <2>2. rows \in SUBSET Settings
    BY DEF Rows
  <2> HIDE DEF rows
  <2>3. v \in HandlerType
    BY <1>0, <2>2 DEF HandlerType
  <2> HIDE DEF v
  <2> QED BY <1>a, <2>1, <2>3
<1>4. ASSUME NEW p \in Handlers, ClearRow(p)
      PROVE  Work /\ row' = row
  <2>1. CASE h' = [h EXCEPT ![p].at = "write"]
    BY <1>4, <1>e, <2>1 DEF ClearRow
  <2>2. ASSUME NEW s \in h[p].todo,
               h' = [h EXCEPT ![p].todo = @ \ {s},
                              ![p].wrote[s] = IF row[s] \in Present THEN "plain" ELSE @]
        PROVE  Work
    <3> DEFINE value == IF row[s] \in Present THEN "plain" ELSE h[p].wrote[s]
               wrote == [h[p].wrote EXCEPT ![s] = value]
               todo == h[p].todo \ {s}
               v == [h[p] EXCEPT !.todo = todo, !.wrote = wrote]
    <3>1. h' = [h EXCEPT ![p] = v]
      BY <1>0, <2>2 DEF HandlerType
    <3>2. s \in Settings /\ todo \in SUBSET Settings
          /\ h[p].wrote \in [Settings -> {"same", "plain", "default", "gone"}]
      BY <1>0 DEF HandlerType
    <3>3. value \in {"same", "plain", "default", "gone"}
      BY <3>2
    <3> HIDE DEF value
    <3>4. wrote \in [Settings -> {"same", "plain", "default", "gone"}]
      BY <3>2, <3>3
    <3> HIDE DEF wrote, todo
    <3>5. v \in HandlerType
      BY <1>0, <3>2, <3>4, AgentChanged
    <3> HIDE DEF v
    <3> QED BY <1>a, <3>1, <3>5
  <2> QED BY <1>4, <2>1, <2>2 DEF ClearRow
<1>5. ASSUME NEW p \in Handlers, WriteSettings(p)
      PROVE  Work /\ row' = row
  <2> DEFINE s == h[p].id
             value == IF h[p].default THEN "default"
                      ELSE IF h[p].op = "create" THEN "plain" ELSE Sees(p, s)
  <2>1. s \in Settings /\ row' = row
    BY <1>5 DEF WriteSettings, HandlerInv, At
  <2>2. \/ End(p)
        \/ (h[p].op = "create" \/ Sees(p, s) \in Present) /\ Write(p, s, value, "commit")
    BY <1>5 DEF WriteSettings
  <2>3. h[p].op = "create" \/ Sees(p, s) \in Present => value \in Values
    BY DEF Values, Present
  <2> HIDE DEF value
  <2> QED BY <1>b, <1>d, <2>1, <2>2, <2>3
<1>6. ASSUME NEW p \in Handlers, DeleteRow(p)
      PROVE  Work /\ row' = row
  <2> DEFINE s == h[p].id  next == IF Sees(p, s) = "default" THEN "promote" ELSE "commit"
  <2>1. s \in Settings /\ row' = row /\ (End(p) \/ Write(p, s, "gone", next))
    BY <1>6 DEF DeleteRow, HandlerInv, At
  <2>2. next \in {"promote", "commit"} /\ "gone" \in Values
    BY DEF Values
  <2> HIDE DEF next
  <2> QED BY <1>b, <1>d, <2>1, <2>2
<1>7. ASSUME NEW p \in Handlers, FindCandidate(p)
      PROVE  Work /\ row' = row
  <2>1. CASE h' = [h EXCEPT ![p].at = "commit"]
    BY <1>7, <1>e, <2>1 DEF FindCandidate
  <2>2. ASSUME NEW s \in Candidates(p), h' = [h EXCEPT ![p].at = "promoted", ![p].target = s]
        PROVE  Work
    <3> DEFINE v == [h[p] EXCEPT !.at = "promoted", !.target = s]
    <3>1. h' = [h EXCEPT ![p] = v]
      BY <1>0, <2>2
    <3>2. s \in Settings \cup {NoSetting} /\ h[p].todo \in SUBSET Settings
          /\ h[p].wrote \in [Settings -> {"same", "plain", "default", "gone"}]
      BY <1>0 DEF Candidates, Rows, HandlerType
    <3>3. h[p] \in HandlerType
      BY <1>0
    <3>4. v \in HandlerType
      BY <3>2, <3>3, AgentChanged
    <3> HIDE DEF v
    <3> QED BY <1>a, <3>1, <3>4
  <2> QED BY <1>7, <2>1, <2>2 DEF FindCandidate
<1>8. ASSUME NEW p \in Handlers, PromoteCandidate(p)
      PROVE  Work /\ row' = row
  <2>1. /\ h[p].target \in Settings /\ row' = row
        /\ Write(p, h[p].target, "default", "commit") \/ h' = [h EXCEPT ![p].at = "commit"]
    BY <1>8 DEF PromoteCandidate, HandlerInv, At
  <2> QED BY <1>d, <1>e, <2>1 DEF Values
<1>9. ASSUME NEW p \in Handlers, Commit(p)
      PROVE  Work /\ row' \in [Settings -> {"absent", "plain", "default", "gone"}]
  <2>1. \A s \in Settings : Sees(p, s) \in {"absent", "plain", "default", "gone"}
    BY <1>0 DEF HandlerType, Sees
  <2>2. row' \in [Settings -> {"absent", "plain", "default", "gone"}]
    BY <1>9, <2>1 DEF Commit
  <2> QED BY <1>9, <1>b, <2>2 DEF Commit
<1>10. ASSUME NEW p \in Handlers, Abort(p)
       PROVE  Work /\ row' = row
  BY <1>b, <1>10 DEF Abort
<1>11. CASE UNCHANGED agentVars
  BY <1>11 DEF agentVars, AgentTypeOK
<1>12. raced' \in BOOLEAN \/ UNCHANGED agentVars
  BY DEF AgentNext
<1>13. ASSUME raced' \in BOOLEAN, Work,
              row' = row \/ row' \in [Settings -> {"absent", "plain", "default", "gone"}]
       PROVE  AgentTypeOK'
  BY <1>0, <1>13 DEF AgentTypeOK, HandlerType
<1> HIDE DEF Work
<1> QED BY <1>1, <1>2, <1>3, <1>4, <1>5, <1>6, <1>7, <1>8, <1>9, <1>10, <1>11, <1>12, <1>13
        DEF AgentNext, Handle

-----------------------------------------------------------------------------
(* Theorems                                                                *)

\* Every behaviour keeps the inductive invariant.
THEOREM AgentInvariance == AgentSpec => []AgentIInv
<1>1. AgentInit => AgentIInv
  <2> SUFFICES ASSUME AgentInit
               PROVE  AgentIInv
    OBVIOUS
  <2>1. AgentTypeOK
    BY Blank DEF AgentInit, AgentTypeOK, HandlerType
  <2>2. \A p \in Handlers : h[p] = Idle
    BY DEF AgentInit
  <2>3. RowLock /\ IndexInv /\ IndexLock /\ WroteInv /\ HandlerInv /\ CreateInv
    BY <2>2, Blank DEF RowLock, IndexInv, IndexLock, WroteInv, HandlerInv, CreateInv, At, Present
  <2>4. \A s \in Settings : row[s] = "absent"
    BY DEF AgentInit
  <2>5. OneDefault /\ CalmInv
    BY <2>2, <2>4, Blank DEF OneDefault, CalmInv, At, Present
  <2> QED BY <2>1, <2>3, <2>5 DEF AgentIInv
<1>2. AgentIInv /\ [AgentNext]_agentVars => AgentIInv'
  BY NoSettingAssumption, AgentTypeStep, RowLockStep, OneDefaultStep, IndexStep, IndexLockStep,
     WroteStep, HandlerStep, CreateStep, CalmStep DEF AgentIInv
<1> QED BY <1>1, <1>2, PTL DEF AgentSpec

THEOREM AgentTypeCorrect == AgentSpec => []AgentTypeOK
<1>1. AgentIInv => AgentTypeOK
  BY DEF AgentIInv
<1> QED BY <1>1, AgentInvariance, PTL

\* The agent never has two defaults to choose from.
THEOREM NeverTwoDefaults == AgentSpec => []AtMostOneDefault
<1>1. ASSUME AgentIInv
      PROVE  AtMostOneDefault
  <2> DEFINE S == {s \in Settings : row[s] = "default"}
  <2>1. \A s, x \in S : s = x
    BY <1>1 DEF AgentIInv, OneDefault
  <2>2. CASE S = {}
    BY <2>2, FS_EmptySet DEF AtMostOneDefault
  <2>3. ASSUME NEW s \in S
        PROVE  AtMostOneDefault
    <3>1. S = {s}
      BY <2>1
    <3> QED BY <3>1, FS_Singleton DEF AtMostOneDefault
  <2> QED BY <2>2, <2>3
<1> QED BY <1>1, AgentInvariance, PTL

\* Only a race leaves an organization with configurations without a default.
THEOREM DefaultIsKept == AgentSpec => []DefaultSurvives
<1>1. AgentIInv => DefaultSurvives
  BY DEF AgentIInv, CalmInv, Calm, DefaultSurvives
<1> QED BY <1>1, AgentInvariance, PTL
=============================================================================
