---------------------------- MODULE LimitProofs -----------------------------
(***************************************************************************)
(* Proofs about the two limits the API keeps by counting in a database     *)
(* transaction: DeliveryCap, for any requests, fingerprints, cap and       *)
(* window, and RateLimiter, for any number of requests and clients, any    *)
(* policies and any time.  They have nothing in common but their shape.    *)
(***************************************************************************)
EXTENDS DeliveryCap, RateLimiter, FiniteSetTheorems, TLAPS

Creating == {"created", "locked", "insert", "skip"}

\* Whoever decides about a job does it under the advisory lock.
LockInv ==
  \A r \in Request : phase[r] \in {"locked", "insert", "skip"} => advisory = r

\* What was counted is still so when the job is inserted.
RoomInv ==
  \A r \in Request : phase[r] = "insert" => Cardinality(Recent(r)) < Cap

\* A transaction ends no earlier than it began.
TimeInv ==
  \A r \in Request :
    /\ startedAt[r] <= now
    /\ r \in Jobs => startedAt[r] <= committedAt[r]

\* An incident is created by one transaction at a time, and only while none is
\* open.
CreatorInv ==
  /\ \A r, s \in Request :
       /\ phase[r] \in Creating
       /\ phase[s] \in Creating
       /\ reports[r] = reports[s]
       => r = s
  /\ \A r \in Request : phase[r] \in Creating => reports[r] \notin open
  /\ \A r \in Jobs : reports[r] \in open

\* The jobs CapHolds counts from t on.
InWindow(t) == {j \in Jobs : startedAt[j] >= t /\ startedAt[j] <= t + Window}

Capped == \A t \in 0 .. MaxTime : Cardinality(InWindow(t)) <= Cap

IInv ==
  /\ TypeOK
  /\ LockInv
  /\ RoomInv
  /\ TimeInv
  /\ Capped

\* Any set of requests is finite and has a cardinality.
LEMMA Finite ==
  ASSUME NEW S \in SUBSET Request
  PROVE  IsFiniteSet(S) /\ Cardinality(S) \in Nat
BY FS_Subset, FS_CardinalityType, CapAssumption

LEMMA Smaller ==
  ASSUME NEW S \in SUBSET Request, NEW T \in SUBSET S
  PROVE  Cardinality(T) <= Cardinality(S)
BY Finite, FS_Subset

LEMMA OneMore ==
  ASSUME NEW S \in SUBSET Request, NEW r \in Request
  PROVE  Cardinality(S \cup {r}) <= Cardinality(S) + 1
<1>1. IsFiniteSet(S) /\ Cardinality(S) \in Nat
  BY Finite
<1> QED BY <1>1, FS_AddElement

LEMMA InitIInv ==
  ASSUME Init
  PROVE  IInv
<1>1. TypeOK /\ LockInv /\ RoomInv /\ TimeInv
  BY DEF Init, TypeOK, LockInv, RoomInv, TimeInv, Jobs
<1>2. Jobs = {}
  BY DEF Init, Jobs
<1>3. \A t \in 0 .. MaxTime : InWindow(t) = {}
  BY <1>2 DEF InWindow
<1>4. Capped
  BY <1>3, FS_EmptySet, CapAssumption DEF Capped
<1> QED BY <1>1, <1>4 DEF IInv

\* A step that leaves the jobs and their times as they are keeps the counts.
LEMMA SameJobs ==
  ASSUME IInv, UNCHANGED startedAt, Jobs' = Jobs
  PROVE  /\ Capped'
         /\ \A r \in Request : Recent(r)' = Recent(r)
BY DEF IInv, Capped, InWindow, Recent

LEMMA TypeStep ==
  ASSUME TypeOK, [Next]_vars
  PROVE  TypeOK'
<1> USE CapAssumption DEF TypeOK, Running, Ended
<1>1. CASE UNCHANGED vars
  BY <1>1 DEF vars
<1>2. CASE Tick
  BY <1>2 DEF Tick
<1>3. ASSUME NEW r \in Request, Begin(r)
      PROVE  TypeOK'
  BY <1>3 DEF Begin
<1>4. ASSUME NEW r \in Request, UpsertIncident(r)
      PROVE  TypeOK'
  BY <1>4 DEF UpsertIncident
<1>5. ASSUME NEW r \in Request, AcquireLock(r)
      PROVE  TypeOK'
  BY <1>5 DEF AcquireLock, TakeLock
<1>6. ASSUME NEW r \in Request, CountJobs(r)
      PROVE  TypeOK'
  BY <1>6 DEF CountJobs
<1>7. ASSUME NEW r \in Request, CommitWithJob(r)
      PROVE  TypeOK'
  BY <1>7 DEF CommitWithJob, Opened, Released
<1>8. ASSUME NEW r \in Request, CommitCapped(r)
      PROVE  TypeOK'
  BY <1>8 DEF CommitCapped, Opened, Released
<1>9. ASSUME NEW r \in Request, CommitUpdate(r)
      PROVE  TypeOK'
  BY <1>9 DEF CommitUpdate
<1>10. ASSUME NEW r \in Request, Rollback(r)
       PROVE  TypeOK'
  BY <1>10 DEF Rollback, OpenedUndone, Released
<1>11. ASSUME NEW r \in Request, Post(r)
       PROVE  TypeOK'
  BY <1>11 DEF Post
<1> QED BY <1>1, <1>2, <1>3, <1>4, <1>5, <1>6, <1>7, <1>8, <1>9, <1>10, <1>11
           DEF Next, Handle

\* The lock is taken only when free, and given up only by whoever ends.
LEMMA LockStep ==
  ASSUME TypeOK, LockInv, [Next]_vars
  PROVE  LockInv'
<1> USE CapAssumption DEF TypeOK, LockInv, Running, Released
<1>1. CASE UNCHANGED vars
  BY <1>1 DEF vars
<1>2. CASE Tick
  BY <1>2 DEF Tick
<1>3. ASSUME NEW r \in Request, Begin(r) \/ UpsertIncident(r) \/ CommitUpdate(r)
      PROVE  LockInv'
  BY <1>3 DEF Begin, UpsertIncident, CommitUpdate
<1>4. ASSUME NEW r \in Request, AcquireLock(r)
      PROVE  LockInv'
  BY <1>4 DEF AcquireLock, TakeLock
<1>5. ASSUME NEW r \in Request, CountJobs(r)
      PROVE  LockInv'
  BY <1>5 DEF CountJobs
<1>6. ASSUME NEW r \in Request, CommitWithJob(r) \/ CommitCapped(r)
      PROVE  LockInv'
  BY <1>6 DEF CommitWithJob, CommitCapped
<1>7. ASSUME NEW r \in Request, Rollback(r)
      PROVE  LockInv'
  BY <1>7 DEF Rollback
<1>8. ASSUME NEW r \in Request, Post(r)
      PROVE  LockInv'
  BY <1>8 DEF Post
<1> QED BY <1>1, <1>2, <1>3, <1>4, <1>5, <1>6, <1>7, <1>8 DEF Next, Handle

\* The step the invariant is about.  Every job of a window that holds the new
\* one was among those counted, and they left room for one more.
LEMMA CommitKeepsCap ==
  ASSUME IInv, NEW r \in Request, CommitWithJob(r)
  PROVE  Capped'
<1> SUFFICES ASSUME NEW t \in 0 .. MaxTime
             PROVE  Cardinality(InWindow(t)') <= Cap
  BY DEF Capped, InWindow
<1>1. Jobs' = Jobs \cup {r} /\ startedAt' = startedAt
  BY DEF CommitWithJob, Jobs, IInv, TypeOK
<1>2. InWindow(t) \in SUBSET Request /\ Recent(r) \in SUBSET Request
  BY DEF InWindow, Recent, Jobs
<1>3. CASE startedAt[r] >= t /\ startedAt[r] <= t + Window
  <2>1. InWindow(t)' \in SUBSET (InWindow(t) \cup {r})
    BY <1>1 DEF InWindow
  <2>2. Cardinality(InWindow(t)') <= Cardinality(InWindow(t)) + 1
    <3>1. Cardinality(InWindow(t)') <= Cardinality(InWindow(t) \cup {r})
      BY <1>2, <2>1, Smaller
    <3>2. Cardinality(InWindow(t) \cup {r}) <= Cardinality(InWindow(t)) + 1
      BY <1>2, OneMore
    <3>3. /\ Cardinality(InWindow(t)') \in Nat
          /\ Cardinality(InWindow(t) \cup {r}) \in Nat
          /\ Cardinality(InWindow(t)) \in Nat
      BY <1>2, <2>1, Finite
    <3> QED BY <3>1, <3>2, <3>3
  <2>3. InWindow(t) \in SUBSET Recent(r)
    BY <1>3, CapAssumption DEF InWindow, Recent, Jobs, IInv, TypeOK
  <2>4. Cardinality(InWindow(t)) <= Cardinality(Recent(r))
    BY <1>2, <2>3, Smaller
  <2>5. Cardinality(Recent(r)) < Cap
    BY DEF IInv, RoomInv, CommitWithJob
  <2>6. /\ Cardinality(InWindow(t)') \in Nat
        /\ Cardinality(InWindow(t)) \in Nat
        /\ Cardinality(Recent(r)) \in Nat
    BY <1>2, <2>1, Finite
  <2> QED BY <2>2, <2>4, <2>5, <2>6, CapAssumption
<1>4. CASE ~(startedAt[r] >= t /\ startedAt[r] <= t + Window)
  <2>1. InWindow(t)' = InWindow(t)
    BY <1>1, <1>4 DEF InWindow
  <2> QED BY <2>1 DEF IInv, Capped
<1> QED BY <1>3, <1>4

\* Steps that add no job change no count, and what is counted by one request
\* cannot be changed by another, which would need the lock.
LEMMA CountStep ==
  ASSUME IInv, [Next]_vars
  PROVE  RoomInv' /\ Capped'
<1> USE DEF IInv, TypeOK
<1>0. ASSUME UNCHANGED startedAt, Jobs' = Jobs,
             \A r \in Request : phase'[r] = "insert" => phase[r] = "insert"
      PROVE  RoomInv' /\ Capped'
  <2>1. \A r \in Request : Recent(r)' = Recent(r)
    BY <1>0, SameJobs
  <2> QED BY <1>0, <2>1, SameJobs DEF RoomInv
<1>1. CASE UNCHANGED vars
  BY <1>0, <1>1 DEF vars, Jobs
<1>2. CASE Tick
  BY <1>0, <1>2 DEF Tick, Jobs
<1>3. ASSUME NEW r \in Request, Begin(r)
      PROVE  RoomInv' /\ Capped'
  <2>1. Jobs' = Jobs /\ r \notin Jobs
    BY <1>3 DEF Begin, Jobs
  <2>2. \A s \in Request \ {r} : startedAt'[s] = startedAt[s] /\ phase'[s] = phase[s]
    BY <1>3 DEF Begin
  <2>3. \A s \in Request \ {r} : Recent(s)' = Recent(s)
    BY <2>1, <2>2 DEF Recent, Jobs
  <2>4. \A t \in 0 .. MaxTime : InWindow(t)' = InWindow(t)
    BY <2>1, <2>2 DEF InWindow, Jobs
  <2>5. phase'[r] # "insert"
    BY <1>3 DEF Begin
  <2> QED BY <2>2, <2>3, <2>4, <2>5 DEF RoomInv, Capped
<1>4. ASSUME NEW r \in Request, UpsertIncident(r)
      PROVE  RoomInv' /\ Capped'
  BY <1>0, <1>4 DEF UpsertIncident, Jobs
<1>5. ASSUME NEW r \in Request, AcquireLock(r)
      PROVE  RoomInv' /\ Capped'
  BY <1>0, <1>5 DEF AcquireLock, Jobs
<1>6. ASSUME NEW r \in Request, CountJobs(r)
      PROVE  RoomInv' /\ Capped'
  <2>1. Jobs' = Jobs /\ UNCHANGED startedAt
    BY <1>6 DEF CountJobs, Jobs
  <2>2. \A s \in Request : Recent(s)' = Recent(s)
    BY <2>1, SameJobs
  <2>3. phase'[r] = "insert" => Cardinality(Recent(r)) < Cap
    BY <1>6 DEF CountJobs
  <2>4. \A s \in Request \ {r} : phase'[s] = phase[s]
    BY <1>6 DEF CountJobs
  <2> QED BY <2>1, <2>2, <2>3, <2>4, SameJobs DEF RoomInv
<1>7. ASSUME NEW r \in Request, CommitWithJob(r)
      PROVE  RoomInv' /\ Capped'
  <2>1. \A s \in Request : phase'[s] # "insert"
    BY <1>7 DEF CommitWithJob, LockInv
  <2> QED BY <1>7, <2>1, CommitKeepsCap DEF RoomInv
<1>8. ASSUME NEW r \in Request, CommitCapped(r) \/ CommitUpdate(r)
      PROVE  RoomInv' /\ Capped'
  BY <1>0, <1>8 DEF CommitCapped, CommitUpdate, Jobs
<1>9. ASSUME NEW r \in Request, Rollback(r)
      PROVE  RoomInv' /\ Capped'
  BY <1>0, <1>9 DEF Rollback, Running, Jobs
<1>10. ASSUME NEW r \in Request, Post(r)
       PROVE  RoomInv' /\ Capped'
  BY <1>0, <1>10 DEF Post, Jobs
<1> QED BY <1>1, <1>2, <1>3, <1>4, <1>5, <1>6, <1>7, <1>8, <1>9, <1>10
           DEF Next, Handle

LEMMA TimeStep ==
  ASSUME TypeOK, TimeInv, [Next]_vars
  PROVE  TimeInv'
<1> USE DEF TypeOK, TimeInv, Jobs
<1>1. CASE UNCHANGED vars
  BY <1>1 DEF vars
<1>2. CASE Tick
  BY <1>2 DEF Tick
<1>3. ASSUME NEW r \in Request, Begin(r)
      PROVE  TimeInv'
  BY <1>3 DEF Begin
<1>4. ASSUME NEW r \in Request, UpsertIncident(r) \/ AcquireLock(r) \/ CountJobs(r)
      PROVE  TimeInv'
  BY <1>4 DEF UpsertIncident, AcquireLock, CountJobs
<1>5. ASSUME NEW r \in Request, CommitWithJob(r)
      PROVE  TimeInv'
  BY <1>5 DEF CommitWithJob
<1>6. ASSUME NEW r \in Request, CommitCapped(r) \/ CommitUpdate(r) \/ Rollback(r)
      PROVE  TimeInv'
  BY <1>6 DEF CommitCapped, CommitUpdate, Rollback
<1>7. ASSUME NEW r \in Request, Post(r)
      PROVE  TimeInv'
  BY <1>7 DEF Post
<1> QED BY <1>1, <1>2, <1>3, <1>4, <1>5, <1>6, <1>7 DEF Next, Handle

LEMMA NextIInv ==
  ASSUME IInv, [Next]_vars
  PROVE  IInv'
BY TypeStep, LockStep, TimeStep, CountStep DEF IInv

\* TypeOK, the lock, the counts and the cap hold in every reachable state.
THEOREM Invariance == Spec => []IInv
<1>1. Init => IInv
  BY InitIInv
<1>2. IInv /\ [Next]_vars => IInv'
  BY NextIInv
<1> QED BY <1>1, <1>2, PTL DEF Spec

\* Every variable keeps its type.
THEOREM TypeCorrect == Spec => []TypeOK
<1>1. IInv => TypeOK
  BY DEF IInv
<1> QED BY <1>1, Invariance, PTL

\* At most Cap jobs per window of created_at, wherever the window begins: what
\* can_enqueue_slack_incident_delivery counts under the advisory lock is enough.
THEOREM CapIsKept == Spec => []CapHolds
<1>1. IInv => CapHolds
  BY DEF IInv, Capped, InWindow, CapHolds
<1> QED BY <1>1, Invariance, PTL

\* The jobs VisibleCapHolds counts from t on.
Visible(t) == {j \in Jobs : /\ committedAt[j] <= startedAt[j] + Slack
                            /\ committedAt[j] >= t
                            /\ committedAt[j] + Slack <= t + Window}

\* A window of commit times, Slack shorter, lies in a window of created_at.
LEMMA VisibleIsInWindow ==
  ASSUME IInv, NEW t \in 0 .. MaxTime
  PROVE  \E u \in 0 .. MaxTime : Visible(t) \in SUBSET InWindow(u)
<1> USE CapAssumption DEF IInv, TypeOK, TimeInv, Visible, InWindow, Jobs
<1>1. CASE Slack <= t
  <2>1. t - Slack \in 0 .. MaxTime
    BY <1>1
  <2>2. Visible(t) \in SUBSET InWindow(t - Slack)
    BY <1>1
  <2> QED BY <2>1, <2>2
<1>2. CASE t < Slack
  <2>1. 0 \in 0 .. MaxTime
    OBVIOUS
  <2>2. Visible(t) \in SUBSET InWindow(0)
    BY <1>2
  <2> QED BY <2>1, <2>2
<1> QED BY <1>1, <1>2

\* Transactions no slower than Slack become visible at most Cap per window less
\* Slack: a late commit of an early transaction cannot flood a channel.
THEOREM VisibleCapIsKept == Spec => []VisibleCapHolds
<1>1. ASSUME IInv
      PROVE  VisibleCapHolds
  <2> SUFFICES ASSUME NEW t \in 0 .. MaxTime
               PROVE  Cardinality(Visible(t)) <= Cap
    BY DEF VisibleCapHolds, Visible
  <2>1. PICK u \in 0 .. MaxTime : Visible(t) \in SUBSET InWindow(u)
    BY <1>1, VisibleIsInWindow
  <2>2. InWindow(u) \in SUBSET Request /\ Visible(t) \in SUBSET Request
    BY <2>1 DEF InWindow, Jobs
  <2>3. Cardinality(Visible(t)) <= Cardinality(InWindow(u))
    BY <2>1, <2>2, Smaller
  <2>4. Cardinality(InWindow(u)) <= Cap
    BY <1>1 DEF IInv, Capped
  <2>5. Cardinality(Visible(t)) \in Nat /\ Cardinality(InWindow(u)) \in Nat
    BY <2>2, Finite
  <2> QED BY <2>3, <2>4, <2>5, CapAssumption
<1> QED BY <1>1, Invariance, PTL

-----------------------------------------------------------------------------
(***************************************************************************)
(* The second argument: one creator per incident.                          *)
(***************************************************************************)

EInv ==
  /\ TypeOK
  /\ CreatorInv
  /\ OneJobPerIncident
  /\ OpenIncidentsAreAccountedFor

LEMMA NextEInv ==
  ASSUME EInv, [Next]_vars
  PROVE  EInv'
<1>0. TypeOK'
  BY TypeStep DEF EInv
<1> USE DEF EInv, TypeOK, CreatorInv, Creating, Jobs, OneJobPerIncident,
            OpenIncidentsAreAccountedFor
<1>1. CASE UNCHANGED vars
  BY <1>0, <1>1 DEF vars
<1>2. CASE Tick
  BY <1>0, <1>2 DEF Tick
<1>3. ASSUME NEW r \in Request, Begin(r)
      PROVE  EInv'
  BY <1>0, <1>3 DEF Begin
<1>4. ASSUME NEW r \in Request, UpsertIncident(r)
      PROVE  EInv'
  BY <1>0, <1>4 DEF UpsertIncident, Inserting
<1>5. ASSUME NEW r \in Request, AcquireLock(r)
      PROVE  EInv'
  BY <1>0, <1>5 DEF AcquireLock
<1>6. ASSUME NEW r \in Request, CountJobs(r)
      PROVE  EInv'
  BY <1>0, <1>6 DEF CountJobs
<1>7. ASSUME NEW r \in Request, CommitWithJob(r)
      PROVE  EInv'
  <2>1. /\ open' = open \cup {reports[r]}
        /\ reports' = reports
        /\ phase' = [phase EXCEPT ![r] = "enqueued"]
    BY <1>7 DEF CommitWithJob, Opened
  <2>2. phase[r] = "insert"
    BY <1>7 DEF CommitWithJob
  <2>3. CreatorInv'
    BY <2>1, <2>2
  <2>4. OneJobPerIncident'
    BY <2>1, <2>2
  <2>5. OpenIncidentsAreAccountedFor'
    BY <2>1, <2>2
  <2> QED BY <1>0, <2>3, <2>4, <2>5
<1>8. ASSUME NEW r \in Request, CommitCapped(r)
      PROVE  EInv'
  <2>1. /\ open' = open \cup {reports[r]}
        /\ reports' = reports
        /\ phase' = [phase EXCEPT ![r] = "capped"]
    BY <1>8 DEF CommitCapped, Opened
  <2>2. phase[r] = "skip"
    BY <1>8 DEF CommitCapped
  <2>3. CreatorInv'
    BY <2>1, <2>2
  <2>4. OneJobPerIncident'
    BY <2>1, <2>2
  <2>5. OpenIncidentsAreAccountedFor'
    BY <2>1, <2>2
  <2> QED BY <1>0, <2>3, <2>4, <2>5
<1>9. ASSUME NEW r \in Request, CommitUpdate(r)
      PROVE  EInv'
  BY <1>0, <1>9 DEF CommitUpdate
<1>10. ASSUME NEW r \in Request, Rollback(r)
       PROVE  EInv'
  BY <1>0, <1>10 DEF Rollback, Running, OpenedUndone
<1>11. ASSUME NEW r \in Request, Post(r)
       PROVE  EInv'
  BY <1>0, <1>11 DEF Post
<1> QED BY <1>1, <1>2, <1>3, <1>4, <1>5, <1>6, <1>7, <1>8, <1>9, <1>10, <1>11
           DEF Next, Handle

\* The creators of incidents keep apart in every reachable state.
THEOREM EInvariance == Spec => []EInv
<1>1. Init => EInv
  BY InitIInv DEF Init, IInv, EInv, CreatorInv, Creating, Jobs, OneJobPerIncident,
                  OpenIncidentsAreAccountedFor
<1>2. EInv /\ [Next]_vars => EInv'
  BY NextEInv
<1> QED BY <1>1, <1>2, PTL DEF Spec

\* However requests race and roll back, an open incident has its job or was
\* refused one by the cap.
THEOREM NoDualWrite == Spec => []OpenIncidentsAreAccountedFor
<1>1. EInv => OpenIncidentsAreAccountedFor
  BY DEF EInv
<1> QED BY <1>1, EInvariance, PTL

\* Requests that race to report one incident enqueue at most one job.
THEOREM OneJob == Spec => []OneJobPerIncident
<1>1. EInv => OneJobPerIncident
  BY DEF EInv
<1> QED BY <1>1, EInvariance, PTL


-----------------------------------------------------------------------------
(* RateLimiter                                                             *)


Counted(x) == req[x].at \in {"admitted", "refused"}
Span(x) == PolicyWindow[req[x].policy]

\* A row is locked for deletion by one transaction.
Apart == \A x, y \in Requests : x # y => doomed[x] \cap doomed[y] = {}

\* Transactions begin in the past, and not longer than MaxWait ago.
ClockInv ==
  \A q \in Requests :
    /\ req[q].begin <= clock
    /\ Checking(q) => clock <= req[q].begin + MaxWait

\* The hits of rate_limit_hits are those of requests that were counted, and a
\* counted request loses its hit only after its window.
Lost(x) == x \notin hit \/ \E q \in Requests : x \in doomed[q]

HitInv ==
  /\ \A x \in hit : Counted(x)
  /\ \A x \in Requests : Counted(x) /\ Lost(x) => req[x].begin + Span(x) < clock

\* The advisory lock.
GuardLockInv ==
  \A x, y \in Requests : HoldsLock(x) /\ HoldsLock(y) /\ Key(x) = Key(y) => x = y

\* Between the delete and the count of a request no expired hit of its key appears.
PrunedInv == \A q \in Requests : At(q, "pruned") => Expired(q) \subseteq doomed[q]

\* The requests LimitHolds counts.
Fits(x, t) == t <= req[x].begin /\ req[x].begin + MaxWait <= t + Span(x)
Admitted(i, c, t) ==
  {q \in Requests : At(q, "admitted") /\ Key(q) = <<i, c>>
                    /\ t <= req[q].begin /\ req[q].begin + MaxWait <= t + PolicyWindow[i]}

\* A request about to be admitted has room in every interval it belongs to.
GuardRoomInv ==
  \A q \in Requests, t \in Times :
    At(q, "within") /\ Fits(q, t) =>
      Cardinality(Admitted(req[q].policy, req[q].client, t)) < Limit[req[q].policy]

\* The others a refusal rests on.
Reasons(q) ==
  {x \in Requests \ {q} : Key(x) = Key(q) /\ Counted(x)
                          /\ req[q].begin <= req[x].begin + Span(q)}

RefusedInv ==
  \A q \in Requests :
    req[q].at \in {"beyond", "refused"} => Cardinality(Reasons(q)) >= Limit[req[q].policy]

GuardIInv ==
  /\ GuardTypeOK /\ Apart /\ ClockInv /\ HitInv /\ GuardLockInv /\ PrunedInv
  /\ LimitHolds /\ GuardRoomInv /\ RefusedInv

-----------------------------------------------------------------------------
(* Sets of requests                                                        *)

\* Any set of requests is finite and has a cardinality.
LEMMA GuardFinite ==
  ASSUME NEW S \in SUBSET Requests
  PROVE  IsFiniteSet(S) /\ Cardinality(S) \in Nat
<1>1. IsFiniteSet(Requests)
  BY FS_Interval, RateAssumption DEF Requests
<1> QED BY <1>1, FS_Subset, FS_CardinalityType

LEMMA GuardSmaller ==
  ASSUME NEW S \in SUBSET Requests, NEW T \in SUBSET S
  PROVE  Cardinality(T) <= Cardinality(S)
BY GuardFinite, FS_Subset

LEMMA GuardOneMore ==
  ASSUME NEW S \in SUBSET Requests, NEW q \in Requests, NEW T \in SUBSET (S \cup {q})
  PROVE  Cardinality(T) <= Cardinality(S) + 1
<1>1. Cardinality(S \cup {q}) <= Cardinality(S) + 1 /\ IsFiniteSet(S \cup {q})
  BY GuardFinite, FS_AddElement
<1>2. S \cup {q} \in SUBSET Requests
  OBVIOUS
<1>3. Cardinality(T) <= Cardinality(S \cup {q})
  BY <1>2, GuardSmaller
<1>4. Cardinality(T) \in Nat /\ Cardinality(S) \in Nat /\ Cardinality(S \cup {q}) \in Nat
  BY <1>2, GuardFinite
<1> QED BY <1>1, <1>3, <1>4

-----------------------------------------------------------------------------
(* What a step changes                                                     *)

\* A transaction that is rolled back was under way: only such a one waits.
LEMMA RollsBack ==
  ASSUME GuardTypeOK, NEW q \in Requests, Fail(q) \/ DeadlockDetected(q)
  PROVE  Checking(q) /\ RollBack(q)
BY DEF GuardTypeOK, Fail, DeadlockDetected, WaitsFor, Checking, At

\* The kinds of steps, by what they do to hits and locked rows.
LEMMA Steps ==
  ASSUME GuardTypeOK, [GuardNext]_guardVars
  PROVE  \/ UNCHANGED guardVars
         \/ ClockTick
         \/ \E q \in Requests, i \in Policies, c \in Clients : BeginCheck(q, i, c)
         \/ \E q \in Requests :
              \/ DeleteAncient(q) \/ LockKey(q) \/ DeleteExpired(q) \/ CountHits(q)
              \/ CommitHit(q) \/ (Checking(q) /\ RollBack(q))
BY RollsBack DEF GuardNext, Work

LEMMA GuardInitIInv ==
  ASSUME GuardInit
  PROVE  GuardIInv
<1> USE RateAssumption DEF GuardInit
<1>1. GuardTypeOK /\ Apart /\ ClockInv /\ HitInv /\ GuardLockInv /\ PrunedInv
  BY DEF GuardTypeOK, Apart, ClockInv, HitInv, GuardLockInv, PrunedInv, Times, Checking, Counted,
         HoldsLock, At
<1>2. GuardRoomInv /\ RefusedInv
  BY DEF GuardRoomInv, RefusedInv, At
<1>3. LimitHolds
  <2> SUFFICES ASSUME NEW i \in Policies, NEW c \in Clients, NEW t \in Times
               PROVE  Cardinality(Admitted(i, c, t)) <= Limit[i]
    BY DEF LimitHolds, Admitted
  <2>1. Admitted(i, c, t) = {}
    BY DEF Admitted, At
  <2> QED BY <2>1, FS_EmptySet
<1> QED BY <1>1, <1>2, <1>3 DEF GuardIInv

LEMMA GuardTypeStep ==
  ASSUME GuardTypeOK, Apart, HitInv, [GuardNext]_guardVars
  PROVE  GuardTypeOK' /\ Apart'
<1> USE RateAssumption DEF GuardTypeOK, Apart, At, Goto
<1>1. CASE UNCHANGED guardVars
  BY <1>1 DEF guardVars
<1>2. CASE ClockTick
  BY <1>2 DEF ClockTick, Times
<1>3. ASSUME NEW q \in Requests, NEW i \in Policies, NEW c \in Clients, BeginCheck(q, i, c)
      PROVE  GuardTypeOK' /\ Apart'
  BY <1>3 DEF BeginCheck
<1>4. ASSUME NEW q \in Requests, DeleteAncient(q)
      PROVE  GuardTypeOK' /\ Apart'
  <2>1. \A x \in Requests \ {q} : doomed[x] \cap Ancient(q) = {}
    BY <1>4 DEF DeleteAncient, WaitsFor, RowHolders
  <2> QED BY <1>4, <2>1 DEF DeleteAncient, Ancient
<1>5. ASSUME NEW q \in Requests, LockKey(q) \/ CountHits(q)
      PROVE  GuardTypeOK' /\ Apart'
  BY <1>5 DEF LockKey, CountHits
<1>6. ASSUME NEW q \in Requests, DeleteExpired(q)
      PROVE  GuardTypeOK' /\ Apart'
  <2>1. \A x \in Requests \ {q} : doomed[x] \cap Expired(q) = {}
    BY <1>6 DEF DeleteExpired, WaitsFor, RowHolders
  <2> QED BY <1>6, <2>1 DEF DeleteExpired, Expired
<1>7. ASSUME NEW q \in Requests, CommitHit(q)
      PROVE  GuardTypeOK' /\ Apart'
  <2>1. hit' = (hit \ doomed[q]) \cup {q} /\ doomed' = [doomed EXCEPT ![q] = {}]
    BY <1>7 DEF CommitHit
  <2>2. doomed' \in [Requests -> SUBSET hit'] /\ Apart'
    BY <2>1
  <2>3. clock' = clock /\ \E at \in {"admitted", "refused"} : req' = [req EXCEPT ![q].at = at]
    BY <1>7 DEF CommitHit
  <2> QED BY <2>1, <2>2, <2>3
<1>8. ASSUME NEW q \in Requests, RollBack(q)
      PROVE  GuardTypeOK' /\ Apart'
  BY <1>8 DEF RollBack
<1> QED BY <1>1, <1>2, <1>3, <1>4, <1>5, <1>6, <1>7, <1>8, Steps

\* A request keeps its policy, client and begin, and once counted its verdict.
LEMMA Frame ==
  ASSUME GuardTypeOK, [GuardNext]_guardVars, NEW x \in Requests, ~At(x, "none")
  PROVE  /\ req'[x].policy = req[x].policy /\ req'[x].client = req[x].client
         /\ req'[x].begin = req[x].begin /\ Key(x)' = Key(x) /\ Span(x)' = Span(x)
         /\ ~At(x, "none")'
         /\ Counted(x) => req'[x].at = req[x].at
<1> USE DEF GuardTypeOK, At, Goto, Key, Span, Counted, Checking
<1>1. CASE UNCHANGED guardVars
  BY <1>1 DEF guardVars
<1>2. CASE ClockTick
  BY <1>2 DEF ClockTick
<1>3. ASSUME NEW q \in Requests, NEW i \in Policies, NEW c \in Clients, BeginCheck(q, i, c)
      PROVE  req'[x] = req[x]
  BY <1>3 DEF BeginCheck
<1>4. ASSUME NEW q \in Requests,
             \/ DeleteAncient(q) \/ LockKey(q) \/ DeleteExpired(q) \/ CountHits(q)
             \/ CommitHit(q) \/ (Checking(q) /\ RollBack(q))
      PROVE  ~Counted(q) /\ \E at : at # "none" /\ req' = [req EXCEPT ![q].at = at]
  BY <1>4 DEF DeleteAncient, LockKey, DeleteExpired, CountHits, CommitHit, RollBack
<1> QED BY <1>1, <1>2, <1>3, <1>4, Steps

\* Who becomes counted commits in this step.
LEMMA NewlyCounted ==
  ASSUME GuardTypeOK, [GuardNext]_guardVars, NEW x \in Requests, Counted(x)', ~Counted(x)
  PROVE  CommitHit(x)
<1> USE DEF GuardTypeOK, At, Goto, Counted
<1>1. CASE UNCHANGED guardVars
  BY <1>1 DEF guardVars
<1>2. CASE ClockTick
  BY <1>2 DEF ClockTick
<1>3. ASSUME NEW q \in Requests, NEW i \in Policies, NEW c \in Clients, BeginCheck(q, i, c)
      PROVE  FALSE
  BY <1>3 DEF BeginCheck
<1>4. ASSUME NEW q \in Requests,
             \/ DeleteAncient(q) \/ LockKey(q) \/ DeleteExpired(q) \/ CountHits(q)
             \/ (Checking(q) /\ RollBack(q))
      PROVE  FALSE
  BY <1>4 DEF DeleteAncient, LockKey, DeleteExpired, CountHits, RollBack
<1>5. ASSUME NEW q \in Requests, CommitHit(q)
      PROVE  x = q
  BY <1>5 DEF CommitHit
<1> QED BY <1>1, <1>2, <1>3, <1>4, <1>5, Steps

LEMMA ClockStep ==
  ASSUME GuardTypeOK, ClockInv, [GuardNext]_guardVars
  PROVE  ClockInv'
<1> USE RateAssumption DEF GuardTypeOK, ClockInv, At, Goto, Times
<1>1. CASE UNCHANGED guardVars
  BY <1>1 DEF guardVars, Checking
<1>2. CASE ClockTick
  BY <1>2 DEF ClockTick, Checking
<1>3. ASSUME NEW q \in Requests, NEW i \in Policies, NEW c \in Clients, BeginCheck(q, i, c)
      PROVE  ClockInv'
  BY <1>3 DEF BeginCheck, Checking
<1>4. ASSUME NEW q \in Requests,
             \/ DeleteAncient(q) \/ LockKey(q) \/ DeleteExpired(q) \/ CountHits(q)
             \/ CommitHit(q) \/ (Checking(q) /\ RollBack(q))
      PROVE  clock' = clock /\ Checking(q) /\ \E at : req' = [req EXCEPT ![q].at = at]
  BY <1>4 DEF DeleteAncient, LockKey, DeleteExpired, CountHits, CommitHit, RollBack, Checking
<1>5. ASSUME NEW q \in Requests,
             clock' = clock /\ Checking(q) /\ \E at : req' = [req EXCEPT ![q].at = at]
      PROVE  ClockInv'
  BY <1>5 DEF Checking
<1> QED BY <1>1, <1>2, <1>3, <1>4, <1>5, Steps

\* Who deletes a hit began after its window; the clock has not gone back since.
LEMMA HitStep ==
  ASSUME GuardTypeOK, Apart, ClockInv, HitInv, [GuardNext]_guardVars
  PROVE  HitInv'
<1>1. \A x \in hit' : Counted(x)'
  <2> SUFFICES ASSUME NEW x \in hit'
               PROVE  Counted(x)'
    OBVIOUS
  <2>1. CASE x \in hit
    <3>1. x \in Requests /\ Counted(x) /\ ~At(x, "none")
      BY <2>1 DEF HitInv, GuardTypeOK, Counted, At
    <3> QED BY <3>1, Frame DEF Counted
  <2>2. CASE x \notin hit
    <3>1. x \in Requests /\ CommitHit(x)
      BY <2>2, Steps DEF guardVars, ClockTick, BeginCheck, DeleteAncient, LockKey, DeleteExpired,
         CountHits, CommitHit, RollBack
    <3> QED BY <3>1 DEF CommitHit, Goto, Counted, GuardTypeOK
  <2> QED BY <2>1, <2>2
<1>2. clock' >= clock /\ clock \in Nat /\ clock' \in Nat
  BY Steps, RateAssumption
     DEF GuardTypeOK, Times, guardVars, ClockTick, BeginCheck, DeleteAncient, LockKey,
         DeleteExpired, CountHits, CommitHit, RollBack
<1>3. ASSUME NEW x \in Requests, Counted(x)', Lost(x)'
      PROVE  req'[x].begin + Span(x)' < clock'
  <2>1. CASE ~Counted(x)
    <3>1. CommitHit(x) /\ x \notin hit
      BY <1>3, <2>1, NewlyCounted DEF HitInv
    <3>2. ~Lost(x)'
      BY <3>1 DEF CommitHit, GuardTypeOK, Lost
    <3> QED BY <1>3, <3>2
  <2>2. CASE Counted(x)
    <3>1. req'[x].begin = req[x].begin /\ Span(x)' = Span(x)
      BY <2>2, Frame DEF Counted, At
    <3>2. req[x].begin \in Nat /\ Span(x) \in Nat /\ req[x].policy \in Policies
      BY RateAssumption DEF GuardTypeOK, Times, Span
    <3>3. CASE Lost(x)
      BY <1>2, <2>2, <3>1, <3>2, <3>3 DEF HitInv
    <3>4. CASE ~Lost(x)
      <4>1. ASSUME NEW q \in Requests, DeleteAncient(q), x \in Ancient(q)
            PROVE  req[x].begin + Span(x) < clock'
        <5>1. req[x].begin + Retention < req[q].begin /\ req[q].begin <= clock
          BY <4>1 DEF Ancient, ClockInv
        <5>2. req[q].begin \in Nat /\ Retention \in Nat /\ Span(x) <= Retention
          BY <3>2, RateAssumption DEF GuardTypeOK, Times, Span
        <5> QED BY <1>2, <3>2, <5>1, <5>2
      <4>2. ASSUME NEW q \in Requests, DeleteExpired(q), x \in Expired(q)
            PROVE  req[x].begin + Span(x) < clock'
        <5>1. req[x].begin + Span(q) < req[q].begin /\ req[q].begin <= clock /\ Span(x) = Span(q)
          BY <4>2 DEF Expired, ClockInv, Span, Key
        <5>2. req[q].begin \in Nat
          BY DEF GuardTypeOK, Times
        <5> QED BY <1>2, <3>2, <5>1, <5>2
      <4>3. ASSUME NEW q \in Requests, DeleteAncient(q), x \notin Ancient(q)
            PROVE  FALSE
        BY <1>3, <3>4, <4>3 DEF DeleteAncient, Lost, GuardTypeOK
      <4>4. ASSUME NEW q \in Requests, DeleteExpired(q), x \notin Expired(q)
            PROVE  FALSE
        BY <1>3, <3>4, <4>4 DEF DeleteExpired, Lost, GuardTypeOK
      <4>5. ASSUME NEW q \in Requests, CommitHit(q)
            PROVE  FALSE
        BY <1>3, <3>4, <4>5 DEF CommitHit, Lost, GuardTypeOK
      <4>6. ASSUME NEW q \in Requests, RollBack(q)
            PROVE  FALSE
        BY <1>3, <3>4, <4>6 DEF RollBack, Lost, GuardTypeOK
      <4>7. ASSUME UNCHANGED <<hit, doomed>>
            PROVE  FALSE
        BY <1>3, <3>4, <4>7 DEF Lost
      <4> QED BY <3>1, <4>1, <4>2, <4>3, <4>4, <4>5, <4>6, <4>7, Steps
              DEF guardVars, ClockTick, BeginCheck, LockKey, CountHits
    <3> QED BY <3>3, <3>4
  <2> QED BY <2>1, <2>2
<1> QED BY <1>1, <1>3 DEF HitInv

LEMMA GuardLockStep ==
  ASSUME GuardTypeOK, GuardLockInv, [GuardNext]_guardVars
  PROVE  GuardLockInv'
<1> USE DEF GuardTypeOK, GuardLockInv, At, Goto, HoldsLock, Key
<1>1. CASE UNCHANGED guardVars
  BY <1>1 DEF guardVars
<1>2. CASE ClockTick
  BY <1>2 DEF ClockTick
<1>3. ASSUME NEW q \in Requests, NEW i \in Policies, NEW c \in Clients, BeginCheck(q, i, c)
      PROVE  GuardLockInv'
  BY <1>3 DEF BeginCheck
<1>4. ASSUME NEW q \in Requests, LockKey(q)
      PROVE  GuardLockInv'
  <2>1. \A x \in Requests \ {q} : ~(HoldsLock(x) /\ Key(x) = Key(q))
    BY <1>4 DEF LockKey, WaitsFor, LockHolders
  <2>2. req' = [req EXCEPT ![q].at = "locked"]
    BY <1>4 DEF LockKey
  <2> QED BY <2>1, <2>2
<1>5. ASSUME NEW q \in Requests, DeleteAncient(q)
      PROVE  GuardLockInv'
  BY <1>5 DEF DeleteAncient
<1>6. ASSUME NEW q \in Requests, DeleteExpired(q) \/ CountHits(q)
      PROVE  GuardLockInv'
  BY <1>6 DEF DeleteExpired, CountHits
<1>7. ASSUME NEW q \in Requests, CommitHit(q) \/ RollBack(q)
      PROVE  GuardLockInv'
  BY <1>7 DEF CommitHit, RollBack
<1> QED BY <1>1, <1>2, <1>3, <1>4, <1>5, <1>6, <1>7, Steps

\* Whoever adds a hit of the key would need the lock.
LEMMA PrunedStep ==
  ASSUME GuardIInv, [GuardNext]_guardVars
  PROVE  PrunedInv'
<1> SUFFICES ASSUME NEW q \in Requests, At(q, "pruned")', NEW x \in Expired(q)'
             PROVE  x \in doomed'[q]
  BY DEF PrunedInv
<1> USE DEF GuardIInv, GuardTypeOK
<1>1. CASE ~At(q, "pruned")
  <2>1. DeleteExpired(q)
    BY <1>1, Steps DEF guardVars, ClockTick, BeginCheck, DeleteAncient, LockKey, DeleteExpired,
       CountHits, CommitHit, RollBack, At, Goto
  <2>2. Expired(q)' = Expired(q)
    BY <2>1 DEF DeleteExpired, Expired, Goto, Key
  <2> QED BY <2>1, <2>2 DEF DeleteExpired
<1>2. CASE At(q, "pruned")
  <2>1. doomed'[q] = doomed[q]
    BY <1>2, Steps DEF guardVars, ClockTick, BeginCheck, DeleteAncient, LockKey, DeleteExpired,
       CountHits, CommitHit, RollBack, At, Goto
  <2>2. req[q].policy = req'[q].policy /\ req[q].begin = req'[q].begin /\ Key(q)' = Key(q)
    BY <1>2, Frame DEF At
  <2>3. CASE x \in hit
    <3>1. x \in Requests /\ ~At(x, "none")
      BY <2>3 DEF HitInv, Counted, At
    <3>2. req[x].begin = req'[x].begin /\ Key(x)' = Key(x)
      BY <3>1, Frame
    <3> QED BY <1>2, <2>1, <2>2, <2>3, <3>2 DEF Expired, PrunedInv
  <2>4. CASE x \notin hit
    <3>1. x \in Requests /\ CommitHit(x)
      BY <2>4, Steps DEF Expired, guardVars, ClockTick, BeginCheck, DeleteAncient, LockKey,
         DeleteExpired, CountHits, CommitHit, RollBack
    <3>2. Key(x) = Key(q) /\ HoldsLock(x) /\ HoldsLock(q) /\ x # q
      <4>1. Key(x)' = Key(q)'
        BY DEF Expired
      <4>2. Key(x)' = Key(x)
        BY <3>1, Frame DEF CommitHit, At
      <4> QED BY <1>2, <2>2, <3>1, <4>1, <4>2 DEF CommitHit, At, HoldsLock
    <3> QED BY <3>1, <3>2 DEF GuardLockInv
  <2> QED BY <2>3, <2>4
<1> QED BY <1>1, <1>2

-----------------------------------------------------------------------------
(* The counts                                                              *)

\* Whatever is admitted belongs to the interval t in the step after only if it
\* did before, or commits.
LEMMA AdmittedGrows ==
  ASSUME GuardTypeOK, [GuardNext]_guardVars, NEW i \in Policies, NEW c \in Clients,
         NEW t \in Times
  PROVE  Admitted(i, c, t)' \subseteq
           Admitted(i, c, t) \cup
           {q \in Requests : CommitHit(q) /\ At(q, "within") /\ Key(q) = <<i, c>> /\ Fits(q, t)}
<1> SUFFICES ASSUME NEW q \in Admitted(i, c, t)', q \notin Admitted(i, c, t)
             PROVE  CommitHit(q) /\ At(q, "within") /\ Key(q) = <<i, c>> /\ Fits(q, t)
  BY DEF Admitted
<1>1. q \in Requests /\ Counted(q)'
  BY DEF Admitted, Counted, At
<1>2. CASE Counted(q)
  <2>1. ~At(q, "none")
    BY <1>2 DEF Counted, At
  <2>2. At(q, "admitted") /\ Key(q) = Key(q)' /\ req[q].begin = req'[q].begin
    BY <1>1, <1>2, <2>1, Frame DEF Admitted, At
  <2> QED BY <2>2 DEF Admitted
<1>3. CASE ~Counted(q)
  <2>1. CommitHit(q)
    BY <1>1, <1>3, NewlyCounted
  <2>2. At(q, "within") /\ Key(q)' = Key(q) /\ req[q].begin = req'[q].begin
    BY <1>1, <2>1, Frame DEF CommitHit, Admitted, At, Goto, GuardTypeOK
  <2>3. req[q].policy = i
    BY <2>2 DEF Admitted, Key
  <2> QED BY <2>1, <2>2, <2>3 DEF Admitted, Fits, Span
<1> QED BY <1>2, <1>3

\* What a request counts holds every admitted request of its key within reach:
\* a hit that is gone is out of the window, and the request is not that late.
LEMMA CountsTheAdmitted ==
  ASSUME GuardIInv, NEW q \in Requests, At(q, "pruned"), NEW t \in Times, Fits(q, t)
  PROVE  Admitted(req[q].policy, req[q].client, t) \subseteq
           {x \in hit \ doomed[q] : Key(x) = Key(q)}
<1> SUFFICES ASSUME NEW x \in Admitted(req[q].policy, req[q].client, t)
             PROVE  x \in hit \ doomed[q] /\ Key(x) = Key(q)
  OBVIOUS
<1>1. x \in Requests /\ Counted(x) /\ Key(x) = Key(q) /\ Span(x) = Span(q) /\ t <= req[x].begin
  BY DEF Admitted, Counted, Key, Span, At
<1>2. clock <= req[q].begin + MaxWait /\ req[q].begin + MaxWait <= t + Span(q)
  BY DEF GuardIInv, ClockInv, Checking, At, Fits
<1>3. /\ clock \in Nat /\ t \in Nat /\ req[x].begin \in Nat /\ req[q].begin \in Nat
      /\ MaxWait \in Nat /\ Span(q) \in Nat
  BY <1>1, RateAssumption DEF GuardIInv, GuardTypeOK, Times, Span
<1>4. ~(req[x].begin + Span(x) < clock)
  BY <1>1, <1>2, <1>3
<1>5. ~Lost(x)
  BY <1>1, <1>4 DEF GuardIInv, HitInv
<1> QED BY <1>1, <1>5 DEF Lost

LEMMA RoomStep ==
  ASSUME GuardIInv, [GuardNext]_guardVars
  PROVE  GuardRoomInv'
<1> SUFFICES ASSUME NEW q \in Requests, NEW t \in Times, At(q, "within")', Fits(q, t)'
             PROVE  Cardinality(Admitted(req[q].policy, req[q].client, t)')
                      < Limit[req'[q].policy]
  BY DEF GuardRoomInv, Times, Admitted, At, Key
<1> DEFINE i == req[q].policy  c == req[q].client
           before == Admitted(i, c, t)
<1> USE DEF GuardIInv
<1>1. CountHits(q) \/ At(q, "within")
  BY Steps DEF GuardTypeOK, guardVars, ClockTick, BeginCheck, DeleteAncient, LockKey,
     DeleteExpired, CountHits, CommitHit, RollBack, At, Goto
<1>2. /\ ~At(q, "none") /\ req'[q].policy = i /\ req'[q].client = c
      /\ i \in Policies /\ c \in Clients /\ Limit[i] \in Nat
  BY <1>1, Frame, RateAssumption DEF CountHits, At, GuardTypeOK
<1>3. Fits(q, t)
  BY <1>2, Frame DEF Fits
<1>4. Admitted(req[q].policy, req[q].client, t)' \subseteq before
  <2>1. ASSUME NEW x \in Requests, CommitHit(x), Key(x) = <<i, c>>
        PROVE  FALSE
    <3>1. HoldsLock(x) /\ Key(x) = Key(q)
      BY <2>1 DEF CommitHit, HoldsLock, At, Key
    <3>2. HoldsLock(q)
      BY <1>1 DEF CountHits, HoldsLock, At
    <3>3. x = q
      BY <3>1, <3>2 DEF GuardLockInv
    <3>4. CommitHit(q)
      BY <2>1, <3>3
    <3>5. req'[q].at # "within"
      BY <3>4 DEF CommitHit, Goto, At, GuardTypeOK
    <3> QED BY <3>5 DEF At
  <2> QED BY <1>2, <2>1, AdmittedGrows
<1>5. before \in SUBSET Requests
  BY DEF Admitted
<1>6. Cardinality(before) < Limit[i]
  <2>1. CASE CountHits(q)
    <3>1. At(q, "pruned") /\ Admits(q)
      BY <2>1 DEF CountHits, Goto, At, GuardTypeOK
    <3> DEFINE seen == {x \in hit \ doomed[q] : Key(x) = Key(q)}
    <3>2. before \subseteq seen /\ seen \in SUBSET Requests
      BY <1>3, <3>1, CountsTheAdmitted DEF GuardTypeOK
    <3>3. Cardinality(before) <= Cardinality(seen)
      BY <3>2, GuardSmaller
    <3>4. 1 + Cardinality(seen) <= Limit[i]
      BY <3>1 DEF Admits, Hits
    <3>5. Cardinality(before) \in Nat /\ Cardinality(seen) \in Nat
      BY <1>5, <3>2, GuardFinite
    <3> QED BY <1>2, <3>3, <3>4, <3>5
  <2>2. CASE At(q, "within")
    BY <1>3, <2>2 DEF GuardRoomInv
  <2> QED BY <1>1, <2>1, <2>2
<1>7. Cardinality(Admitted(req[q].policy, req[q].client, t)') <= Cardinality(before)
  BY <1>4, <1>5, GuardSmaller
<1>8. /\ Cardinality(Admitted(req[q].policy, req[q].client, t)') \in Nat
      /\ Cardinality(before) \in Nat
  BY <1>4, <1>5, GuardFinite
<1> QED BY <1>2, <1>6, <1>7, <1>8

LEMMA LimitStep ==
  ASSUME GuardIInv, [GuardNext]_guardVars
  PROVE  LimitHolds'
<1> SUFFICES ASSUME NEW i \in Policies, NEW c \in Clients, NEW t \in Times
             PROVE  Cardinality(Admitted(i, c, t)') <= Limit[i]
  BY DEF LimitHolds, Admitted, Times, Key, At
<1> DEFINE before == Admitted(i, c, t)
<1>1. before \in SUBSET Requests /\ Cardinality(before) <= Limit[i]
  BY DEF GuardIInv, LimitHolds, Admitted
<1>2. CASE \E q \in Requests : CommitHit(q) /\ At(q, "within") /\ Key(q) = <<i, c>> /\ Fits(q, t)
  <2>1. PICK q \in Requests : CommitHit(q) /\ At(q, "within") /\ Key(q) = <<i, c>> /\ Fits(q, t)
    BY <1>2
  <2>2. Cardinality(before) < Limit[i]
    BY <2>1 DEF GuardIInv, GuardRoomInv, Key
  <2>3. Admitted(i, c, t)' \subseteq before \cup {q}
    <3>1. ASSUME NEW x \in Requests, CommitHit(x)
          PROVE  x = q
      BY <2>1, <3>1 DEF CommitHit, Goto, At, GuardIInv, GuardTypeOK
    <3> QED BY <3>1, AdmittedGrows DEF GuardIInv
  <2>4. Cardinality(Admitted(i, c, t)') <= Cardinality(before) + 1
    BY <1>1, <2>3, GuardOneMore
  <2>5. Cardinality(Admitted(i, c, t)') \in Nat /\ Cardinality(before) \in Nat
    BY <1>1, <2>3, GuardFinite
  <2> QED BY <2>2, <2>4, <2>5, RateAssumption
<1>3. CASE ~\E q \in Requests : CommitHit(q) /\ At(q, "within") /\ Key(q) = <<i, c>> /\ Fits(q, t)
  <2>1. Admitted(i, c, t)' \subseteq before
    BY <1>3, AdmittedGrows DEF GuardIInv
  <2>2. Cardinality(Admitted(i, c, t)') <= Cardinality(before)
    BY <1>1, <2>1, GuardSmaller
  <2>3. Cardinality(Admitted(i, c, t)') \in Nat /\ Cardinality(before) \in Nat
    BY <1>1, <2>1, GuardFinite
  <2> QED BY <1>1, <2>2, <2>3, RateAssumption
<1> QED BY <1>2, <1>3

\* A request keeps the reasons of its refusal, and had them when it counted.
LEMMA RefusedStep ==
  ASSUME GuardIInv, [GuardNext]_guardVars
  PROVE  RefusedInv'
<1> SUFFICES ASSUME NEW q \in Requests, req'[q].at \in {"beyond", "refused"}
             PROVE  Cardinality(Reasons(q)') >= Limit[req'[q].policy]
  BY DEF RefusedInv
<1> USE DEF GuardIInv
<1>1. CountHits(q) \/ req[q].at \in {"beyond", "refused"}
  BY Steps DEF GuardTypeOK, guardVars, ClockTick, BeginCheck, DeleteAncient, LockKey,
     DeleteExpired, CountHits, CommitHit, RollBack, At, Goto
<1>2. /\ ~At(q, "none") /\ req'[q].policy = req[q].policy /\ Limit[req[q].policy] \in Nat
      /\ req'[q].begin = req[q].begin /\ Key(q)' = Key(q) /\ Span(q)' = Span(q)
  BY <1>1, Frame, RateAssumption DEF CountHits, At, GuardTypeOK
<1>3. Reasons(q) \subseteq Reasons(q)'
  <2> SUFFICES ASSUME NEW x \in Reasons(q)
               PROVE  x \in Reasons(q)'
    OBVIOUS
  <2>1. x \in Requests \ {q} /\ Counted(x) /\ ~At(x, "none")
    BY DEF Reasons, Counted, At
  <2>2. Counted(x)' /\ Key(x)' = Key(x) /\ req'[x].begin = req[x].begin
    BY <2>1, Frame DEF Counted
  <2> QED BY <1>2, <2>1, <2>2 DEF Reasons
<1>4. Cardinality(Reasons(q)) >= Limit[req[q].policy]
  <2>1. CASE CountHits(q)
    <3> DEFINE seen == {x \in hit \ doomed[q] : Key(x) = Key(q)}
    <3>1. At(q, "pruned") /\ ~Admits(q)
      BY <2>1 DEF CountHits, Goto, At, GuardTypeOK
    <3>2. seen \subseteq Reasons(q) /\ seen \in SUBSET Requests
      <4> SUFFICES ASSUME NEW x \in seen
                   PROVE  x \in Reasons(q)
        BY DEF GuardTypeOK
      <4>1. x \in Requests /\ Counted(x) /\ x # q
        BY <3>1 DEF GuardTypeOK, HitInv, Counted, At
      <4>2. ~(req[x].begin + PolicyWindow[req[q].policy] < req[q].begin)
        BY <3>1 DEF PrunedInv, Expired
      <4>3. req[x].begin \in Nat /\ req[q].begin \in Nat /\ PolicyWindow[req[q].policy] \in Nat
        BY <4>1, RateAssumption DEF GuardTypeOK, Times
      <4> QED BY <4>1, <4>2, <4>3 DEF Reasons, Span
    <3>3. Reasons(q) \in SUBSET Requests
      BY DEF Reasons
    <3>4. Cardinality(seen) <= Cardinality(Reasons(q))
      BY <3>2, <3>3, GuardSmaller
    <3>5. ~(1 + Cardinality(seen) <= Limit[req[q].policy])
      BY <3>1 DEF Admits, Hits
    <3>6. Cardinality(seen) \in Nat /\ Cardinality(Reasons(q)) \in Nat
      BY <3>2, <3>3, GuardFinite
    <3> QED BY <1>2, <3>4, <3>5, <3>6
  <2>2. CASE req[q].at \in {"beyond", "refused"}
    BY <2>2 DEF RefusedInv
  <2> QED BY <1>1, <2>1, <2>2
<1>5. Reasons(q)' \in SUBSET Requests
  BY DEF Reasons
<1>6. Cardinality(Reasons(q)) <= Cardinality(Reasons(q)')
  BY <1>3, <1>5, GuardSmaller
<1>7. Cardinality(Reasons(q)) \in Nat /\ Cardinality(Reasons(q)') \in Nat
  BY <1>3, <1>5, GuardFinite
<1> QED BY <1>2, <1>4, <1>6, <1>7

-----------------------------------------------------------------------------
(* Theorems                                                                *)

\* The inductive invariant: everything the argument for the limit rests on.
THEOREM GuardInvariance == GuardSpec => []GuardIInv
<1>1. ASSUME GuardIInv, [GuardNext]_guardVars
      PROVE  GuardIInv'
  BY <1>1, GuardTypeStep, ClockStep, HitStep, GuardLockStep, PrunedStep, RoomStep, LimitStep,
     RefusedStep
     DEF GuardIInv
<1> QED BY GuardInitIInv, <1>1, PTL DEF GuardSpec

\* Every variable of the guard keeps its type; a transaction deletes only rows
\* that are there (check_rate_limit).
THEOREM GuardTypeCorrect == GuardSpec => []GuardTypeOK
<1>1. GuardIInv => GuardTypeOK
  BY DEF GuardIInv
<1> QED BY <1>1, GuardInvariance, PTL

\* check_rate_limit never admits more than the limit of a policy in its window,
\* for any number of requests of any clients at once.
THEOREM LimitIsKept == GuardSpec => []LimitHolds
<1>1. GuardIInv => LimitHolds
  BY DEF GuardIInv
<1> QED BY <1>1, GuardInvariance, PTL

\* A request answered with "too many requests" had the requests of its own
\* client against it that the limit names.
THEOREM RefusalsHaveReasons == GuardSpec => []RefusalsAreDeserved
<1>1. GuardIInv => RefusalsAreDeserved
  <2> SUFFICES ASSUME GuardIInv, NEW q \in Requests, At(q, "refused")
               PROVE  Cardinality(Reasons(q)) >= Limit[req[q].policy]
    BY DEF RefusalsAreDeserved, Reasons, Counted, Span
  <2> QED BY DEF GuardIInv, RefusedInv, At
<1> QED BY <1>1, GuardInvariance, PTL
=============================================================================
