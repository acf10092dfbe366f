----------------------- MODULE IncidentDeliveryProofs -----------------------
(***************************************************************************)
(* What holds of the delivery queue for every number of workers and jobs,  *)
(* every retry policy and every budget of faults.                          *)
(***************************************************************************)
EXTENDS IncidentDelivery, FiniteSetTheorems, TLAPS

\* The backoff is a number of ticks.
LEMMA RetryDelayIsNat ==
  ASSUME NEW n \in Nat, n # 0
  PROVE  RetryDelay(n) \in Nat
<1>1. Doubling(n) \in Nat
  BY DEF Doubling
<1>2. QED
  BY <1>1, ConstantsAssumption DEF RetryDelay


-----------------------------------------------------------------------------
(***************************************************************************)
(* The inductive invariant.  DeliveredHasThread needs what the worker knows*)
(* at mark_delivered, and FailedMeansExhausted that an old claim never     *)
(* counts more attempts than the job has: both are WorkerInv.              *)
(***************************************************************************)

IInv == TypeOK /\ WorkerInv /\ DeliveredHasThread /\ FailedMeansExhausted

LEMMA InitIInv == Init => IInv
  BY ConstantsAssumption
  DEF Init, IInv, TypeOK, WorkerInv, DeliveredHasThread, FailedMeansExhausted,
      Status, Point, NoClaim, FaultKind

LEMMA SpendType ==
  ASSUME TypeOK, NEW kind \in FaultKind, Spend(kind)
  PROVE  faults' \in [FaultKind -> Nat]
  BY DEF TypeOK, Spend

\* An error of process_job changes the worker's program point and the counts.
LEMMA ErrsType ==
  ASSUME IInv, NEW w \in Worker, NEW i \in Incident, ProcessJobErrs(w, i)
  PROVE  /\ faults' \in [FaultKind -> Nat]
         /\ hidden' \in [Incident -> Nat]
         /\ pc' = [pc EXCEPT ![w] = "reschedule"]
<1>1. faults' \in [FaultKind -> Nat]
  BY SpendType DEF ProcessJobErrs, FaultKind, IInv
<1>2. hidden' \in [Incident -> Nat]
  <2>1. hidden \in [Incident -> Nat]
    BY DEF IInv, TypeOK
  <2>2. hidden' = hidden \/ hidden' = [hidden EXCEPT ![i] = @ + 1]
    BY <2>1 DEF ProcessJobErrs
  <2> QED BY <2>1, <2>2
<1> QED BY <1>1, <1>2 DEF ProcessJobErrs

\* The steps of the environment.
LEMMA EnvironmentIInv == IInv /\ Environment => IInv'
<1> SUFFICES ASSUME IInv, Environment
             PROVE  IInv'
  OBVIOUS
<1> USE ConstantsAssumption DEF IInv, jobVars, workerVars, history
<1>1. CASE Disconnect
  <2>1. faults' \in [FaultKind -> Nat]
    BY <1>1, SpendType DEF Disconnect, FaultKind
  <2>2. QED
    BY <1>1, <2>1 DEF Disconnect, TypeOK, WorkerInv, DeliveredHasThread, FailedMeansExhausted
<1>2. CASE Reconnect
  BY <1>2 DEF Reconnect, TypeOK, WorkerInv, DeliveredHasThread, FailedMeansExhausted
<1>3. CASE Tick
  <2>1. faults' \in [FaultKind -> Nat]
    BY <1>3, SpendType DEF Tick, FaultKind, TypeOK
  <2>2. /\ availableIn' \in [Incident -> Nat]
        /\ leaseLeft' \in [Incident -> Nat]
    <3>1. \A n \in Nat : Decrement(n) \in Nat
      BY DEF Decrement
    <3>2. QED
      BY <1>3, <3>1 DEF Tick, TypeOK
  <2>3. QED
    BY <1>3, <2>1, <2>2 DEF Tick, TypeOK, WorkerInv, DeliveredHasThread, FailedMeansExhausted
<1>4. ASSUME NEW i \in Incident, Enqueue(i)
      PROVE  IInv'
  BY <1>4 DEF Enqueue, TypeOK, Status, WorkerInv, DeliveredHasThread, FailedMeansExhausted
<1>5. QED
  BY <1>1, <1>2, <1>3, <1>4 DEF Environment

\* The steps of a worker, the crash included.
LEMMA WorkerIInv ==
  ASSUME IInv, NEW w \in Worker, Step(w) \/ Crash(w)
  PROVE  IInv'
<1> USE ConstantsAssumption DEF IInv, jobVars, workerVars, history
<1>1. CASE ClaimDueJobs(w)
  <2>1. PICK S \in SUBSET {i \in Incident : Due(i)} :
          /\ status' = [i \in Incident |-> IF i \in S THEN "processing" ELSE status[i]]
          /\ attempts' = [i \in Incident |->
                           IF i \in S THEN attempts[i] + 1 ELSE attempts[i]]
          /\ leaseLeft' = [i \in Incident |-> IF i \in S THEN Lease ELSE leaseLeft[i]]
          /\ claim' = [claim EXCEPT ![w] =
                         [i \in Incident |-> IF i \in S THEN attempts[i] + 1 ELSE 0]]
          /\ overtakes' = [i \in Incident |-> IF i \in S /\ Held(i)
                                             THEN overtakes[i] + 1 ELSE overtakes[i]]
          /\ reclaims' = [i \in Incident |-> IF i \in S /\ Stale(i)
                                            THEN reclaims[i] + 1 ELSE reclaims[i]]
    BY <1>1 DEF ClaimDueJobs
  <2>2. pc[w] = "idle" /\ UNCHANGED <<availableIn, thread, connected, posts, pc,
                                      current, receipt, faults, lost, hidden>>
    BY <1>1 DEF ClaimDueJobs
  <2>3. TypeOK'
    BY <2>1, <2>2 DEF TypeOK, Status
  <2>4. WorkerInv'
    BY <2>1, <2>2, <2>3 DEF TypeOK, WorkerInv
  <2>5. DeliveredHasThread' /\ FailedMeansExhausted'
    BY <2>1, <2>2, <2>3 DEF TypeOK, DeliveredHasThread, FailedMeansExhausted
  <2>6. QED
    BY <2>3, <2>4, <2>5
<1>2. CASE LoadIncident(w)
  <2>1. PICK i \in Incident :
          /\ claim[w][i] # 0
          /\ current' = [current EXCEPT ![w] = i]
          /\ \/ /\ pc' = [pc EXCEPT ![w] = IF Announced(i) THEN "mark_delivered"
                                                          ELSE "load_target"]
                /\ UNCHANGED <<faults, hidden>>
             \/ ProcessJobErrs(w, i)
    BY <1>2 DEF LoadIncident
  <2>2. UNCHANGED <<jobVars, thread, connected, posts, claim, receipt,
                    lost, overtakes, reclaims>>
    BY <1>2 DEF LoadIncident
  <2>3. /\ faults' \in [FaultKind -> Nat]
        /\ hidden' \in [Incident -> Nat]
        /\ \/ pc' = [pc EXCEPT ![w] = IF Announced(i) THEN "mark_delivered"
                                                       ELSE "load_target"]
           \/ pc' = [pc EXCEPT ![w] = "reschedule"]
    BY <2>1, ErrsType DEF TypeOK
  <2>4. TypeOK'
    BY <2>1, <2>2, <2>3 DEF TypeOK, Point
  <2>5. WorkerInv'
    BY <2>1, <2>2, <2>3 DEF TypeOK, WorkerInv, Announced
  <2>6. QED
    BY <2>2, <2>4, <2>5 DEF DeliveredHasThread, FailedMeansExhausted
<1>3. CASE LoadTarget(w)
  <2>1. current[w] \in Incident
    BY <1>3 DEF LoadTarget, TypeOK, WorkerInv
  <2>2. UNCHANGED <<jobVars, thread, connected, posts, current, claim, receipt,
                    lost, overtakes, reclaims>>
    BY <1>3 DEF LoadTarget
  <2>3. /\ faults' \in [FaultKind -> Nat]
        /\ hidden' \in [Incident -> Nat]
        /\ \/ pc' = [pc EXCEPT ![w] = "post"]
           \/ pc' = [pc EXCEPT ![w] = "reschedule"]
    BY <1>3, <2>1, ErrsType, SpendType DEF LoadTarget, TypeOK, FaultKind
  <2>4. TypeOK'
    BY <2>2, <2>3 DEF TypeOK, Point
  <2>5. WorkerInv'
    BY <1>3, <2>2, <2>3 DEF LoadTarget, TypeOK, WorkerInv
  <2>6. QED
    BY <2>2, <2>4, <2>5 DEF DeliveredHasThread, FailedMeansExhausted
<1>4. CASE PostAccepted(w)
  <2>1. current[w] \in Incident
    BY <1>4 DEF PostAccepted, TypeOK, WorkerInv
  <2>2. TypeOK'
    BY <1>4, <2>1 DEF PostAccepted, TypeOK, Point
  <2>3. WorkerInv'
    BY <1>4, <2>1 DEF PostAccepted, TypeOK, WorkerInv
  <2>4. QED
    BY <1>4, <2>1, <2>2, <2>3
    DEF PostAccepted, TypeOK, DeliveredHasThread, FailedMeansExhausted
<1>5. CASE PostReplyLost(w)
  <2>1. current[w] \in Incident
    BY <1>5 DEF PostReplyLost, TypeOK, WorkerInv
  <2>2. TypeOK'
    BY <1>5, <2>1, SpendType DEF PostReplyLost, TypeOK, Point, FaultKind
  <2>3. WorkerInv'
    BY <1>5, <2>1 DEF PostReplyLost, TypeOK, WorkerInv
  <2>4. QED
    BY <1>5, <2>1, <2>2, <2>3
    DEF PostReplyLost, TypeOK, DeliveredHasThread, FailedMeansExhausted
<1>6. CASE PostRefused(w)
  <2>1. TypeOK'
    BY <1>6, SpendType DEF PostRefused, TypeOK, Point, FaultKind
  <2>2. WorkerInv'
    BY <1>6 DEF PostRefused, TypeOK, WorkerInv
  <2>3. QED
    BY <1>6, <2>1, <2>2 DEF PostRefused, DeliveredHasThread, FailedMeansExhausted
<1>7. CASE MarkNeedsAttention(w)
  <2>1. current[w] \in Incident
    BY <1>7 DEF MarkNeedsAttention, TypeOK, WorkerInv
  <2>2. UNCHANGED <<jobVars, thread, posts, current, claim, receipt,
                    lost, overtakes, reclaims>>
    BY <1>7 DEF MarkNeedsAttention
  <2>3. /\ faults' \in [FaultKind -> Nat]
        /\ hidden' \in [Incident -> Nat]
        /\ connected' \in BOOLEAN
        /\ pc' = [pc EXCEPT ![w] = "reschedule"]
    BY <1>7, <2>1, ErrsType DEF MarkNeedsAttention, TypeOK
  <2>4. TypeOK'
    BY <2>2, <2>3 DEF TypeOK, Point
  <2>5. WorkerInv'
    BY <1>7, <2>2, <2>3 DEF MarkNeedsAttention, TypeOK, WorkerInv
  <2>6. QED
    BY <2>2, <2>4, <2>5 DEF DeliveredHasThread, FailedMeansExhausted
<1>8. CASE StoreThread(w)
  <2> DEFINE i == current[w]
  <2>1. i \in Incident /\ receipt[w] # 0 /\ receipt[w] <= posts[i]
    BY <1>8 DEF StoreThread, TypeOK, WorkerInv
  <2>2. UNCHANGED <<jobVars, connected, posts, current, claim, overtakes, reclaims>>
    BY <1>8 DEF StoreThread
  <2>3. receipt' = [receipt EXCEPT ![w] = 0] /\ pc[w] = "store_thread"
    BY <1>8 DEF StoreThread
  <2>4. /\ faults' \in [FaultKind -> Nat]
        /\ hidden' \in [Incident -> Nat]
        /\ lost' = lost \/ lost' = [lost EXCEPT ![i] = @ + 1]
    BY <1>8, <2>1, ErrsType DEF StoreThread, ThreadUpdated, ThreadUpdateErrs, TypeOK
  <2>5. \/ thread' = thread
        \/ thread[i] = 0 /\ thread' = [thread EXCEPT ![i] = receipt[w]]
    BY <1>8 DEF StoreThread, ThreadUpdated, ThreadUpdateErrs, ThreadUnset
  <2>6. \/ pc' = [pc EXCEPT ![w] = "reschedule"]
        \/ /\ pc' = [pc EXCEPT ![w] = "mark_delivered"]
           /\ thread' = [thread EXCEPT ![i] = receipt[w]]
    BY <1>8 DEF StoreThread, ThreadUpdated, ThreadUpdateErrs, ProcessJobErrs
  <2>7. TypeOK'
    <3>1. lost' \in [Incident -> Nat]
      BY <2>1, <2>4 DEF TypeOK
    <3>2. thread' \in [Incident -> Nat] /\ receipt' \in [Worker -> Nat]
      BY <2>1, <2>3, <2>5 DEF TypeOK
    <3>3. pc' \in [Worker -> Point]
      BY <2>6 DEF TypeOK, Point
    <3> QED BY <2>2, <2>4, <3>1, <3>2, <3>3 DEF TypeOK
  <2>8. WorkerInv'
    BY <2>1, <2>2, <2>3, <2>5, <2>6 DEF TypeOK, WorkerInv
  <2>9. QED
    BY <2>1, <2>2, <2>5, <2>7, <2>8
    DEF TypeOK, DeliveredHasThread, FailedMeansExhausted
<1>9. CASE MarkDelivered(w)
  <2>1. /\ current[w] \in Incident
        /\ thread[current[w]] # 0
    BY <1>9 DEF MarkDelivered, TypeOK, WorkerInv
  <2>2. TypeOK'
    BY <1>9, <2>1 DEF MarkDelivered, Finish, TypeOK, Point, Status
  <2>3. WorkerInv'
    BY <1>9, <2>1 DEF MarkDelivered, Finish, TypeOK, WorkerInv
  <2>4. QED
    BY <1>9, <2>1, <2>2, <2>3
    DEF MarkDelivered, TypeOK, DeliveredHasThread, FailedMeansExhausted
<1>10. CASE RescheduleJob(w)
  <2> DEFINE i == current[w]
             n == claim[w][i]
  <2>1. i \in Incident /\ n \in Nat /\ n # 0 /\ n <= attempts[i]
    BY <1>10 DEF RescheduleJob, TypeOK, WorkerInv
  <2>2. RetryDelay(n) \in Nat
    BY <2>1, RetryDelayIsNat
  <2>3. TypeOK'
    <3>1. status' \in [Incident -> Status] /\ leaseLeft' \in [Incident -> Nat]
      <4>1. leaseLeft' = leaseLeft \/ leaseLeft' = [leaseLeft EXCEPT ![i] = 0]
        BY <1>10 DEF RescheduleJob
      <4>2. \/ status' = status
            \/ status' = [status EXCEPT ![i] = "failed"]
            \/ status' = [status EXCEPT ![i] = "pending"]
        BY <1>10 DEF RescheduleJob
      <4>3. status' \in [Incident -> Status]
        BY <2>1, <4>2 DEF TypeOK, Status
      <4>4. leaseLeft' \in [Incident -> Nat]
        <5>1. leaseLeft \in [Incident -> Nat]
          BY DEF TypeOK
        <5> HIDE DEF IInv, i, n
        <5> QED BY <2>1, <4>1, <5>1
      <4>5. QED
        BY <4>3, <4>4
    <3>2. availableIn' \in [Incident -> Nat]
      BY <1>10, <2>1, <2>2 DEF RescheduleJob, TypeOK
    <3>3. pc' \in [Worker -> Point] /\ claim' \in [Worker -> [Incident -> Nat]]
      BY <1>10, <2>1 DEF RescheduleJob, Finish, TypeOK, Point
    <3>4. current' \in [Worker -> Incident \cup {NoIncident}]
      BY <1>10 DEF RescheduleJob, Finish, TypeOK
    <3>5. QED
      BY <1>10, <3>1, <3>2, <3>3, <3>4 DEF RescheduleJob, Finish, TypeOK
  <2>4. WorkerInv'
    BY <1>10, <2>1 DEF RescheduleJob, Finish, TypeOK, WorkerInv
  <2>5. FailedMeansExhausted'
    BY <1>10, <2>1 DEF RescheduleJob, TypeOK, FailedMeansExhausted, Exhausted
  <2>6. DeliveredHasThread'
    BY <1>10, <2>1 DEF RescheduleJob, TypeOK, DeliveredHasThread
  <2>7. QED
    BY <2>3, <2>4, <2>5, <2>6
<1>11. CASE Crash(w)
  <2>1. pc[w] = "store_thread" => current[w] \in Incident
    BY DEF TypeOK, WorkerInv
  <2>2. TypeOK'
    BY <1>11, <2>1, SpendType DEF Crash, TypeOK, Point, NoClaim, FaultKind
  <2>3. WorkerInv'
    BY <1>11 DEF Crash, TypeOK, WorkerInv, NoClaim
  <2>4. QED
    BY <1>11, <2>2, <2>3 DEF Crash, DeliveredHasThread, FailedMeansExhausted
<1>12. QED
  BY <1>1, <1>2, <1>3, <1>4, <1>5, <1>6, <1>7, <1>8, <1>9, <1>10, <1>11 DEF Step

LEMMA NextIInv == IInv /\ [Next]_vars => IInv'
<1> SUFFICES ASSUME IInv, [Next]_vars
             PROVE  IInv'
  OBVIOUS
<1>1. CASE Environment
  BY <1>1, EnvironmentIInv
<1>2. CASE \E w \in Worker : Step(w) \/ Crash(w)
  BY <1>2, WorkerIInv
<1>3. CASE UNCHANGED vars
  BY <1>3 DEF vars, jobVars, workerVars, history, IInv, TypeOK, WorkerInv,
              DeliveredHasThread, FailedMeansExhausted
<1>4. QED
  BY <1>1, <1>2, <1>3 DEF Next

THEOREM Invariance == Spec => []IInv
  BY InitIInv, NextIInv, PTL DEF Spec

-----------------------------------------------------------------------------
(***************************************************************************)
(* Theorems.                                                               *)
(***************************************************************************)

\* Every variable keeps its type.
THEOREM TypeCorrect == Spec => []TypeOK
  BY Invariance, PTL DEF IInv

\* A delivered job has a stored thread, and the thread is a message in Slack,
\* whatever overtaken workers do (mark_delivered, l.244).
THEOREM DeliveryIsRecorded == Spec => []DeliveredHasThread
  BY Invariance, PTL DEF IInv

\* reschedule_job gives up on no job that was claimed fewer than MaxAttempts
\* times, although it decides by the attempts of a claim that may be old.
THEOREM GivingUpIsLate == Spec => []FailedMeansExhausted
  BY Invariance, PTL DEF IInv

\* The guard of the thread update decides every race to store a thread.
THEOREM ThreadWrittenOnce == Spec => ThreadIsWrittenOnce
<1> DEFINE Kept == \A i \in Incident : thread[i] # 0 => thread'[i] = thread[i]
<1>1. IInv /\ [Next]_vars => [Kept]_vars
  <2> SUFFICES ASSUME IInv, Next
               PROVE  Kept
    OBVIOUS
  <2>1. CASE Environment
    BY <2>1 DEF Environment, Disconnect, Reconnect, Tick, Enqueue
  <2>2. ASSUME NEW w \in Worker, StoreThread(w)
        PROVE  Kept
    BY <2>2 DEF StoreThread, ThreadUpdated, ThreadUpdateErrs, ThreadUnset, IInv, TypeOK
  <2>3. ASSUME NEW w \in Worker, Step(w) \/ Crash(w), ~StoreThread(w)
        PROVE  Kept
    BY <2>3 DEF Step, ClaimDueJobs, LoadIncident, LoadTarget, PostAccepted, PostReplyLost,
       PostRefused, MarkNeedsAttention, MarkDelivered, RescheduleJob, Crash
  <2>4. QED
    BY <2>1, <2>2, <2>3 DEF Next
<1>2. QED
  BY <1>1, Invariance, PTL DEF Spec, ThreadIsWrittenOnce

\* No claim, mark or reschedule touches a job that is delivered or failed.
THEOREM SettledForGood == Spec => SettledIsFinal
<1> DEFINE Kept == \A i \in Incident :
                     status[i] \in {"delivered", "failed"} => status'[i] = status[i]
<1>1. IInv /\ [Next]_vars => [Kept]_vars
  <2> SUFFICES ASSUME IInv, Next
               PROVE  Kept
    OBVIOUS
  <2> USE DEF IInv, TypeOK, jobVars
  <2>1. CASE Environment
    BY <2>1 DEF Environment, Disconnect, Reconnect, Tick, Enqueue
  <2>2. ASSUME NEW w \in Worker, ClaimDueJobs(w)
        PROVE  Kept
    BY <2>2 DEF ClaimDueJobs, Due, Stale
  <2>3. ASSUME NEW w \in Worker, MarkDelivered(w) \/ RescheduleJob(w)
        PROVE  Kept
    BY <2>3 DEF MarkDelivered, RescheduleJob, RowMatches
  <2>4. ASSUME NEW w \in Worker, Step(w) \/ Crash(w), ~ClaimDueJobs(w),
               ~(MarkDelivered(w) \/ RescheduleJob(w))
        PROVE  Kept
    BY <2>4 DEF Step, LoadIncident, LoadTarget, PostAccepted, PostReplyLost,
       PostRefused, MarkNeedsAttention, StoreThread, Crash
  <2>5. QED
    BY <2>1, <2>2, <2>3, <2>4 DEF Next
<1>2. QED
  BY <1>1, Invariance, PTL DEF Spec, SettledIsFinal

-----------------------------------------------------------------------------
(***************************************************************************)
(* The queue and its workers implement RootMessage.                        *)
(***************************************************************************)

LEMMA InitRefines == Init => Promise!Init
  BY DEF Init, Promise!Init, request

\* Steps that leave what the promise speaks of as it is.
LEMMA StutterRefines ==
  ASSUME request' = request, UNCHANGED <<posts, thread>>
  PROVE  UNCHANGED Promise!vars
  BY DEF Promise!vars

LEMMA EnvironmentRefines ==
  ASSUME IInv, Environment
  PROVE  [Promise!Next]_(Promise!vars)
<1> USE DEF IInv, TypeOK
<1>1. CASE Disconnect \/ Reconnect \/ Tick
  <2>1. UNCHANGED <<status, posts, thread>>
    BY <1>1 DEF Disconnect, Reconnect, Tick, jobVars
  <2>2. request' = request
    BY <2>1 DEF request
  <2>3. QED
    BY <2>1, <2>2, StutterRefines
<1>2. ASSUME NEW i \in Incident, Enqueue(i)
      PROVE  Promise!Request(i)
  <2>1. status[i] = "absent" /\ status' = [status EXCEPT ![i] = "pending"]
    BY <1>2 DEF Enqueue
  <2>2. request[i] = "unrequested" /\ request' = [request EXCEPT ![i] = "requested"]
    BY <2>1 DEF request
  <2>3. QED
    BY <1>2, <2>2 DEF Enqueue, Promise!Request
<1>3. QED
  BY <1>1, <1>2 DEF Environment, Promise!Next

LEMMA WorkerRefines ==
  ASSUME IInv, NEW w \in Worker, Step(w) \/ Crash(w)
  PROVE  [Promise!Next]_(Promise!vars)
<1> DEFINE i == current[w]
<1> USE DEF IInv, TypeOK, jobVars
<1>1. CASE LoadIncident(w) \/ LoadTarget(w) \/ PostRefused(w) \/ MarkNeedsAttention(w)
           \/ Crash(w)
  <2>1. UNCHANGED <<status, posts, thread>>
    BY <1>1 DEF LoadIncident, LoadTarget, PostRefused, MarkNeedsAttention, Crash
  <2>2. request' = request
    BY <2>1 DEF request
  <2>3. QED
    BY <2>1, <2>2, StutterRefines
<1>2. CASE ClaimDueJobs(w)
  <2>1. \A j \in Incident : \/ status'[j] = status[j]
                           \/ /\ status[j] \in {"pending", "processing"}
                              /\ status'[j] = "processing"
    BY <1>2 DEF ClaimDueJobs, Due, Stale
  <2>2. request' = request
    BY <2>1 DEF request
  <2>3. QED
    BY <1>2, <2>2, StutterRefines DEF ClaimDueJobs
<1>3. CASE PostAccepted(w) \/ PostReplyLost(w)
  <2>1. i \in Incident /\ status[i] # "absent"
    BY <1>3 DEF PostAccepted, PostReplyLost, WorkerInv
  <2>2. posts' = [posts EXCEPT ![i] = @ + 1] /\ UNCHANGED <<status, thread>>
    BY <1>3 DEF PostAccepted, PostReplyLost
  <2>3. request[i] # "unrequested" /\ request' = request
    BY <2>1, <2>2 DEF request, Status
  <2>4. Promise!Send(i)
    BY <2>2, <2>3 DEF Promise!Send
  <2>5. QED
    BY <2>1, <2>4 DEF Promise!Next
<1>4. CASE StoreThread(w)
  <2>1. i \in Incident /\ status[i] # "absent" /\ receipt[w] \in 1 .. posts[i]
    BY <1>4 DEF StoreThread, WorkerInv
  <2>2. UNCHANGED <<status, posts>> /\ request' = request
    BY <1>4 DEF StoreThread, request
  <2>3. CASE thread[i] = 0 /\ thread' = [thread EXCEPT ![i] = receipt[w]]
    <3>1. request[i] # "unrequested"
      BY <2>1 DEF request, Status
    <3>2. Promise!Record(i)
      BY <2>1, <2>2, <2>3, <3>1 DEF Promise!Record
    <3>3. QED
      BY <2>1, <3>2 DEF Promise!Next
  <2>4. CASE thread' = thread
    BY <2>2, <2>4, StutterRefines
  <2>5. QED
    BY <1>4, <2>3, <2>4 DEF StoreThread, ThreadUpdated, ThreadUpdateErrs, ThreadUnset
<1>5. CASE MarkDelivered(w)
  <2>1. i \in Incident /\ thread[i] # 0 /\ UNCHANGED <<posts, thread>>
    BY <1>5 DEF MarkDelivered, WorkerInv
  <2>2. CASE status[i] = "processing"
    <3>1. status' = [status EXCEPT ![i] = "delivered"]
      BY <1>5, <2>2 DEF MarkDelivered, RowMatches
    <3>2. request[i] = "requested" /\ request' = [request EXCEPT ![i] = "delivered"]
      BY <2>1, <2>2, <3>1 DEF request
    <3>3. QED
      BY <2>1, <3>2 DEF Promise!Next, Promise!Deliver
  <2>3. CASE status[i] # "processing"
    <3>1. request' = request
      BY <1>5, <2>3 DEF MarkDelivered, RowMatches, request
    <3>2. QED
      BY <2>1, <3>1, StutterRefines
  <2>4. QED
    BY <2>2, <2>3
<1>6. CASE RescheduleJob(w)
  <2>1. i \in Incident /\ UNCHANGED <<posts, thread>>
    BY <1>6 DEF RescheduleJob, WorkerInv
  <2>2. CASE status' = [status EXCEPT ![i] = "failed"] /\ status[i] = "processing"
    <3>1. request[i] = "requested" /\ request' = [request EXCEPT ![i] = "failed"]
      BY <2>1, <2>2 DEF request
    <3>2. QED
      BY <2>1, <3>1 DEF Promise!Next, Promise!Fail
  <2>3. CASE \/ status' = status
             \/ status' = [status EXCEPT ![i] = "pending"] /\ status[i] = "processing"
    <3>1. request' = request
      BY <2>1, <2>3 DEF request
    <3>2. QED
      BY <2>1, <3>1, StutterRefines
  <2>4. QED
    BY <1>6, <2>2, <2>3 DEF RescheduleJob, RowMatches
<1>7. QED
  BY <1>1, <1>2, <1>3, <1>4, <1>5, <1>6 DEF Step

\* Claims, leases, retries and crashes are an implementation of the promise:
\* each step is one step of RootMessage, or none.
THEOREM Refinement == Spec => ImplementsRootMessage
<1>1. IInv /\ [Next]_vars => [Promise!Next]_(Promise!vars)
  <2> SUFFICES ASSUME IInv, [Next]_vars
               PROVE  [Promise!Next]_(Promise!vars)
    OBVIOUS
  <2>1. CASE Environment
    BY <2>1, EnvironmentRefines
  <2>2. CASE \E w \in Worker : Step(w) \/ Crash(w)
    BY <2>2, WorkerRefines
  <2>3. CASE UNCHANGED vars
    <3>1. UNCHANGED <<status, posts, thread>>
      BY <2>3 DEF vars, jobVars
    <3>2. request' = request
      BY <3>1 DEF request
    <3>3. QED
      BY <3>1, <3>2, StutterRefines
  <2>4. QED
    BY <2>1, <2>2, <2>3 DEF Next
<1>2. QED
  BY <1>1, InitRefines, Invariance, PTL DEF Spec, ImplementsRootMessage, Promise!Spec

-----------------------------------------------------------------------------
(***************************************************************************)
(* What duplicates and extra attempts are charged to: the invariants that  *)
(* count.                                                                  *)
(***************************************************************************)

\* The workers that hold job i, those that may still post its message, and
\* those that have posted it and not yet come to store the ts.
Holders(i) == {w \in Worker : claim[w][i] # 0}
Poised(i)  == {w \in Worker : pc[w] \in {"load_target", "post"} /\ current[w] = i}
InHand(i)  == {w \in Worker : pc[w] = "store_thread" /\ current[w] = i}

\* Every second holder has overtaken another.  Until a thread is stored each
\* message is lost or in hand; then only the other holders may send or drop one.
Account(i) ==
  /\ Cardinality(Holders(i)) <= 1 + overtakes[i]
  /\ thread[i] = 0 => posts[i] <= lost[i] + Cardinality(InHand(i))
  /\ thread[i] # 0 => posts[i] + Cardinality(Poised(i)) <= lost[i] + 1 + overtakes[i]

AInv == \A i \in Incident : Account(i)

LEMMA Finite ==
  ASSUME NEW S \in SUBSET Worker
  PROVE  IsFiniteSet(S) /\ Cardinality(S) \in Nat
BY FS_Subset, FS_CardinalityType, ConstantsAssumption

LEMMA Smaller ==
  ASSUME NEW S \in SUBSET Worker, NEW T \in SUBSET S
  PROVE  Cardinality(T) <= Cardinality(S)
BY Finite, FS_Subset

LEMMA OneMore ==
  ASSUME NEW S \in SUBSET Worker, NEW w \in Worker \ S
  PROVE  Cardinality(S \cup {w}) = Cardinality(S) + 1
<1>1. IsFiniteSet(S)
  BY Finite
<1> QED BY <1>1, FS_AddElement

LEMMA OneLess ==
  ASSUME NEW S \in SUBSET Worker, NEW w \in S
  PROVE  Cardinality(S \ {w}) = Cardinality(S) - 1
<1>1. IsFiniteSet(S)
  BY Finite
<1> QED BY <1>1, FS_RemoveElement

\* Two kinds of holders that exclude each other are together no more than all.
LEMMA Apart ==
  ASSUME NEW S \in SUBSET Worker, NEW T \in SUBSET S, NEW U \in SUBSET S, T \cap U = {}
  PROVE  Cardinality(T) + Cardinality(U) <= Cardinality(S)
<1>1. T \in SUBSET Worker /\ U \in SUBSET Worker /\ T \cup U \in SUBSET S
  OBVIOUS
<1>2. Cardinality(T \cup U) = Cardinality(T) + Cardinality(U)
  <2>1. IsFiniteSet(T) /\ IsFiniteSet(U)
    BY <1>1, Finite
  <2>2. /\ Cardinality(T \cup U) = Cardinality(T) + Cardinality(U) - Cardinality(T \cap U)
        /\ Cardinality(T \cap U) = 0
    BY <2>1, FS_Union, FS_EmptySet
  <2> QED BY <1>1, <2>2, Finite
<1>3. Cardinality(T \cup U) <= Cardinality(S)
  BY <1>1, Smaller
<1> QED BY <1>2, <1>3

\* The counts are numbers, and who is poised or has a message in hand is a holder.
LEMMA Counts ==
  ASSUME IInv, NEW i \in Incident
  PROVE  /\ Cardinality(Holders(i)) \in Nat
         /\ Cardinality(Poised(i)) \in Nat
         /\ Cardinality(InHand(i)) \in Nat
         /\ Holders(i) \subseteq Worker
         /\ Poised(i) \subseteq Holders(i)
         /\ InHand(i) \subseteq Holders(i)
         /\ Poised(i) \cap InHand(i) = {}
<1>1. Holders(i) \in SUBSET Worker /\ Poised(i) \in SUBSET Worker /\ InHand(i) \in SUBSET Worker
  BY DEF Holders, Poised, InHand
<1>2. Poised(i) \subseteq Holders(i) /\ InHand(i) \subseteq Holders(i)
  BY ConstantsAssumption DEF IInv, WorkerInv, Holders, Poised, InHand
<1>3. Poised(i) \cap InHand(i) = {}
  BY DEF Poised, InHand
<1> QED BY <1>1, <1>2, <1>3, Finite

\* A step that sends, stores and loses nothing of i and lets nobody in.
LEMMA QuietAccount ==
  ASSUME IInv, NEW i \in Incident, Account(i),
         posts'[i] = posts[i], thread'[i] = thread[i], lost'[i] = lost[i],
         overtakes'[i] = overtakes[i],
         Holders(i)' \subseteq Holders(i),
         InHand(i)' = InHand(i),
         thread[i] # 0 => Poised(i)' \subseteq Poised(i)
  PROVE  Account(i)'
<1>1. /\ Cardinality(Holders(i)) \in Nat /\ Holders(i) \in SUBSET Worker
      /\ Cardinality(Poised(i)) \in Nat /\ Poised(i) \in SUBSET Worker
  BY Counts
<1>2. Holders(i)' \in SUBSET Worker /\ Poised(i)' \in SUBSET Worker
  BY DEF Holders, Poised
<1>3. Cardinality(Holders(i)') \in Nat /\ Cardinality(Poised(i)') \in Nat
  BY <1>2, Finite
<1>4. /\ Cardinality(Holders(i)') <= Cardinality(Holders(i))
      /\ thread[i] # 0 => Cardinality(Poised(i)') <= Cardinality(Poised(i))
  BY <1>1, <1>2, Smaller
<1>5. posts[i] \in Nat /\ lost[i] \in Nat /\ overtakes[i] \in Nat
  BY DEF IInv, TypeOK
<1> QED BY <1>1, <1>3, <1>4, <1>5 DEF Account

\* A step of a worker leaves the other workers as they are.
LEMMA Others ==
  ASSUME IInv, NEW w \in Worker, Step(w) \/ Crash(w), NEW v \in Worker, v # w
  PROVE  pc'[v] = pc[v] /\ current'[v] = current[v] /\ claim'[v] = claim[v]
<1> USE DEF IInv, TypeOK
<1>1. CASE ClaimDueJobs(w) \/ LoadIncident(w) \/ LoadTarget(w)
  BY <1>1 DEF ClaimDueJobs, LoadIncident, LoadTarget, ProcessJobErrs
<1>2. CASE PostAccepted(w) \/ PostReplyLost(w) \/ PostRefused(w)
  BY <1>2 DEF PostAccepted, PostReplyLost, PostRefused
<1>3. CASE MarkNeedsAttention(w) \/ StoreThread(w)
  BY <1>3 DEF MarkNeedsAttention, StoreThread, ThreadUpdated, ThreadUpdateErrs, ProcessJobErrs
<1>4. CASE MarkDelivered(w) \/ RescheduleJob(w) \/ Crash(w)
  BY <1>4 DEF MarkDelivered, RescheduleJob, Crash, Finish
<1> QED BY <1>1, <1>2, <1>3, <1>4 DEF Step

\* The messages of a job change hands only by the worker that has it.
LEMMA QuietWorker ==
  ASSUME IInv, NEW w \in Worker, Step(w) \/ Crash(w), NEW i \in Incident, Account(i),
         posts'[i] = posts[i], thread'[i] = thread[i], lost'[i] = lost[i],
         overtakes'[i] = overtakes[i],
         claim'[w][i] # 0 => claim[w][i] # 0,
         w \in InHand(i)' <=> w \in InHand(i),
         thread[i] # 0 /\ w \in Poised(i)' => w \in Poised(i)
  PROVE  Account(i)'
<1>1. \A v \in Worker : v # w => /\ pc'[v] = pc[v]
                                 /\ current'[v] = current[v]
                                 /\ claim'[v] = claim[v]
  BY Others
<1>2. Holders(i)' \subseteq Holders(i)
  BY <1>1 DEF Holders
<1>3. InHand(i)' = InHand(i)
  BY <1>1 DEF InHand
<1>4. thread[i] # 0 => Poised(i)' \subseteq Poised(i)
  BY <1>1 DEF Poised
<1> QED BY <1>2, <1>3, <1>4, QuietAccount

LEMMA ClaimAccount ==
  ASSUME IInv, NEW w \in Worker, ClaimDueJobs(w), NEW i \in Incident, Account(i)
  PROVE  Account(i)'
<1> USE DEF IInv, TypeOK
<1>1. PICK S \in SUBSET {j \in Incident : Due(j)} :
        /\ claim' = [claim EXCEPT ![w] =
                       [j \in Incident |-> IF j \in S THEN attempts[j] + 1 ELSE 0]]
        /\ overtakes' = [j \in Incident |-> IF j \in S /\ Held(j)
                                           THEN overtakes[j] + 1 ELSE overtakes[j]]
  BY DEF ClaimDueJobs
<1>2. UNCHANGED <<thread, posts, pc, current, lost>> /\ claim[w] = NoClaim
  BY DEF ClaimDueJobs
<1>3. claim[w][i] = 0
  BY <1>2 DEF NoClaim
<1>4. InHand(i)' = InHand(i) /\ Poised(i)' = Poised(i)
  BY <1>2 DEF InHand, Poised
<1>5. CASE i \notin S
  <2>1. Holders(i)' = Holders(i) /\ overtakes'[i] = overtakes[i]
    BY <1>1, <1>3, <1>5 DEF Holders
  <2> QED BY <1>2, <1>4, <2>1, QuietAccount
<1>6. CASE i \in S
  <2>1. Holders(i)' = Holders(i) \cup {w} /\ w \notin Holders(i)
    BY <1>1, <1>3, <1>6 DEF Holders
  <2>2. Holders(i) \in SUBSET Worker
    BY DEF Holders
  <2>3. Cardinality(Holders(i)') = Cardinality(Holders(i)) + 1
    BY <2>1, <2>2, OneMore
  <2>4. Held(i) <=> Holders(i) # {}
    BY DEF Held, Holders
  <2>5. Cardinality(Holders(i)') <= 1 + overtakes'[i]
    <3>1. CASE Held(i)
      BY <1>1, <1>6, <2>3, <3>1, Counts DEF Account
    <3>2. CASE ~Held(i)
      <4>1. Cardinality(Holders(i)) = 0
        BY <2>4, <3>2, FS_EmptySet
      <4> QED BY <1>1, <1>6, <2>3, <3>2, <4>1
    <3> QED BY <3>1, <3>2
  <2>6. overtakes'[i] >= overtakes[i] /\ overtakes'[i] \in Nat
    BY <1>1, <1>6
  <2>7. /\ thread'[i] = thread[i] /\ posts'[i] = posts[i] /\ lost'[i] = lost[i]
        /\ Cardinality(InHand(i)') = Cardinality(InHand(i))
        /\ Cardinality(Poised(i)') = Cardinality(Poised(i))
    BY <1>2, <1>4
  <2>8. thread'[i] = 0 => posts'[i] <= lost'[i] + Cardinality(InHand(i)')
    BY <2>7 DEF Account
  <2>9. thread'[i] # 0 =>
          posts'[i] + Cardinality(Poised(i)') <= lost'[i] + 1 + overtakes'[i]
    <3>1. posts[i] \in Nat /\ lost[i] \in Nat /\ overtakes[i] \in Nat
      OBVIOUS
    <3> HIDE DEF IInv, TypeOK
    <3> QED BY <2>6, <2>7, <3>1, Counts DEF Account
  <2> QED BY <2>5, <2>8, <2>9 DEF Account
<1> QED BY <1>5, <1>6

\* Slack accepts the message of a worker that was poised; its ts comes to hand,
\* or is lost.
LEMMA PostAccount ==
  ASSUME IInv, NEW w \in Worker, PostAccepted(w) \/ PostReplyLost(w),
         NEW i \in Incident, current[w] = i, Account(i)
  PROVE  Account(i)'
<1>1. /\ pc[w] = "post"
      /\ posts'[i] = posts[i] + 1
      /\ thread' = thread /\ overtakes' = overtakes
      /\ claim' = claim /\ current' = current
  BY DEF PostAccepted, PostReplyLost, history, IInv, TypeOK
<1>2. \A v \in Worker : v # w => pc'[v] = pc[v]
  BY DEF PostAccepted, PostReplyLost, history, IInv, TypeOK
<1>3. Holders(i)' = Holders(i)
  BY <1>1 DEF Holders
<1>4. pc'[w] \in {"store_thread", "reschedule"}
  BY DEF PostAccepted, PostReplyLost, history, IInv, TypeOK
<1>5. Poised(i)' = Poised(i) \ {w} /\ w \in Poised(i) /\ w \notin InHand(i)
  BY <1>1, <1>2, <1>4 DEF Poised, InHand
<1>6. Cardinality(Poised(i)') = Cardinality(Poised(i)) - 1
  BY <1>5, OneLess DEF Poised
<1>7. /\ posts[i] \in Nat /\ lost[i] \in Nat /\ overtakes[i] \in Nat
      /\ Cardinality(Poised(i)) \in Nat /\ Cardinality(InHand(i)) \in Nat
      /\ Cardinality(Holders(i)) \in Nat
  BY Counts DEF IInv, TypeOK
<1>8. CASE PostAccepted(w)
  <2>1. lost' = lost /\ pc'[w] = "store_thread"
    BY <1>8 DEF PostAccepted, history, IInv, TypeOK
  <2>2. InHand(i)' = InHand(i) \cup {w}
    BY <1>1, <1>2, <2>1 DEF InHand
  <2>3. Cardinality(InHand(i)') = Cardinality(InHand(i)) + 1
    BY <1>5, <2>2, OneMore DEF InHand
  <2> QED BY <1>1, <1>3, <1>6, <1>7, <2>1, <2>3 DEF Account
<1>9. CASE PostReplyLost(w)
  <2>1. lost'[i] = lost[i] + 1 /\ pc'[w] = "reschedule"
    BY <1>9 DEF PostReplyLost, IInv, TypeOK
  <2>2. InHand(i)' = InHand(i)
    BY <1>1, <1>2, <1>5, <2>1 DEF InHand
  <2> QED BY <1>1, <1>3, <1>6, <1>7, <2>1, <2>2 DEF Account
<1> QED BY <1>8, <1>9

\* The worker that stores the thread turns the account of what is in hand into
\* one of the other holders; one that comes too late, or whose update fails,
\* drops its ts.
LEMMA StoreAccount ==
  ASSUME IInv, NEW w \in Worker, StoreThread(w),
         NEW i \in Incident, current[w] = i, Account(i)
  PROVE  Account(i)'
<1>1. /\ pc[w] = "store_thread"
      /\ receipt[w] # 0
      /\ posts' = posts /\ overtakes' = overtakes
      /\ claim' = claim /\ current' = current
  BY DEF StoreThread, IInv, WorkerInv
<1>2. pc'[w] \in {"mark_delivered", "reschedule"} /\ \A v \in Worker : v # w => pc'[v] = pc[v]
  BY DEF StoreThread, ThreadUpdated, ThreadUpdateErrs, ProcessJobErrs, IInv, TypeOK
<1>3. Holders(i)' = Holders(i) /\ Poised(i)' = Poised(i)
  BY <1>1, <1>2 DEF Holders, Poised
<1>4. /\ posts[i] \in Nat /\ lost[i] \in Nat /\ overtakes[i] \in Nat
      /\ Cardinality(Poised(i)) \in Nat /\ Cardinality(InHand(i)) \in Nat
      /\ Cardinality(Holders(i)) \in Nat
  BY Counts DEF IInv, TypeOK
<1>5. \/ /\ thread'[i] # 0 /\ (thread[i] # 0 => thread'[i] = thread[i])
         /\ lost'[i] = lost[i]
      \/ thread'[i] = thread[i] /\ lost'[i] = lost[i] + 1
  BY <1>1 DEF StoreThread, ThreadUpdated, ThreadUpdateErrs, ThreadUnset, IInv, TypeOK
<1>6. Cardinality(Poised(i)) + Cardinality(InHand(i)) <= Cardinality(Holders(i))
  BY Counts, Apart
<1>7. Cardinality(InHand(i)') = Cardinality(InHand(i)) - 1
  <2>1. InHand(i)' = InHand(i) \ {w} /\ w \in InHand(i)
    BY <1>1, <1>2 DEF InHand
  <2> QED BY <2>1, OneLess DEF InHand
<1>8. CASE thread'[i] # 0 /\ (thread[i] # 0 => thread'[i] = thread[i]) /\ lost'[i] = lost[i]
  <2>1. CASE thread[i] = 0
    BY <1>1, <1>3, <1>4, <1>6, <1>8, <2>1 DEF Account
  <2>2. CASE thread[i] # 0
    BY <1>1, <1>3, <1>4, <1>8, <2>2 DEF Account
  <2> QED BY <2>1, <2>2
<1>9. CASE thread'[i] = thread[i] /\ lost'[i] = lost[i] + 1
  BY <1>1, <1>3, <1>4, <1>7, <1>9 DEF Account
<1> QED BY <1>5, <1>8, <1>9

\* A worker that dies with a ts in hand loses it.
LEMMA CrashAccount ==
  ASSUME IInv, NEW w \in Worker, Crash(w), NEW i \in Incident, Account(i)
  PROVE  Account(i)'
<1>1. /\ posts' = posts /\ thread' = thread /\ overtakes' = overtakes
      /\ pc'[w] = "idle" /\ current'[w] = NoIncident /\ claim'[w] = NoClaim
  BY DEF Crash, IInv, TypeOK
<1>2. \A v \in Worker : v # w => /\ pc'[v] = pc[v]
                                 /\ current'[v] = current[v]
                                 /\ claim'[v] = claim[v]
  BY Others
<1>3. CASE w \notin InHand(i)
  <2>1. lost'[i] = lost[i]
    <3>1. pc[w] = "store_thread" => current[w] \in Incident /\ current[w] # i
      BY <1>3 DEF InHand, IInv, TypeOK, WorkerInv
    <3> QED BY <3>1 DEF Crash, IInv, TypeOK
  <2>2. w \notin Holders(i)' /\ w \notin InHand(i)' /\ w \notin Poised(i)'
    BY <1>1 DEF Holders, InHand, Poised, NoClaim
  <2> QED BY <1>1, <1>3, <2>1, <2>2, QuietWorker DEF Holders, NoClaim
<1>4. CASE w \in InHand(i)
  <2>1. pc[w] = "store_thread" /\ current[w] = i
    BY <1>4 DEF InHand
  <2>2. lost'[i] = lost[i] + 1
    BY <2>1 DEF Crash, IInv, TypeOK
  <2>3. InHand(i)' = InHand(i) \ {w}
    BY <1>1, <1>2 DEF InHand
  <2>4. Cardinality(InHand(i)') = Cardinality(InHand(i)) - 1
    BY <1>4, <2>3, OneLess DEF InHand
  <2>5. Poised(i)' = Poised(i)
    BY <1>1, <1>2, <2>1 DEF Poised
  <2>6. Holders(i)' \subseteq Holders(i) /\ Holders(i)' \subseteq Worker
    BY <1>1, <1>2 DEF Holders, NoClaim
  <2>7. Cardinality(Holders(i)') <= Cardinality(Holders(i)) /\ Cardinality(Holders(i)') \in Nat
    BY <2>6, Counts, Smaller, Finite
  <2>8. /\ posts[i] \in Nat /\ lost[i] \in Nat /\ overtakes[i] \in Nat
        /\ Cardinality(Poised(i)) \in Nat /\ Cardinality(InHand(i)) \in Nat
        /\ Cardinality(Holders(i)) \in Nat
    BY Counts DEF IInv, TypeOK
  <2> QED BY <1>1, <2>2, <2>4, <2>5, <2>7, <2>8 DEF Account
<1> QED BY <1>3, <1>4

\* The other steps of a worker, and all steps with another job at hand.
LEMMA OtherAccount ==
  ASSUME IInv, NEW w \in Worker, Step(w), ~ClaimDueJobs(w), NEW i \in Incident, Account(i),
         PostAccepted(w) \/ PostReplyLost(w) \/ StoreThread(w) => current[w] # i
  PROVE  Account(i)'
<1> USE DEF IInv, TypeOK
<1>1. CASE PostAccepted(w) \/ PostReplyLost(w)
  <2>1. /\ posts'[i] = posts[i] /\ thread' = thread /\ lost'[i] = lost[i]
        /\ overtakes' = overtakes /\ claim' = claim /\ current'[w] # i /\ current[w] # i
    BY <1>1 DEF PostAccepted, PostReplyLost, history
  <2> QED BY <2>1, QuietWorker DEF InHand, Poised
<1>2. CASE StoreThread(w)
  <2>1. /\ posts' = posts /\ thread'[i] = thread[i] /\ lost'[i] = lost[i]
        /\ overtakes' = overtakes /\ claim' = claim /\ current'[w] # i /\ current[w] # i
    BY <1>2 DEF StoreThread, ThreadUpdated, ThreadUpdateErrs
  <2> QED BY <2>1, QuietWorker DEF InHand, Poised
<1>3. CASE LoadIncident(w)
  <2>1. /\ posts' = posts /\ thread' = thread /\ lost' = lost
        /\ overtakes' = overtakes /\ claim' = claim
    BY <1>3 DEF LoadIncident
  <2>2. /\ pc[w] = "idle"
        /\ pc'[w] \in {"mark_delivered", "load_target", "reschedule"}
        /\ pc'[w] = "load_target" => thread[current'[w]] = 0
    BY <1>3 DEF LoadIncident, Announced, ProcessJobErrs
  <2> QED BY <2>1, <2>2, QuietWorker DEF InHand, Poised
<1>4. CASE LoadTarget(w) \/ PostRefused(w) \/ MarkNeedsAttention(w)
  <2>1. /\ posts' = posts /\ thread' = thread /\ lost' = lost
        /\ overtakes' = overtakes /\ claim' = claim /\ current' = current
    BY <1>4 DEF LoadTarget, PostRefused, MarkNeedsAttention, history
  <2>2. /\ pc[w] \in {"load_target", "post", "needs_attention"}
        /\ pc'[w] \in {"post", "needs_attention", "reschedule"}
        /\ pc'[w] = "post" => pc[w] = "load_target"
    BY <1>4 DEF LoadTarget, PostRefused, MarkNeedsAttention, ProcessJobErrs
  <2> QED BY <2>1, <2>2, QuietWorker DEF InHand, Poised
<1>5. CASE MarkDelivered(w) \/ RescheduleJob(w)
  <2>1. /\ posts' = posts /\ thread' = thread /\ lost' = lost
        /\ overtakes' = overtakes
    BY <1>5 DEF MarkDelivered, RescheduleJob, history
  <2>2. /\ pc[w] \in {"mark_delivered", "reschedule"}
        /\ pc'[w] = "idle"
    BY <1>5 DEF MarkDelivered, RescheduleJob, Finish
  <2>3. claim'[w][i] # 0 => claim[w][i] # 0
    BY <1>5 DEF MarkDelivered, RescheduleJob, Finish
  <2> QED BY <2>1, <2>2, <2>3, QuietWorker DEF InHand, Poised
<1> QED BY <1>1, <1>2, <1>3, <1>4, <1>5 DEF Step

LEMMA AStep ==
  ASSUME IInv, AInv, [Next]_vars
  PROVE  AInv'
<1> SUFFICES ASSUME NEW i \in Incident
             PROVE  Account(i)'
  BY DEF AInv
<1>1. Account(i)
  BY DEF AInv
<1>2. CASE Environment \/ UNCHANGED vars
  <2>1. UNCHANGED <<posts, thread, lost, overtakes, pc, current, claim>>
    BY <1>2 DEF Environment, Disconnect, Reconnect, Tick, Enqueue, vars, workerVars, history
  <2>2. Holders(i)' = Holders(i) /\ InHand(i)' = InHand(i) /\ Poised(i)' = Poised(i)
    BY <2>1 DEF Holders, InHand, Poised
  <2> QED BY <1>1, <2>1, <2>2, QuietAccount
<1>3. ASSUME NEW w \in Worker, Step(w)
      PROVE  Account(i)'
  BY <1>1, <1>3, ClaimAccount, PostAccount, StoreAccount, OtherAccount
<1>4. ASSUME NEW w \in Worker, Crash(w)
      PROVE  Account(i)'
  BY <1>1, <1>4, CrashAccount
<1> QED BY <1>2, <1>3, <1>4 DEF Next

LEMMA InitA ==
  ASSUME Init
  PROVE  AInv
<1> SUFFICES ASSUME NEW i \in Incident
             PROVE  Account(i)
  BY DEF AInv
<1>1. Holders(i) = {} /\ InHand(i) = {}
  BY DEF Init, Holders, InHand, NoClaim
<1>2. Cardinality(Holders(i)) = 0 /\ Cardinality(InHand(i)) = 0
  BY <1>1, FS_EmptySet
<1> QED BY <1>2 DEF Init, Account

THEOREM Accounts == Spec => []AInv
<1>1. IInv /\ AInv /\ [Next]_vars => AInv'
  BY AStep
<1> QED BY <1>1, InitA, Invariance, PTL DEF Spec

\* A second root message for an incident has a cause: a ts that was lost, or a
\* claim that overtook a worker still at work on the job.
THEOREM DuplicatesHaveACause == Spec => []DuplicatesArePaidFor
<1>1. IInv /\ AInv => DuplicatesArePaidFor
  <2> SUFFICES ASSUME IInv, AInv, NEW i \in Incident
               PROVE  posts[i] <= 1 + lost[i] + overtakes[i]
    BY DEF DuplicatesArePaidFor
  <2>1. Account(i)
    BY DEF AInv
  <2>2. /\ posts[i] \in Nat /\ lost[i] \in Nat /\ overtakes[i] \in Nat
        /\ Cardinality(Poised(i)) \in Nat /\ Cardinality(InHand(i)) \in Nat
        /\ Cardinality(Holders(i)) \in Nat
    BY Counts DEF IInv, TypeOK
  <2>3. Cardinality(InHand(i)) <= Cardinality(Holders(i))
    BY Counts, Smaller
  <2> QED BY <2>1, <2>2, <2>3 DEF Account
<1> QED BY <1>1, Accounts, Invariance, PTL

-----------------------------------------------------------------------------
(***************************************************************************)
(* Leases: as long as none runs out under its holder, a job has one holder *)
(* at most, and the row says so.                                           *)
(***************************************************************************)

Leased(i) ==
  faults["stall"] = 0 =>
    /\ overtakes[i] = 0
    /\ \A w \in Worker : claim[w][i] # 0 =>
         /\ status[i] = "processing"
         /\ leaseLeft[i] # 0
         /\ claim[w][i] = attempts[i]
         /\ \A v \in Worker : claim[v][i] # 0 => v = w

LInv == \A i \in Incident : Leased(i)

\* Budgets are spent, never refunded.
LEMMA StallsGrow ==
  ASSUME IInv, [Next]_vars, faults'["stall"] = 0
  PROVE  faults["stall"] = 0
<1> USE DEF IInv, TypeOK, FaultKind
<1>1. \A kind \in FaultKind : Spend(kind) => faults["stall"] <= faults'["stall"]
  BY DEF Spend
<1>2. CASE Environment
  BY <1>1, <1>2 DEF Environment, Disconnect, Reconnect, Tick, Enqueue
<1>3. ASSUME NEW w \in Worker, Step(w)
      PROVE  faults["stall"] = 0
  BY <1>1, <1>3 DEF Step, ClaimDueJobs, LoadIncident, LoadTarget, PostAccepted,
     PostReplyLost, PostRefused, MarkNeedsAttention, StoreThread, ThreadUpdated,
     ThreadUpdateErrs, ProcessJobErrs, MarkDelivered, RescheduleJob
<1>4. ASSUME NEW w \in Worker, Crash(w)
      PROVE  faults["stall"] = 0
  BY <1>1, <1>4 DEF Crash
<1>5. CASE UNCHANGED vars
  BY <1>5 DEF vars
<1> QED BY <1>2, <1>3, <1>4, <1>5 DEF Next

LEMMA ClaimLeased ==
  ASSUME IInv, NEW w \in Worker, ClaimDueJobs(w), NEW i \in Incident, Leased(i)
  PROVE  Leased(i)'
<1> USE ConstantsAssumption DEF IInv, TypeOK
<1>1. PICK S \in SUBSET {j \in Incident : Due(j)} :
        /\ status' = [j \in Incident |-> IF j \in S THEN "processing" ELSE status[j]]
        /\ attempts' = [j \in Incident |-> IF j \in S THEN attempts[j] + 1 ELSE attempts[j]]
        /\ leaseLeft' = [j \in Incident |-> IF j \in S THEN Lease ELSE leaseLeft[j]]
        /\ claim' = [claim EXCEPT ![w] =
                       [j \in Incident |-> IF j \in S THEN attempts[j] + 1 ELSE 0]]
        /\ overtakes' = [j \in Incident |-> IF j \in S /\ Held(j)
                                           THEN overtakes[j] + 1 ELSE overtakes[j]]
  BY DEF ClaimDueJobs
<1>2. faults' = faults /\ claim[w][i] = 0
  BY DEF ClaimDueJobs, NoClaim
<1>3. CASE i \notin S
  BY <1>1, <1>2, <1>3 DEF Leased
<1>4. CASE i \in S
  <2> SUFFICES ASSUME faults["stall"] = 0
               PROVE  Leased(i)'
    BY <1>2 DEF Leased
  <2>1. \A v \in Worker : claim[v][i] = 0
    BY <1>1, <1>4 DEF Leased, Due, Stale
  <2>2. overtakes'[i] = 0
    BY <1>1, <2>1 DEF Leased, Held
  <2>3. \A v \in Worker : v # w => claim'[v][i] = 0
    BY <1>1, <2>1
  <2>4. /\ status'[i] = "processing"
        /\ leaseLeft'[i] # 0
        /\ claim'[w][i] = attempts'[i]
    BY <1>1, <1>4
  <2> QED BY <2>2, <2>3, <2>4 DEF Leased
<1> QED BY <1>3, <1>4

LEMMA LStep ==
  ASSUME IInv, LInv, [Next]_vars
  PROVE  LInv'
<1> SUFFICES ASSUME NEW i \in Incident
             PROVE  Leased(i)'
  BY DEF LInv
<1> USE DEF IInv, TypeOK, jobVars, workerVars, history
<1>1. Leased(i) /\ (faults'["stall"] = 0 => faults["stall"] = 0)
  BY StallsGrow DEF LInv
<1>2. CASE Tick
  <2>1. CASE i \in Expiring
    <3>1. faults'["stall"] # 0
      BY <1>2, <2>1 DEF Tick, Spend, FaultKind
    <3> QED BY <3>1 DEF Leased
  <2>2. CASE i \notin Expiring
    <3>1. UNCHANGED <<status, attempts, overtakes, claim>>
      BY <1>2 DEF Tick
    <3>2. leaseLeft'[i] = Decrement(leaseLeft[i])
      BY <1>2 DEF Tick
    <3>3. \A w \in Worker :
            claim[w][i] # 0 /\ faults["stall"] = 0 => leaseLeft[i] # 0 /\ leaseLeft[i] # 1
      BY <1>1, <2>2 DEF Expiring, Leased
    <3>4. leaseLeft[i] \in Nat /\ leaseLeft[i] # 0 /\ leaseLeft[i] # 1 =>
            Decrement(leaseLeft[i]) # 0
      BY DEF Decrement
    <3> QED BY <1>1, <3>1, <3>2, <3>3, <3>4 DEF Leased
  <2> QED BY <2>1, <2>2
<1>3. ASSUME NEW j \in Incident, Enqueue(j)
      PROVE  Leased(i)'
  BY <1>1, <1>3 DEF Enqueue, Leased
<1>4. CASE Disconnect \/ Reconnect \/ UNCHANGED vars
  <2>1. UNCHANGED <<status, attempts, leaseLeft, overtakes, claim>>
    BY <1>4 DEF Disconnect, Reconnect, vars
  <2> QED BY <1>1, <2>1 DEF Leased
<1>5. ASSUME NEW w \in Worker, ClaimDueJobs(w)
      PROVE  Leased(i)'
  BY <1>1, <1>5, ClaimLeased
<1>6. ASSUME NEW w \in Worker, Step(w) \/ Crash(w), ~ClaimDueJobs(w),
             ~(MarkDelivered(w) \/ RescheduleJob(w))
      PROVE  Leased(i)'
  <2>1. UNCHANGED <<status, attempts, leaseLeft, overtakes>>
    BY <1>6 DEF Step, LoadIncident, LoadTarget, PostAccepted, PostReplyLost, PostRefused,
       MarkNeedsAttention, StoreThread, Crash
  <2>2. \A v \in Worker : claim'[v][i] # 0 => claim'[v][i] = claim[v][i]
    <3>1. CASE Crash(w)
      BY <3>1 DEF Crash, NoClaim
    <3>2. CASE ~Crash(w)
      <4>1. claim' = claim
        BY <1>6, <3>2 DEF Step, LoadIncident, LoadTarget, PostAccepted, PostReplyLost,
           PostRefused, MarkNeedsAttention, StoreThread
      <4> QED BY <4>1
    <3> QED BY <3>1, <3>2
  <2> QED BY <1>1, <2>1, <2>2 DEF Leased
<1>7. ASSUME NEW w \in Worker, MarkDelivered(w) \/ RescheduleJob(w)
      PROVE  Leased(i)'
  <2>1. /\ UNCHANGED <<attempts, overtakes>>
        /\ claim' = [claim EXCEPT ![w][current[w]] = 0]
        /\ current[w] # NoIncident
    BY <1>7 DEF MarkDelivered, RescheduleJob, Finish, WorkerInv
  <2>2. current[w] \in Incident /\ claim[w][current[w]] # 0
    BY <2>1 DEF WorkerInv
  <2>3. CASE current[w] = i
    <3>1. faults["stall"] = 0 => \A v \in Worker : claim'[v][i] = 0
      BY <1>1, <2>1, <2>2, <2>3 DEF Leased
    <3> QED BY <1>1, <2>1, <3>1 DEF Leased
  <2>4. CASE current[w] # i
    <3>1. status'[i] = status[i] /\ leaseLeft'[i] = leaseLeft[i]
      BY <1>7, <2>2, <2>4 DEF MarkDelivered, RescheduleJob
    <3>2. \A v \in Worker : claim'[v][i] = claim[v][i]
      BY <2>1, <2>4
    <3> QED BY <1>1, <2>1, <3>1, <3>2 DEF Leased
  <2> QED BY <2>3, <2>4
<1> QED BY <1>2, <1>3, <1>4, <1>5, <1>6, <1>7 DEF Next, Environment

\* SKIP LOCKED and the status change of the claim keep replicas apart for as
\* long as no lease runs out under a worker that is alive.
THEOREM OverlapsNeedStalls == Spec => []OverlapNeedsStall
<1>1. Init => LInv
  BY DEF Init, LInv, Leased, NoClaim
<1>2. IInv /\ LInv /\ [Next]_vars => LInv'
  BY LStep
<1>3. IInv /\ LInv => OverlapNeedsStall
  BY DEF LInv, Leased, OverlapNeedsStall, IInv, TypeOK, FaultKind
<1> QED BY <1>1, <1>2, <1>3, Invariance, PTL DEF Spec

-----------------------------------------------------------------------------
(***************************************************************************)
(* Giving up: a worker nobody overtook gives up on a job whose messages    *)
(* are all lost, or whose thread an error hid from it.                     *)
(***************************************************************************)

Alone(i) ==
  overtakes[i] = 0 =>
    /\ \A v, w \in Worker : claim[v][i] # 0 /\ claim[w][i] # 0 => v = w
    /\ \A w \in Worker : current[w] = i /\ pc[w] # "mark_delivered" =>
         \/ thread[i] = 0
         \/ pc[w] = "reschedule" /\ hidden[i] > 0
    /\ status[i] # "processing" => \A w \in Worker : claim[w][i] = 0
    /\ status[i] = "failed" => IF thread[i] = 0 THEN posts[i] <= lost[i] ELSE hidden[i] > 0

SInv == \A i \in Incident : Alone(i)

LEMMA ClaimAlone ==
  ASSUME IInv, NEW w \in Worker, ClaimDueJobs(w), NEW i \in Incident, Alone(i)
  PROVE  Alone(i)'
<1> USE DEF IInv, TypeOK
<1>1. PICK S \in SUBSET {j \in Incident : Due(j)} :
        /\ status' = [j \in Incident |-> IF j \in S THEN "processing" ELSE status[j]]
        /\ claim' = [claim EXCEPT ![w] =
                       [j \in Incident |-> IF j \in S THEN attempts[j] + 1 ELSE 0]]
        /\ overtakes' = [j \in Incident |-> IF j \in S /\ Held(j)
                                           THEN overtakes[j] + 1 ELSE overtakes[j]]
  BY DEF ClaimDueJobs
<1>2. UNCHANGED <<thread, posts, lost, hidden, pc, current>> /\ claim[w][i] = 0
  BY DEF ClaimDueJobs, NoClaim
<1>3. CASE i \notin S
  BY <1>1, <1>2, <1>3 DEF Alone
<1>4. CASE i \in S
  <2> SUFFICES ASSUME overtakes'[i] = 0
               PROVE  Alone(i)'
    BY DEF Alone
  <2>1. overtakes[i] = 0 /\ \A v \in Worker : claim[v][i] = 0
    BY <1>1, <1>4 DEF Held
  <2>2. \A v \in Worker : v # w => claim'[v][i] = 0
    BY <1>1, <2>1
  <2>3. status'[i] = "processing"
    BY <1>1, <1>4
  <2> QED BY <1>2, <2>1, <2>2, <2>3 DEF Alone
<1> QED BY <1>3, <1>4

\* A sole holder about to give up has no message in hand: without a thread all
\* are lost.
LEMMA GiveUpAlone ==
  ASSUME IInv, NEW w \in Worker, RescheduleJob(w), NEW i \in Incident,
         current[w] = i, Account(i), Alone(i), overtakes[i] = 0
  PROVE  IF thread[i] = 0 THEN posts[i] <= lost[i] ELSE hidden[i] > 0
<1>1. pc[w] = "reschedule" /\ claim[w][i] # 0
  BY ConstantsAssumption DEF RescheduleJob, IInv, WorkerInv
<1>2. CASE thread[i] # 0
  BY <1>1, <1>2 DEF Alone
<1>3. CASE thread[i] = 0
  <2>1. InHand(i) = {}
    <3>1. \A v \in InHand(i) : v \in Worker /\ claim[v][i] # 0
      BY Counts DEF Holders, InHand
    <3>2. \A v \in InHand(i) : v = w
      BY <1>1, <3>1 DEF Alone
    <3> QED BY <1>1, <3>2 DEF InHand
  <2>2. Cardinality(InHand(i)) = 0
    BY <2>1, FS_EmptySet
  <2> QED BY <1>3, <2>2 DEF Account, IInv, TypeOK
<1> QED BY <1>2, <1>3

LEMMA SStep ==
  ASSUME IInv, AInv, SInv, [Next]_vars
  PROVE  SInv'
<1> SUFFICES ASSUME NEW i \in Incident
             PROVE  Alone(i)'
  BY DEF SInv
<1> USE DEF IInv, TypeOK, jobVars, workerVars, history
<1>1. Alone(i) /\ Account(i)
  BY DEF SInv, AInv
<1>2. ASSUME NEW j \in Incident, Enqueue(j)
      PROVE  Alone(i)'
  BY <1>1, <1>2 DEF Enqueue, Alone
<1>3. CASE Disconnect \/ Reconnect \/ Tick \/ UNCHANGED vars
  <2>1. UNCHANGED <<status, thread, posts, lost, hidden, overtakes, pc, current, claim>>
    BY <1>3 DEF Disconnect, Reconnect, Tick, vars
  <2> QED BY <1>1, <2>1 DEF Alone
<1>4. ASSUME NEW w \in Worker, ClaimDueJobs(w)
      PROVE  Alone(i)'
  BY <1>1, <1>4, ClaimAlone
<1>5. ASSUME NEW w \in Worker, LoadIncident(w)
      PROVE  Alone(i)'
  <2>1. /\ UNCHANGED <<status, thread, posts, lost, overtakes, claim>>
        /\ pc[w] = "idle"
        /\ \A v \in Worker : v # w => pc'[v] = pc[v] /\ current'[v] = current[v]
    BY <1>5, Others DEF LoadIncident, Step
  <2>2. hidden' \in [Incident -> Nat] /\ hidden'[i] >= hidden[i]
    <3>1. \/ hidden' = hidden
          \/ \E j \in Incident : hidden' = [hidden EXCEPT ![j] = @ + 1]
      BY <1>5 DEF LoadIncident, ProcessJobErrs
    <3> QED BY <3>1
  <2>3. current'[w] = i => \/ pc'[w] = "mark_delivered"
                           \/ thread[i] = 0
                           \/ pc'[w] = "reschedule" /\ hidden'[i] = hidden[i] + 1
    BY <1>5, <2>1 DEF LoadIncident, ProcessJobErrs, Announced
  <2> SUFFICES ASSUME overtakes[i] = 0
               PROVE  Alone(i)'
    BY <2>1 DEF Alone
  <2>4. hidden[i] \in Nat /\ hidden'[i] \in Nat
    BY <2>2
  <2>5. \A v \in Worker : current'[v] = i /\ pc'[v] # "mark_delivered" =>
          \/ thread'[i] = 0
          \/ pc'[v] = "reschedule" /\ hidden'[i] > 0
    <3> SUFFICES ASSUME NEW v \in Worker, current'[v] = i, pc'[v] # "mark_delivered"
                 PROVE  \/ thread'[i] = 0
                        \/ pc'[v] = "reschedule" /\ hidden'[i] > 0
      OBVIOUS
    <3>1. CASE v = w
      BY <2>1, <2>3, <2>4, <3>1
    <3>2. CASE v # w
      BY <1>1, <2>1, <2>2, <2>4, <3>2 DEF Alone
    <3> QED BY <3>1, <3>2
  <2>6. status[i] = "failed" => IF thread[i] = 0 THEN posts[i] <= lost[i] ELSE hidden'[i] > 0
    BY <1>1, <2>2, <2>4 DEF Alone
  <2> QED BY <1>1, <2>1, <2>5, <2>6 DEF Alone
<1>6. ASSUME NEW w \in Worker, LoadTarget(w) \/ PostRefused(w) \/ MarkNeedsAttention(w)
      PROVE  Alone(i)'
  <2>1. /\ UNCHANGED <<status, thread, posts, lost, overtakes, current, claim>>
        /\ pc[w] \notin {"mark_delivered", "reschedule"}
        /\ \A v \in Worker : v # w => pc'[v] = pc[v]
    BY <1>6 DEF LoadTarget, PostRefused, MarkNeedsAttention, ProcessJobErrs
  <2>2. hidden'[i] >= hidden[i] /\ hidden'[i] \in Nat
    <3>1. hidden' = hidden \/ \E j \in Incident : hidden' = [hidden EXCEPT ![j] = @ + 1]
      BY <1>6, ConstantsAssumption
      DEF LoadTarget, PostRefused, MarkNeedsAttention, ProcessJobErrs, WorkerInv
    <3> QED BY <3>1
  <2> QED BY <1>1, <2>1, <2>2 DEF Alone
<1>7. ASSUME NEW w \in Worker, PostAccepted(w) \/ PostReplyLost(w)
      PROVE  Alone(i)'
  <2>1. /\ UNCHANGED <<status, thread, hidden, overtakes, current, claim>>
        /\ pc[w] = "post"
        /\ \A v \in Worker : v # w => pc'[v] = pc[v]
    BY <1>7 DEF PostAccepted, PostReplyLost
  <2>2. current[w] = i => claim[w][i] # 0
    BY ConstantsAssumption DEF WorkerInv
  <2>3. overtakes[i] = 0 /\ status[i] = "failed" => current[w] # i
    BY <1>1, <2>2 DEF Alone
  <2>4. current[w] # i => posts'[i] = posts[i] /\ lost'[i] = lost[i]
    BY <1>7 DEF PostAccepted, PostReplyLost
  <2> QED BY <1>1, <2>1, <2>3, <2>4 DEF Alone
<1>8. ASSUME NEW w \in Worker, StoreThread(w)
      PROVE  Alone(i)'
  <2>1. /\ UNCHANGED <<status, posts, overtakes, current, claim>>
        /\ pc[w] = "store_thread"
        /\ \A v \in Worker : v # w => pc'[v] = pc[v]
    BY <1>8 DEF StoreThread, ThreadUpdated, ThreadUpdateErrs, ProcessJobErrs
  <2>2. CASE current[w] # i
    <3>1. thread'[i] = thread[i] /\ lost'[i] = lost[i] /\ hidden'[i] = hidden[i]
      BY <1>8, <2>2 DEF StoreThread, ThreadUpdated, ThreadUpdateErrs, ProcessJobErrs
    <3> QED BY <1>1, <2>1, <2>2, <3>1 DEF Alone
  <2>3. CASE current[w] = i
    <3> SUFFICES ASSUME overtakes[i] = 0
                 PROVE  Alone(i)'
      BY <2>1 DEF Alone
    <3>1. claim[w][i] # 0 /\ status[i] = "processing"
      BY <1>1, <2>3, ConstantsAssumption DEF Alone, WorkerInv
    <3>2. \/ pc'[w] = "mark_delivered"
          \/ pc'[w] = "reschedule" /\ thread'[i] = 0
          \/ pc'[w] = "reschedule" /\ hidden'[i] = hidden[i] + 1
      <4>1. thread[i] = 0
        BY <1>1, <2>1, <2>3 DEF Alone
      <4> QED BY <1>8, <2>3, <4>1
        DEF StoreThread, ThreadUpdated, ThreadUpdateErrs, ProcessJobErrs, ThreadUnset
    <3>3. \A v \in Worker : current[v] = i => v = w
      BY <1>1, <2>3, ConstantsAssumption DEF Alone, WorkerInv
    <3> QED BY <1>1, <2>1, <3>1, <3>2, <3>3 DEF Alone
  <2> QED BY <2>2, <2>3
<1>9. ASSUME NEW w \in Worker, MarkDelivered(w) \/ RescheduleJob(w)
      PROVE  Alone(i)'
  <2>1. /\ UNCHANGED <<thread, posts, lost, hidden, overtakes>>
        /\ claim' = [claim EXCEPT ![w][current[w]] = 0]
        /\ current' = [current EXCEPT ![w] = NoIncident]
        /\ pc' = [pc EXCEPT ![w] = "idle"]
        /\ current[w] \in Incident /\ claim[w][current[w]] # 0
    BY <1>9, ConstantsAssumption DEF MarkDelivered, RescheduleJob, Finish, WorkerInv
  <2>2. \A v \in Worker : current'[v] = i => v # w /\ current[v] = i /\ pc'[v] = pc[v]
    BY <2>1, ConstantsAssumption
  <2>3. \A v \in Worker : claim'[v][i] # 0 => claim'[v][i] = claim[v][i]
    BY <2>1
  <2>4. CASE current[w] # i
    <3>1. status'[i] = status[i]
      BY <1>9, <2>1, <2>4 DEF MarkDelivered, RescheduleJob
    <3> QED BY <1>1, <2>1, <2>2, <2>3, <3>1 DEF Alone
  <2>5. CASE current[w] = i
    <3> SUFFICES ASSUME overtakes[i] = 0
                 PROVE  Alone(i)'
      BY <2>1 DEF Alone
    <3>1. \A v \in Worker : claim'[v][i] = 0
      BY <1>1, <2>1, <2>5 DEF Alone
    <3>2. status'[i] = "failed" =>
            IF thread[i] = 0 THEN posts[i] <= lost[i] ELSE hidden[i] > 0
      <4>1. CASE MarkDelivered(w)
        BY <1>1, <2>5, <4>1 DEF MarkDelivered, Alone
      <4>2. CASE RescheduleJob(w)
        BY <1>1, <2>5, <4>2, GiveUpAlone
      <4> QED BY <1>9, <4>1, <4>2
    <3> QED BY <1>1, <2>1, <2>2, <3>1, <3>2 DEF Alone
  <2> QED BY <2>4, <2>5
<1>10. ASSUME NEW w \in Worker, Crash(w)
       PROVE  Alone(i)'
  <2>1. /\ UNCHANGED <<status, thread, posts, hidden, overtakes>>
        /\ lost'[i] >= lost[i]
    BY <1>10 DEF Crash
  <2>2. \A v \in Worker : claim'[v][i] # 0 => claim'[v][i] = claim[v][i]
    BY <1>10 DEF Crash, NoClaim
  <2>3. \A v \in Worker : current'[v] = i => current[v] = i /\ pc'[v] = pc[v]
    BY <1>10, ConstantsAssumption DEF Crash
  <2> SUFFICES ASSUME overtakes[i] = 0
               PROVE  Alone(i)'
    BY <2>1 DEF Alone
  <2>4. status'[i] = "failed" =>
          IF thread'[i] = 0 THEN posts'[i] <= lost'[i] ELSE hidden'[i] > 0
    <3>1. posts[i] \in Nat /\ lost[i] \in Nat /\ lost'[i] \in Nat
      BY NextIInv
    <3>2. status[i] = "failed" => IF thread[i] = 0 THEN posts[i] <= lost[i] ELSE hidden[i] > 0
      BY <1>1 DEF Alone
    <3> QED BY <2>1, <3>1, <3>2
  <2>5. \A v, u \in Worker : claim'[v][i] # 0 /\ claim'[u][i] # 0 => v = u
    BY <1>1, <2>2 DEF Alone
  <2>6. \A v \in Worker : current'[v] = i /\ pc'[v] # "mark_delivered" =>
          \/ thread'[i] = 0
          \/ pc'[v] = "reschedule" /\ hidden'[i] > 0
    BY <1>1, <2>1, <2>3 DEF Alone
  <2>7. status'[i] # "processing" => \A v \in Worker : claim'[v][i] = 0
    BY <1>1, <2>1, <2>2 DEF Alone
  <2> QED BY <2>4, <2>5, <2>6, <2>7 DEF Alone
<1> QED
  BY <1>2, <1>3, <1>4, <1>5, <1>6, <1>7, <1>8, <1>9, <1>10 DEF Next, Environment, Step

\* A job that failed without a thread left no message in Slack, and one that
\* failed with a thread was hidden from its worker by an error of the database,
\* unless a ts was lost or a worker was overtaken: what there is to check before
\* resending a failed job by hand is named.
THEOREM FailuresAreAccountedFor == Spec => []FailedIsAccountedFor
<1>1. Init => SInv
  BY ConstantsAssumption DEF Init, SInv, Alone, NoClaim
<1>2. IInv /\ AInv /\ SInv /\ [Next]_vars => SInv'
  BY SStep
<1>3. IInv /\ SInv => FailedIsAccountedFor
  <2> SUFFICES ASSUME IInv, SInv, NEW i \in Incident, status[i] = "failed"
               PROVE  /\ thread[i] = 0 /\ posts[i] > 0 => lost[i] + overtakes[i] > 0
                      /\ thread[i] # 0 => hidden[i] + overtakes[i] > 0
    BY DEF FailedIsAccountedFor
  <2>1. posts[i] \in Nat /\ lost[i] \in Nat /\ hidden[i] \in Nat /\ overtakes[i] \in Nat
    BY DEF IInv, TypeOK
  <2>2. overtakes[i] = 0 => IF thread[i] = 0 THEN posts[i] <= lost[i] ELSE hidden[i] > 0
    BY DEF SInv, Alone
  <2> QED BY <2>1, <2>2
<1> QED BY <1>1, <1>2, <1>3, Invariance, Accounts, PTL DEF Spec

-----------------------------------------------------------------------------
(***************************************************************************)
(* Attempts: a job returns to pending only by a worker with a claim below  *)
(* MaxAttempts, which it gives back; no claim is given out twice.          *)
(***************************************************************************)

\* The claims of i below MaxAttempts that were given out and are held no more.
Returned(i) ==
  {n \in 1 .. MaxAttempts - 1 : n <= attempts[i] /\ \A w \in Worker : claim[w][i] # n}

Pending(i) == IF status[i] = "pending" THEN 1 ELSE 0

\* Each claim of a pending job, after the first, follows the return of another.
Tried(i) ==
  /\ attempts[i] + Pending(i) <= reclaims[i] + 1 + Cardinality(Returned(i))
  /\ status[i] = "absent" => attempts[i] = 0
  /\ \A v, w \in Worker : claim[v][i] # 0 /\ claim[v][i] = claim[w][i] => v = w

TInv == \A i \in Incident : Tried(i)

LEMMA ReturnedCount ==
  ASSUME NEW S \in SUBSET (1 .. MaxAttempts - 1)
  PROVE  IsFiniteSet(S) /\ Cardinality(S) \in Nat /\ Cardinality(S) <= MaxAttempts - 1
<1>1. /\ IsFiniteSet(1 .. MaxAttempts - 1)
      /\ Cardinality(1 .. MaxAttempts - 1) = MaxAttempts - 1
  <2>1. MaxAttempts - 1 \in Nat
    BY ConstantsAssumption
  <2> QED BY <2>1, FS_Interval
<1> QED BY <1>1, FS_Subset, FS_CardinalityType

\* A step that neither claims i nor returns it to pending.
LEMMA QuietTried ==
  ASSUME IInv, IInv', NEW i \in Incident, Tried(i),
         UNCHANGED <<attempts, reclaims>>,
         status'[i] = "pending" => status[i] = "pending",
         status'[i] = "absent" => status[i] = "absent",
         \A w \in Worker : claim'[w][i] # 0 => claim'[w][i] = claim[w][i]
  PROVE  Tried(i)'
<1>1. Returned(i) \subseteq Returned(i)'
  BY DEF Returned
<1>2. Returned(i)' \subseteq 1 .. MaxAttempts - 1
  BY DEF Returned
<1>3. Cardinality(Returned(i)) <= Cardinality(Returned(i)')
  BY <1>1, <1>2, ReturnedCount, FS_Subset
<1>4. Cardinality(Returned(i)) \in Nat /\ Cardinality(Returned(i)') \in Nat
  BY <1>1, <1>2, ReturnedCount
<1>5. Pending(i)' <= Pending(i) /\ Pending(i) \in Nat /\ Pending(i)' \in Nat
  BY DEF Pending
<1>6. attempts[i] \in Nat /\ reclaims[i] \in Nat
  BY DEF IInv, TypeOK
<1>7. (attempts[i] + Pending(i) <= reclaims[i] + 1 + Cardinality(Returned(i)))'
  BY <1>3, <1>4, <1>5, <1>6 DEF Tried
<1>8. (status[i] = "absent" => attempts[i] = 0)'
  BY DEF Tried
<1>9. (\A v, w \in Worker : claim[v][i] # 0 /\ claim[v][i] = claim[w][i] => v = w)'
  BY DEF Tried
<1> QED BY <1>7, <1>8, <1>9 DEF Tried

LEMMA EnqueueTried ==
  ASSUME IInv, NEW j \in Incident, Enqueue(j), NEW i \in Incident, Tried(i)
  PROVE  Tried(i)'
<1>1. UNCHANGED <<attempts, reclaims, claim>>
  BY DEF Enqueue, workerVars, history
<1>2. Returned(i)' = Returned(i)
  BY <1>1 DEF Returned
<1>3. CASE i # j
  <2>1. status'[i] = status[i]
    BY <1>3 DEF Enqueue, IInv, TypeOK
  <2> QED BY <1>1, <1>2, <2>1 DEF Tried, Pending
<1>4. CASE i = j
  <2>1. status[i] = "absent" /\ status'[i] = "pending"
    BY <1>4 DEF Enqueue, IInv, TypeOK
  <2>2. attempts[i] = 0 /\ Pending(i)' = 1
    BY <2>1 DEF Tried, Pending
  <2>3. Cardinality(Returned(i)) \in Nat /\ reclaims[i] \in Nat
    BY ReturnedCount DEF Returned, IInv, TypeOK
  <2> QED BY <1>1, <1>2, <2>1, <2>2, <2>3 DEF Tried
<1> QED BY <1>3, <1>4

LEMMA ClaimTried ==
  ASSUME IInv, NEW w \in Worker, ClaimDueJobs(w), NEW i \in Incident, Tried(i)
  PROVE  Tried(i)'
<1> USE DEF IInv, TypeOK
<1>1. PICK S \in SUBSET {j \in Incident : Due(j)} :
        /\ status' = [j \in Incident |-> IF j \in S THEN "processing" ELSE status[j]]
        /\ attempts' = [j \in Incident |-> IF j \in S THEN attempts[j] + 1 ELSE attempts[j]]
        /\ claim' = [claim EXCEPT ![w] =
                       [j \in Incident |-> IF j \in S THEN attempts[j] + 1 ELSE 0]]
        /\ reclaims' = [j \in Incident |-> IF j \in S /\ Stale(j)
                                          THEN reclaims[j] + 1 ELSE reclaims[j]]
  BY DEF ClaimDueJobs
<1>2. claim[w][i] = 0
  BY DEF ClaimDueJobs, NoClaim
<1>3. \A v \in Worker : v # w => claim'[v][i] = claim[v][i]
  BY <1>1
<1>4. CASE i \notin S
  <2>1. /\ status'[i] = status[i] /\ attempts'[i] = attempts[i] /\ reclaims'[i] = reclaims[i]
        /\ \A v \in Worker : claim'[v][i] = claim[v][i]
    BY <1>1, <1>2, <1>4
  <2>2. Returned(i)' = Returned(i)
    BY <2>1 DEF Returned
  <2> QED BY <2>1, <2>2 DEF Tried, Pending
<1>5. CASE i \in S
  <2>1. /\ status'[i] = "processing"
        /\ attempts'[i] = attempts[i] + 1
        /\ claim'[w][i] = attempts[i] + 1
        /\ reclaims'[i] = IF Stale(i) THEN reclaims[i] + 1 ELSE reclaims[i]
    BY <1>1, <1>5
  <2>2. \A v \in Worker : claim[v][i] <= attempts[i]
    BY DEF WorkerInv
  <2>3. Returned(i)' = Returned(i)
    <3>1. \A n \in 1 .. MaxAttempts - 1 :
            (\A v \in Worker : claim'[v][i] # n)
              <=> n # attempts[i] + 1 /\ \A v \in Worker : claim[v][i] # n
      <4> SUFFICES ASSUME NEW n \in 1 .. MaxAttempts - 1
                   PROVE  (\A v \in Worker : claim'[v][i] # n)
                            <=> n # attempts[i] + 1 /\ \A v \in Worker : claim[v][i] # n
        OBVIOUS
      <4>1. n # 0
        BY ConstantsAssumption
      <4> HIDE DEF IInv, TypeOK
      <4> QED BY <1>2, <1>3, <2>1, <4>1
    <3>2. \A n \in 1 .. MaxAttempts - 1 :
            n <= attempts'[i] /\ n # attempts[i] + 1 <=> n <= attempts[i]
      <4>1. attempts[i] \in Nat /\ attempts'[i] = attempts[i] + 1
        BY <2>1
      <4>2. MaxAttempts \in Nat
        BY ConstantsAssumption
      <4> HIDE DEF IInv, TypeOK
      <4> QED BY <4>1, <4>2
    <3> QED BY <3>1, <3>2 DEF Returned
  <2>4. status[i] = "pending" \/ Stale(i)
    BY <1>1, <1>5 DEF Due
  <2>5. attempts'[i] + Pending(i)' <= reclaims'[i] + 1 + Cardinality(Returned(i)')
    <3>1. Pending(i)' = 0 /\ (~Stale(i) => Pending(i) = 1) /\ Pending(i) \in {0, 1}
      BY <2>1, <2>4 DEF Pending
    <3>2. attempts[i] + Pending(i) <= reclaims[i] + 1 + Cardinality(Returned(i))
      BY DEF Tried
    <3>3. Cardinality(Returned(i)) \in Nat
      BY ReturnedCount DEF Returned
    <3>4. attempts[i] \in Nat /\ reclaims[i] \in Nat
      OBVIOUS
    <3> HIDE DEF IInv, TypeOK
    <3> QED BY <2>1, <2>3, <3>1, <3>2, <3>3, <3>4
  <2>6. \A v, u \in Worker : claim'[v][i] # 0 /\ claim'[v][i] = claim'[u][i] => v = u
    <3>1. \A v \in Worker : v # w => claim'[v][i] # attempts[i] + 1
      BY <1>3, <2>2
    <3> QED BY <1>3, <2>1, <3>1 DEF Tried
  <2> QED BY <2>1, <2>5, <2>6 DEF Tried
<1> QED BY <1>4, <1>5

\* A worker that returns the job to pending gives its claim back.
LEMMA RescheduleTried ==
  ASSUME IInv, IInv', NEW w \in Worker, RescheduleJob(w), NEW i \in Incident, Tried(i)
  PROVE  Tried(i)'
<1>1. /\ UNCHANGED <<attempts, reclaims>>
      /\ claim' = [claim EXCEPT ![w][current[w]] = 0]
      /\ current[w] \in Incident
      /\ claim[w][current[w]] # 0
  BY ConstantsAssumption DEF RescheduleJob, Finish, history, IInv, TypeOK, WorkerInv
<1>2. \A v \in Worker : claim'[v][i] # 0 => claim'[v][i] = claim[v][i]
  BY <1>1 DEF IInv, TypeOK
<1>3. CASE status'[i] = "pending" => status[i] = "pending"
  <2>1. status'[i] = "absent" => status[i] = "absent"
    BY DEF RescheduleJob, IInv, TypeOK
  <2> QED BY <1>1, <1>2, <1>3, <2>1, QuietTried
<1>4. CASE status'[i] = "pending" /\ status[i] # "pending"
  <2> DEFINE n == claim[w][i]
  <2>1. current[w] = i /\ status[i] = "processing" /\ ~Exhausted(n)
    <3>1. \/ status' = status
          \/ /\ RowMatches(current[w])
             /\ status' = [status EXCEPT ![current[w]] = "failed"]
          \/ /\ RowMatches(current[w])
             /\ ~Exhausted(claim[w][current[w]])
             /\ status' = [status EXCEPT ![current[w]] = "pending"]
      BY DEF RescheduleJob
    <3> QED BY <1>1, <1>4, <3>1 DEF RowMatches, IInv, TypeOK
  <2>2. n \in Nat /\ n # 0 /\ n < MaxAttempts /\ n <= attempts[i]
    BY <1>1, <2>1, ConstantsAssumption DEF Exhausted, IInv, TypeOK, WorkerInv
  <2>3. n \in 1 .. MaxAttempts - 1
    BY <2>2, ConstantsAssumption
  <2>4. claim'[w][i] = 0 /\ \A v \in Worker : v # w => claim'[v][i] = claim[v][i]
    BY <1>1, <2>1 DEF IInv, TypeOK
  <2>5. \A v \in Worker : v # w => claim[v][i] # n
    BY <2>2 DEF Tried
  <2>6. Returned(i) \cup {n} \subseteq Returned(i)' /\ n \notin Returned(i)
    <3>1. n \notin Returned(i)
      BY DEF Returned
    <3>2. n \in Returned(i)'
      BY <1>1, <2>2, <2>3, <2>4, <2>5 DEF Returned
    <3>3. Returned(i) \subseteq Returned(i)'
      BY <1>1, <2>4 DEF Returned
    <3> QED BY <3>1, <3>2, <3>3
  <2>7. Returned(i) \subseteq 1 .. MaxAttempts - 1 /\ Returned(i)' \subseteq 1 .. MaxAttempts - 1
    BY DEF Returned
  <2> HIDE DEF n
  <2>8. Cardinality(Returned(i) \cup {n}) = Cardinality(Returned(i)) + 1
    BY <2>6, <2>7, ReturnedCount, FS_AddElement
  <2>9. Cardinality(Returned(i) \cup {n}) <= Cardinality(Returned(i)')
    BY <2>6, <2>7, ReturnedCount, FS_Subset
  <2>10. /\ Cardinality(Returned(i)) \in Nat /\ Cardinality(Returned(i)') \in Nat
         /\ attempts[i] \in Nat /\ reclaims[i] \in Nat
    BY <2>7, ReturnedCount DEF IInv, TypeOK
  <2>11. Pending(i) = 0 /\ Pending(i)' = 1
    BY <1>4 DEF Pending
  <2>12. (attempts[i] + Pending(i) <= reclaims[i] + 1 + Cardinality(Returned(i)))'
    BY <1>1, <2>8, <2>9, <2>10, <2>11 DEF Tried
  <2>13. (\A v, u \in Worker : claim[v][i] # 0 /\ claim[v][i] = claim[u][i] => v = u)'
    BY <1>2 DEF Tried
  <2> QED BY <1>4, <2>12, <2>13 DEF Tried
<1> QED BY <1>3, <1>4

LEMMA TStep ==
  ASSUME IInv, TInv, [Next]_vars
  PROVE  TInv'
<1> SUFFICES ASSUME NEW i \in Incident
             PROVE  Tried(i)'
  BY DEF TInv
<1>1. Tried(i) /\ IInv'
  BY NextIInv DEF TInv
<1>2. CASE Disconnect \/ Reconnect \/ Tick \/ UNCHANGED vars
  <2>1. UNCHANGED <<status, attempts, reclaims, claim>>
    BY <1>2 DEF Disconnect, Reconnect, Tick, vars, jobVars, workerVars, history
  <2> QED BY <1>1, <2>1, QuietTried
<1>3. ASSUME NEW j \in Incident, Enqueue(j)
      PROVE  Tried(i)'
  BY <1>1, <1>3, EnqueueTried
<1>4. ASSUME NEW w \in Worker, ClaimDueJobs(w)
      PROVE  Tried(i)'
  BY <1>1, <1>4, ClaimTried
<1>5. ASSUME NEW w \in Worker, RescheduleJob(w)
      PROVE  Tried(i)'
  BY <1>1, <1>5, RescheduleTried
<1>6. ASSUME NEW w \in Worker, MarkDelivered(w) \/ Crash(w)
      PROVE  Tried(i)'
  <2>1. UNCHANGED <<attempts, reclaims>> /\ status'[i] \in {status[i], "delivered"}
    BY <1>6 DEF MarkDelivered, Crash, jobVars, history, IInv, TypeOK
  <2>2. \A v \in Worker : claim'[v][i] # 0 => claim'[v][i] = claim[v][i]
    BY <1>6 DEF MarkDelivered, Finish, Crash, NoClaim, IInv, TypeOK
  <2> QED BY <1>1, <2>1, <2>2, QuietTried
<1>7. ASSUME NEW w \in Worker, Step(w), ~ClaimDueJobs(w), ~MarkDelivered(w), ~RescheduleJob(w)
      PROVE  Tried(i)'
  <2>1. UNCHANGED <<status, attempts, reclaims, claim>>
    BY <1>7 DEF Step, LoadIncident, LoadTarget, PostAccepted, PostReplyLost, PostRefused,
       MarkNeedsAttention, StoreThread, jobVars, history
  <2> QED BY <1>1, <2>1, QuietTried
<1> QED BY <1>2, <1>3, <1>4, <1>5, <1>6, <1>7 DEF Next, Environment

\* A job is tried more than MaxAttempts times only for claims of leases that
\* had run out, though a claim has no bound of its own.
THEOREM AttemptsAreBounded == Spec => []AttemptsArePaidFor
<1>1. Init => TInv
  <2> SUFFICES ASSUME Init, NEW i \in Incident
               PROVE  Tried(i)
    BY DEF TInv
  <2>1. Cardinality(Returned(i)) \in Nat
    BY ReturnedCount DEF Returned
  <2> QED BY <2>1 DEF Init, Tried, Pending, NoClaim
<1>2. IInv /\ TInv /\ [Next]_vars => TInv'
  BY TStep
<1>3. IInv /\ TInv => AttemptsArePaidFor
  <2> SUFFICES ASSUME IInv, TInv, NEW i \in Incident
               PROVE  attempts[i] <= MaxAttempts + reclaims[i]
    BY DEF AttemptsArePaidFor
  <2>1. Cardinality(Returned(i)) \in Nat /\ Cardinality(Returned(i)) <= MaxAttempts - 1
    BY ReturnedCount DEF Returned
  <2>2. attempts[i] \in Nat /\ reclaims[i] \in Nat /\ Pending(i) \in {0, 1}
    BY DEF IInv, TypeOK, Pending
  <2>3. attempts[i] + Pending(i) <= reclaims[i] + 1 + Cardinality(Returned(i))
    BY DEF TInv, Tried
  <2> QED BY <2>1, <2>2, <2>3, ConstantsAssumption
<1> QED BY <1>1, <1>2, <1>3, Invariance, PTL DEF Spec

=============================================================================
