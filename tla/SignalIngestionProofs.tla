----------------------- MODULE SignalIngestionProofs ------------------------
(***************************************************************************)
(* Proofs about SignalIngestion, for any number of incidents, signals and  *)
(* responders and any cap.                                                 *)
(***************************************************************************)
EXTENDS PosthogIncidents, FiniteSetTheorems, TLAPS

\* A row that does not exist has the values a new one gets.
AbsentInv == \A i \in Incident : ~Exists(i) => status[i] = "triggered"

\* A request is about an incident that exists: rows are never deleted.
TargetInv == \A r \in Responder : target[r] # None => Exists(target[r])

IInv ==
  /\ TypeOK
  /\ AbsentInv
  /\ TargetInv
  /\ ResolvedAtMatchesStatus
  /\ OneOpenIncident
  /\ SignalReceivedOnce
  /\ TimelineReplays
  /\ SilentForAReason

\* What a signal does to the incident it goes to.
Joins(e, f, i) ==
  /\ GoesTo(i, f)
  /\ UpsertIncident(i, f)
  /\ UpsertSignal(e, i, f)
  /\ UNCHANGED <<changes, requestVars, raced>>

LEMMA InitIInv ==
  ASSUME Init
  PROVE  IInv
<1> USE IngestionAssumption DEF Init, Exists
<1>1. TypeOK
  BY DEF TypeOK, Status
<1>2. AbsentInv /\ TargetInv
  BY DEF AbsentInv, TargetInv
<1>3. ResolvedAtMatchesStatus
  BY DEF ResolvedAtMatchesStatus
<1>4. OneOpenIncident
  BY DEF OneOpenIncident
<1>5. SignalReceivedOnce
  BY DEF SignalReceivedOnce
<1>6. TimelineReplays
  BY DEF TimelineReplays
<1>7. SilentForAReason
  BY DEF SilentForAReason
<1> QED BY <1>1, <1>2, <1>3, <1>4, <1>5, <1>6, <1>7 DEF IInv

\* The incident a signal goes to keeps status and resolved_at, is not resolved,
\* and keeps its fingerprint if it had one.
LEMMA JoinsOpen ==
  ASSUME IInv, NEW e \in Event, NEW f \in Fingerprint, NEW i \in Incident, Joins(e, f, i)
  PROVE  /\ status' = status
         /\ stamped' = stamped
         /\ ~stamped[i]
         /\ print' = [print EXCEPT ![i] = f]
         /\ Exists(i) => print' = print
<1> USE DEF IInv, TypeOK
<1>1. ~Exists(i) => status[i] = "triggered"
  BY DEF AbsentInv
<1>2. status' = status
  BY <1>1 DEF Joins, UpsertIncident, StatusKept, InitialStatus
<1>3. stamped' = stamped /\ print' = [print EXCEPT ![i] = f]
  BY DEF Joins, UpsertIncident
<1>4. ~Exists(i) => ~stamped[i]
  BY <1>1 DEF ResolvedAtMatchesStatus
<1>5. Exists(i) => i \in Match(f)
  BY DEF Joins, GoesTo
<1>6. Exists(i) => print[i] = f /\ ~stamped[i]
  BY <1>5 DEF Match, OpenIncidents
<1> QED BY <1>2, <1>3, <1>4, <1>6

\* A signal keeps what does not depend on the delivery jobs.
LEMMA JoinsKeeps ==
  ASSUME IInv, NEW e \in Event, NEW f \in Fingerprint, NEW i \in Incident, Joins(e, f, i)
  PROVE  /\ AbsentInv'
         /\ TargetInv'
         /\ ResolvedAtMatchesStatus'
         /\ OneOpenIncident'
         /\ SignalReceivedOnce'
         /\ TimelineReplays'
<1> USE DEF IInv
<1>1. /\ status' = status
      /\ stamped' = stamped
      /\ ~stamped[i]
      /\ print' = [print EXCEPT ![i] = f]
      /\ Exists(i) => print' = print
  BY JoinsOpen
<1>2. \A j \in Incident : Exists(j) => Exists(j)'
  BY <1>1, IngestionAssumption DEF Exists, TypeOK
<1>3. AbsentInv'
  BY <1>1, <1>2 DEF AbsentInv
<1>4. TargetInv'
  BY <1>2 DEF TargetInv, Joins, requestVars, TypeOK
<1>5. ResolvedAtMatchesStatus'
  BY <1>1 DEF ResolvedAtMatchesStatus
<1>6. OneOpenIncident'
  <2>1. CASE Exists(i)
    BY <1>1, <2>1 DEF OneOpenIncident, Exists
  <2>2. CASE ~Exists(i)
    <3>1. \A j \in Incident : ~(print[j] = f /\ ~stamped[j])
      BY <2>2, IngestionAssumption DEF Joins, GoesTo, Match, OpenIncidents, Exists
    <3> QED BY <1>1, <3>1 DEF OneOpenIncident, Exists, TypeOK
  <2> QED BY <2>1, <2>2
<1>7. SignalReceivedOnce'
  BY IngestionAssumption
     DEF SignalReceivedOnce, Joins, UpsertSignal, IsNewSignal, TypeOK
<1>8. TimelineReplays'
  BY <1>1 DEF TimelineReplays, Joins
<1> QED BY <1>3, <1>4, <1>5, <1>6, <1>7, <1>8

LEMMA JoinsType ==
  ASSUME IInv, NEW e \in Event, NEW f \in Fingerprint, NEW i \in Incident, Joins(e, f, i),
         jobs' \subseteq Incident, recent' \subseteq jobs'
  PROVE  TypeOK'
<1>1. status' = status /\ stamped' = stamped /\ print' = [print EXCEPT ![i] = f]
  BY JoinsOpen
<1>2. /\ print' \in [Incident -> Fingerprint \cup {None}]
      /\ status' \in [Incident -> Status]
      /\ stamped' \in [Incident -> BOOLEAN]
  BY <1>1 DEF IInv, TypeOK
<1>3. /\ signalOf' \in [Event -> Incident \cup {None}]
      /\ signalPrint' \in [Event -> Fingerprint \cup {None}]
  BY DEF IInv, TypeOK, Joins, UpsertSignal
<1>4. received' \in [Event -> Nat]
  BY DEF IInv, TypeOK, Joins, UpsertSignal
<1> QED
  BY <1>2, <1>3, <1>4 DEF IInv, TypeOK, Joins, requestVars

\* An incident that gets its first signal by polling, or past the cap, is the
\* only one that may be added to those without a job.
LEMMA JoinsReason ==
  ASSUME IInv, NEW e \in Event, NEW f \in Fingerprint, NEW i \in Incident, Joins(e, f, i),
         jobs \subseteq jobs', jobs' \subseteq Incident,
         \/ Exists(i)
         \/ i \in jobs'
         \/ <<e, f>> \in ByPoll
         \/ ~CanEnqueue
  PROVE  SilentForAReason'
<1> USE DEF IInv, TypeOK
<1>1. /\ print' = [print EXCEPT ![i] = f]
      /\ Exists(i) => print' = print
  BY JoinsOpen
<1>2. IsFiniteSet(jobs) /\ IsFiniteSet(jobs') /\ IsFiniteSet(recent)
  BY IngestionAssumption, FS_Subset
<1>3. /\ Cardinality(recent) \in Nat
      /\ Cardinality(jobs) \in Nat
      /\ Cardinality(jobs') \in Nat
  BY <1>2, FS_CardinalityType
<1>4. /\ Cardinality(recent) <= Cardinality(jobs)
      /\ Cardinality(jobs) <= Cardinality(jobs')
  BY <1>2, FS_Subset
<1>5. ~CanEnqueue => Cardinality(jobs') >= Cap
  BY <1>3, <1>4, IngestionAssumption DEF CanEnqueue
<1>6. Cardinality(jobs) >= Cap => Cardinality(jobs') >= Cap
  BY <1>3, <1>4, IngestionAssumption
<1> SUFFICES ASSUME NEW j \in Incident, Exists(j)', j \notin jobs'
             PROVE  \/ \E d \in Event : <<d, print'[j]>> \in ByPoll
                    \/ Cardinality(jobs') >= Cap
  BY DEF SilentForAReason
<1>7. CASE j = i /\ ~Exists(i)
  BY <1>1, <1>5, <1>7
<1>8. CASE j # i \/ Exists(i)
  <2>1. print'[j] = print[j]
    BY <1>1, <1>8
  <2>2. Exists(j) /\ j \notin jobs
    BY <2>1 DEF Exists
  <2> QED BY <1>6, <2>1, <2>2 DEF SilentForAReason
<1> QED BY <1>7, <1>8

LEMMA WebhookStep ==
  ASSUME IInv, NEW e \in Event, NEW f \in Fingerprint, Webhook(e, f)
  PROVE  IInv'
<1>1. PICK i \in Incident :
        /\ GoesTo(i, f)
        /\ UpsertIncident(i, f)
        /\ UpsertSignal(e, i, f)
        /\ IF ~Exists(i) /\ CanEnqueue
             THEN jobs' = jobs \cup {i} /\ recent' = recent \cup {i}
             ELSE UNCHANGED <<jobs, recent>>
  BY DEF Webhook
<1>2. Joins(e, f, i)
  BY <1>1 DEF Webhook, Joins
<1>3. /\ jobs \subseteq jobs'
      /\ jobs' \subseteq Incident
      /\ recent' \subseteq jobs'
      /\ \/ Exists(i)
         \/ i \in jobs'
         \/ ~CanEnqueue
  BY <1>1 DEF IInv, TypeOK
<1>4. TypeOK'
  BY <1>2, <1>3, JoinsType
<1>5. SilentForAReason'
  BY <1>2, <1>3, JoinsReason
<1> QED BY <1>2, <1>4, <1>5, JoinsKeeps DEF IInv

LEMMA PollStep ==
  ASSUME IInv, NEW e \in Event, NEW f \in Fingerprint, Poll(e, f)
  PROVE  IInv'
<1>1. PICK i \in Incident :
        /\ GoesTo(i, f)
        /\ UpsertIncident(i, f)
        /\ UpsertSignal(e, i, f)
  BY DEF Poll
<1>2. Joins(e, f, i)
  BY <1>1 DEF Poll, Joins
<1>3. /\ jobs \subseteq jobs'
      /\ jobs' \subseteq Incident
      /\ recent' \subseteq jobs'
      /\ <<e, f>> \in ByPoll
  BY DEF IInv, TypeOK, Poll
<1>4. TypeOK'
  BY <1>2, <1>3, JoinsType
<1>5. SilentForAReason'
  BY <1>2, <1>3, JoinsReason
<1> QED BY <1>2, <1>4, <1>5, JoinsKeeps DEF IInv

\* The steps that leave the rows alone.
LEMMA RequestStep ==
  ASSUME IInv,
         UNCHANGED <<incidentVars, signalVars, changes, jobs, raced>>,
         \/ UNCHANGED <<requestVars, recent>>
         \/ \E i \in Incident : LeaveWindow(i)
         \/ \E r \in Responder, i \in Incident, s \in Requested : ReadStatus(r, i, s)
         \/ \E r \in Responder : FailUpdate(r)
  PROVE  IInv'
<1> USE DEF IInv
<1>1. /\ print' = print /\ status' = status /\ stamped' = stamped
      /\ signalOf' = signalOf /\ signalPrint' = signalPrint /\ received' = received
      /\ changes' = changes /\ jobs' = jobs /\ raced' = raced
  BY DEF incidentVars, signalVars
<1>2. TypeOK' /\ TargetInv'
  <2> USE <1>1, IngestionAssumption DEF TypeOK, TargetInv, Exists
  <2>1. CASE UNCHANGED <<requestVars, recent>>
    BY <2>1 DEF requestVars
  <2>2. ASSUME NEW i \in Incident, LeaveWindow(i)
        PROVE  TypeOK' /\ TargetInv'
    BY <2>2 DEF LeaveWindow, requestVars
  <2>3. ASSUME NEW r \in Responder, NEW i \in Incident, NEW s \in Requested,
               ReadStatus(r, i, s)
        PROVE  TypeOK' /\ TargetInv'
    BY <2>3 DEF ReadStatus
  <2>4. ASSUME NEW r \in Responder, FailUpdate(r)
        PROVE  TypeOK' /\ TargetInv'
    BY <2>4 DEF FailUpdate, EndRequest, Status
  <2> QED BY <2>1, <2>2, <2>3, <2>4
<1>3. AbsentInv' /\ ResolvedAtMatchesStatus' /\ OneOpenIncident'
  BY <1>1 DEF AbsentInv, ResolvedAtMatchesStatus, OneOpenIncident, Exists
<1>4. SignalReceivedOnce' /\ TimelineReplays' /\ SilentForAReason'
  BY <1>1 DEF SignalReceivedOnce, TimelineReplays, SilentForAReason, Exists
<1> QED BY <1>2, <1>3, <1>4

\* The timeline after one more entry, or none where the status stays.
LEMMA TimelineStep ==
  ASSUME IInv, NEW r \in Responder, ApplyStatus(r)
  PROVE  TimelineReplays'
<1> DEFINE i == target[r]
<1> USE DEF IInv, TypeOK
<1>1. i \in Incident
  BY DEF ApplyStatus
<1> SUFFICES ASSUME NEW j \in Incident, j \notin raced'
             PROVE  LET c == changes'[j] IN
                    /\ \A k \in 1 .. Len(c) :
                         c[k][1] = (IF k = 1 THEN "triggered" ELSE c[k - 1][2])
                    /\ status'[j] = (IF c = <<>> THEN "triggered" ELSE c[Len(c)][2])
  BY DEF TimelineReplays
<1> DEFINE c == changes[j]
<1>2. j \notin raced
  BY DEF ApplyStatus
<1>3. /\ \A k \in 1 .. Len(c) : c[k][1] = (IF k = 1 THEN "triggered" ELSE c[k - 1][2])
      /\ status[j] = (IF c = <<>> THEN "triggered" ELSE c[Len(c)][2])
  BY <1>2 DEF TimelineReplays
<1>4. c \in Seq(Status \X Status)
  OBVIOUS
<1>5. CASE j # i
  <2>1. changes'[j] = c /\ status'[j] = status[j]
    BY <1>1, <1>5 DEF ApplyStatus
  <2> QED BY <1>3, <2>1
<1>6. CASE j = i
  <2>1. seen[r] = status[j]
    BY <1>6 DEF ApplyStatus
  <2>2. status'[j] = wanted[r]
    BY <1>1, <1>6 DEF ApplyStatus
  <2>3. CASE ~Logged(r)
    <3>1. changes'[j] = c /\ wanted[r] = status[j]
      BY <2>1, <2>3 DEF ApplyStatus, Logged
    <3> QED BY <1>3, <2>2, <3>1
  <2>4. CASE Logged(r)
    <3> DEFINE d == Append(c, <<seen[r], wanted[r]>>)
    <3>1. changes'[j] = d
      BY <1>1, <1>6, <2>4 DEF ApplyStatus
    <3>2. /\ Len(d) = Len(c) + 1
          /\ Len(c) \in Nat
          /\ \A k \in 1 .. Len(c) : d[k] = c[k]
          /\ d[Len(c) + 1] = <<seen[r], wanted[r]>>
      BY <1>4
    <3>3. c = <<>> <=> Len(c) = 0
      BY <1>4
    <3>4. \A k \in 1 .. Len(d) :
            d[k][1] = (IF k = 1 THEN "triggered" ELSE d[k - 1][2])
      <4> SUFFICES ASSUME NEW k \in 1 .. Len(d)
                   PROVE  d[k][1] = (IF k = 1 THEN "triggered" ELSE d[k - 1][2])
        OBVIOUS
      <4> HIDE DEF c, d
      <4>1. CASE k \in 1 .. Len(c)
        <5>1. k # 1 => k - 1 \in 1 .. Len(c)
          BY <3>2, <4>1
        <5>2. d[k] = c[k] /\ (k # 1 => d[k - 1] = c[k - 1])
          BY <3>2, <4>1, <5>1
        <5> QED BY <1>3, <4>1, <5>2
      <4>2. CASE k = Len(c) + 1
        <5>1. d[k][1] = status[j]
          BY <2>1, <3>2, <4>2
        <5>2. CASE Len(c) = 0
          BY <1>3, <3>3, <4>2, <5>1, <5>2
        <5>3. CASE Len(c) # 0
          <6>1. k # 1 /\ k - 1 = Len(c) /\ Len(c) \in 1 .. Len(c)
            BY <3>2, <4>2, <5>3
          <6>2. d[k - 1] = c[Len(c)]
            BY <3>2, <6>1
          <6> QED BY <1>3, <3>3, <5>1, <5>3, <6>1, <6>2
        <5> QED BY <5>2, <5>3
      <4> QED BY <3>2, <4>1, <4>2
    <3>5. d # <<>> /\ d[Len(d)][2] = wanted[r]
      <4>1. d \in Seq(Status \X Status)
        BY <1>4
      <4> HIDE DEF c, d
      <4>2. d # <<>>
        BY <3>2, <4>1
      <4> QED BY <3>2, <4>2
    <3> QED BY <2>2, <3>1, <3>4, <3>5
  <2> QED BY <2>3, <2>4
<1> QED BY <1>5, <1>6

LEMMA ApplyStep ==
  ASSUME IInv, NEW r \in Responder, ApplyStatus(r)
  PROVE  IInv'
<1> DEFINE i == target[r]
<1> USE DEF IInv
<1>1. i \in Incident /\ Exists(i)
  BY DEF ApplyStatus, TypeOK, TargetInv
<1>2. /\ status' = [status EXCEPT ![i] = wanted[r]]
      /\ stamped' = [stamped EXCEPT ![i] = NewStamp(r)]
      /\ print' = print
      /\ signalOf' = signalOf /\ signalPrint' = signalPrint /\ received' = received
      /\ jobs' = jobs /\ recent' = recent
      /\ ~Collides(r)
  BY DEF ApplyStatus, signalVars
<1>3. NewStamp(r) <=> wanted[r] = "resolved"
  BY <1>1 DEF NewStamp, ResolvedAtMatchesStatus, TypeOK
<1>4. NewStamp(r) \in BOOLEAN
  BY <1>1 DEF NewStamp, TypeOK
<1>5. changes' \in [Incident -> Seq(Status \X Status)]
  <2>1. <<seen[r], wanted[r]>> \in Status \X Status
    BY DEF TypeOK
  <2>2. Append(changes[i], <<seen[r], wanted[r]>>) \in Seq(Status \X Status)
    BY <1>1, <2>1 DEF TypeOK
  <2>3. changes' = changes \/ changes' = [changes EXCEPT ![i] = Append(@, <<seen[r], wanted[r]>>)]
    BY DEF ApplyStatus
  <2>4. changes \in [Incident -> Seq(Status \X Status)]
    BY DEF TypeOK
  <2> HIDE DEF IInv, i
  <2>5. [changes EXCEPT ![i] = Append(changes[i], <<seen[r], wanted[r]>>)]
          \in [Incident -> Seq(Status \X Status)]
    BY <1>1, <2>2, <2>4
  <2> QED BY <2>3, <2>4, <2>5
<1>6. /\ target' = [target EXCEPT ![r] = None]
      /\ wanted' = [wanted EXCEPT ![r] = "triggered"]
      /\ seen' = [seen EXCEPT ![r] = "triggered"]
      /\ raced' \subseteq Incident
  BY <1>1 DEF ApplyStatus, EndRequest, TypeOK
<1>7. TypeOK'
  BY <1>2, <1>4, <1>5, <1>6 DEF TypeOK, Status
<1>8. AbsentInv'
  BY <1>1, <1>2 DEF AbsentInv, Exists, TypeOK
<1>9. TargetInv'
  BY <1>2, <1>6 DEF TargetInv, Exists, TypeOK
<1>10. ResolvedAtMatchesStatus'
  BY <1>1, <1>2, <1>3, <1>4 DEF ResolvedAtMatchesStatus, TypeOK
<1>11. OneOpenIncident'
  <2>1. ~NewStamp(r) => \A j \in Incident : print[j] = print[i] /\ ~stamped[j] => j = i
    BY <1>2 DEF Collides, OpenIncidents
  <2> SUFFICES ASSUME NEW j \in Incident, NEW k \in Incident, Exists(j)',
                      print'[j] = print'[k], ~stamped'[j], ~stamped'[k]
               PROVE  j = k
    BY DEF OneOpenIncident
  <2>2. Exists(j) /\ print[j] = print[k]
    BY <1>2 DEF Exists
  <2>3. CASE j # i /\ k # i
    BY <1>2, <2>2, <2>3 DEF OneOpenIncident, TypeOK
  <2>4. CASE j = i /\ k # i
    BY <1>1, <1>2, <2>1, <2>2, <2>4 DEF TypeOK
  <2>5. CASE k = i /\ j # i
    BY <1>1, <1>2, <2>1, <2>2, <2>5 DEF TypeOK
  <2> QED BY <2>3, <2>4, <2>5
<1>12. SignalReceivedOnce' /\ SilentForAReason'
  BY <1>2 DEF SignalReceivedOnce, SilentForAReason, Exists
<1> QED BY <1>7, <1>8, <1>9, <1>10, <1>11, <1>12, TimelineStep

\* The inductive invariant holds in every reachable state.
THEOREM Invariance == Spec => []IInv
<1>1. Init => IInv
  BY InitIInv
<1>2. IInv /\ [Next]_vars => IInv'
  <2> SUFFICES ASSUME IInv, [Next]_vars
               PROVE  IInv'
    OBVIOUS
  <2>1. CASE UNCHANGED vars
    BY <2>1, RequestStep DEF vars
  <2>2. ASSUME NEW e \in Event, NEW f \in Fingerprint, Webhook(e, f) \/ Poll(e, f)
        PROVE  IInv'
    BY <2>2, WebhookStep, PollStep
  <2>3. ASSUME NEW i \in Incident, LeaveWindow(i)
        PROVE  IInv'
    BY <2>3, RequestStep DEF LeaveWindow
  <2>4. ASSUME NEW r \in Responder, NEW i \in Incident, NEW s \in Requested,
               ReadStatus(r, i, s)
        PROVE  IInv'
    BY <2>4, RequestStep DEF ReadStatus
  <2>5. ASSUME NEW r \in Responder, ApplyStatus(r)
        PROVE  IInv'
    BY <2>5, ApplyStep
  <2>6. ASSUME NEW r \in Responder, FailUpdate(r)
        PROVE  IInv'
    BY <2>6, RequestStep DEF FailUpdate
  <2> QED BY <2>1, <2>2, <2>3, <2>4, <2>5, <2>6 DEF Next
<1> QED BY <1>1, <1>2, PTL DEF Spec

\* Every variable keeps its type.
THEOREM TypeCorrect == Spec => []TypeOK
<1>1. IInv => TypeOK
  BY DEF IInv
<1> QED BY <1>1, Invariance, PTL

\* update_incident_status keeps status and resolved_at in step, however many
\* requests read the row at once.
THEOREM ResolvedAtFollows == Spec => []ResolvedAtMatchesStatus
<1>1. IInv => ResolvedAtMatchesStatus
  BY DEF IInv
<1> QED BY <1>1, Invariance, PTL

\* Webhooks, polls and reopened incidents never leave two open incidents for a
\* fingerprint.
THEOREM OneOpen == Spec => []OneOpenIncident
<1>1. IInv => OneOpenIncident
  BY DEF IInv
<1> QED BY <1>1, Invariance, PTL

\* A signal that is delivered again writes no second signal.received event.
THEOREM ReceivedOnce == Spec => []SignalReceivedOnce
<1>1. IInv => SignalReceivedOnce
  BY DEF IInv
<1> QED BY <1>1, Invariance, PTL

\* The events of an incident nobody changed concurrently tell its status.
THEOREM Replays == Spec => []TimelineReplays
<1>1. IInv => TimelineReplays
  BY DEF IInv
<1> QED BY <1>1, Invariance, PTL

\* The cap alone, or polling, keeps an incident from Slack.
THEOREM SilentOnlyForAReason == Spec => []SilentForAReason
<1>1. IInv => SilentForAReason
  BY DEF IInv
<1> QED BY <1>1, Invariance, PTL

\* What a signal does in one step.
LEMMA SignalStep ==
  ASSUME NEW e \in Event, NEW f \in Fingerprint, Webhook(e, f) \/ Poll(e, f)
  PROVE  \E i \in Incident : Joins(e, f, i)
BY DEF Webhook, Poll, Joins

\* No signal moves the status of an incident or its resolved_at.
THEOREM SignalsLeaveStatus == Spec => OnlyRespondersMoveStatus
<1> DEFINE A == requestVars' = requestVars =>
                  \A i \in Incident : status'[i] = status[i] /\ stamped'[i] = stamped[i]
<1>1. IInv /\ [Next]_vars => [A]_vars
  <2> SUFFICES ASSUME IInv, Next
               PROVE  A
    BY DEF vars, incidentVars
  <2>1. ASSUME NEW e \in Event, NEW f \in Fingerprint, Webhook(e, f) \/ Poll(e, f)
        PROVE  A
    <3>1. PICK i \in Incident : Joins(e, f, i)
      BY <2>1, SignalStep
    <3> QED BY <3>1, JoinsOpen
  <2>2. ASSUME NEW r \in Responder, ApplyStatus(r)
        PROVE  target' # target
    <3>1. target[r] # None /\ target' = [target EXCEPT ![r] = None]
      BY <2>2 DEF ApplyStatus, EndRequest
    <3> QED BY <3>1 DEF IInv, TypeOK
  <2>3. ASSUME UNCHANGED <<status, stamped>>
        PROVE  A
    BY <2>3
  <2> QED
    BY <2>1, <2>2, <2>3
       DEF Next, LeaveWindow, ReadStatus, FailUpdate, incidentVars, requestVars
<1> QED BY <1>1, Invariance, PTL DEF Spec, OnlyRespondersMoveStatus

-----------------------------------------------------------------------------
(***************************************************************************)
(* One event of PostHog, two payloads: what PosthogSignals computes.       *)
(***************************************************************************)

\* A payload that has the first path is read there.
LEMMA FirstPath ==
  ASSUME NEW payload, NEW paths, NEW default, 1 \in DOMAIN paths, DOMAIN paths \subseteq Nat \ {0},
         paths[1] \in DOMAIN payload
  PROVE  First(payload, paths, default) = payload[paths[1]]
<1> DEFINE found == {k \in DOMAIN paths : paths[k] \in DOMAIN payload}
<1>1. 1 \in found /\ \A k \in found : 1 <= k /\ k \in Nat
  OBVIOUS
<1> HIDE DEF found
<1>2. Min(found) \in found /\ \A k \in found : Min(found) <= k
  BY <1>1 DEF Min
<1>3. Min(found) = 1
  BY <1>1, <1>2
<1> QED BY <1>1, <1>3 DEF First, found

LEMMA UuidFirst ==
  ASSUME NEW payload, "uuid" \in DOMAIN payload
  PROVE  SourceEventId(payload) = payload["uuid"]
<1>1. /\ SourceIdPaths[1] = "uuid" /\ 1 \in DOMAIN SourceIdPaths
      /\ DOMAIN SourceIdPaths \subseteq Nat \ {0}
  BY DEF SourceIdPaths
<1> QED BY <1>1, FirstPath DEF SourceEventId

\* Both ways keep the uuid of an event as it is and know the signal by it.
LEMMA SameSourceId ==
  ASSUME "uuid" \in Template, NEW o \in Occurrence
  PROVE  WebhookIdentity(Sent(o))[1] = PollIdentity(o)[1]
<1> DEFINE fields == o.fields  sent == Sent(o).fields
<1>1. "uuid" \in DOMAIN fields
  BY OccurrenceAssumption
<1>2. sent = [path \in DOMAIN fields \cap Template |-> fields[path]]
  BY OccurrenceAssumption DEF Sent
<1> HIDE DEF fields, sent
<1>3. "uuid" \in DOMAIN sent /\ sent["uuid"] = fields["uuid"]
  BY <1>1, <1>2
<1>4. ASSUME NEW v
      PROVE  Sanitize("uuid", v) = Raw(v)
  BY DEF Sanitize, UrlLike, Sensitive
<1>5. /\ "uuid" \in DOMAIN SanitizeWebhookPayload(sent)
      /\ SanitizeWebhookPayload(sent)["uuid"] = Raw(fields["uuid"])
  BY <1>3, <1>4 DEF SanitizeWebhookPayload
<1>6. /\ "uuid" \in DOMAIN RowToPayload(fields)
      /\ RowToPayload(fields)["uuid"] = Raw(fields["uuid"])
  BY <1>4 DEF RowToPayload
<1>7. WebhookIdentity(Sent(o))[1] = Raw(fields["uuid"])
  BY <1>5, UuidFirst DEF WebhookIdentity, sent
<1>8. PollIdentity(o)[1] = Raw(fields["uuid"])
  BY <1>6, UuidFirst DEF PollIdentity, fields
<1> QED BY <1>7, <1>8

\* An event that arrives by webhook and by polling is one signal and is announced
\* once (normalize_signal of both files): if the destination sends the uuid, both
\* payloads lead to the same source_event_id, and a signal is received once.
THEOREM OneSignal == Spec => []OneSignalPerOccurrence
<1>1. ASSUME IInv, "uuid" \in Template, NEW o \in Occurrence, Selected(o),
             NEW ids, ids = {EventOf[WebhookIdentity(Sent(o))[1]], EventOf[PollIdentity(o)[1]]}
      PROVE  LET known == {e \in ids : signalOf[e] # None}
             IN  Cardinality(known) <= 1 /\ \A e \in known : received[e] = 1
  <2> DEFINE id == EventOf[PollIdentity(o)[1]]
             known == {e \in ids : signalOf[e] # None}
  <2>1. id \in Event
    <3> DEFINE D == {x[1] : x \in Delivered \cup Polled}
    <3>1. EventOf \in Injection(D, Event)
      BY OccurrenceAssumption DEF EventOf
    <3>2. EventOf \in [D -> Event]
      BY <3>1 DEF Injection
    <3>3. PollIdentity(o) \in Polled
      BY <1>1 DEF Polled
    <3>4. PollIdentity(o)[1] \in D
      BY <3>3
    <3> HIDE DEF D
    <3> QED BY <3>2, <3>4
  <2>2. ids = {id}
    BY <1>1, SameSourceId
  <2> HIDE DEF id
  <2>3. known = {} \/ known = {id}
    BY <2>2
  <2>4. Cardinality(known) <= 1
    <3>1. Cardinality({}) = 0 /\ Cardinality({id}) = 1
      BY FS_EmptySet, FS_Singleton
    <3> HIDE DEF known
    <3> QED BY <2>3, <3>1
  <2>5. \A e \in known : received[e] = 1
    BY <1>1, <2>1, <2>2 DEF IInv, SignalReceivedOnce
  <2> QED BY <2>4, <2>5
<1>2. IInv => OneSignalPerOccurrence
  BY <1>1 DEF OneSignalPerOccurrence, SignalIds
<1> QED BY <1>2, Invariance, PTL
=============================================================================
