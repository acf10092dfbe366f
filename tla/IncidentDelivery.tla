-------------------------- MODULE IncidentDelivery --------------------------
(***************************************************************************)
(* The PostgreSQL-backed queue incident_delivery_jobs and the bella-worker *)
(* replicas that consume it (crates/worker/src/incident_delivery.rs), for  *)
(* the jobs of one organization.                                           *)
(*                                                                         *)
(* A worker polls: it claims a batch of due jobs in one transaction and    *)
(* then takes them one at a time through load incident, load Slack target, *)
(* post, store the thread, mark delivered.  Every one of these is its own  *)
(* statement or HTTP call, so the steps of different workers interleave    *)
(* and a worker may die, or be overtaken by its own lease, between any two.*)
(*                                                                         *)
(* Jobs and incidents are in bijection: the dedupe key is the incident id. *)
(* Time is kept as countdowns (ticks until available, ticks of lease left) *)
(* instead of timestamps: availableIn[i] = 0 is available_at <= now(), and *)
(* leaseLeft[i] = 0 of a processing job is locked_at < now() - 10 minutes. *)
(***************************************************************************)
EXTENDS Naturals, FiniteSets

CONSTANTS
  Worker,        \* worker replicas
  Incident,      \* incidents, and with them jobs
  NoIncident,    \* not an incident
  MaxAttempts,   \* MAX_ATTEMPTS, 5 in the code
  ClaimLimit,    \* CLAIM_LIMIT, 10 in the code
  Lease,         \* ticks until a processing job may be claimed again
  BackoffUnit,   \* ticks of the first retry delay, 30 seconds in the code
  Budget         \* bound of the exploration: how often each fault may occur

\* crash: a worker dies, or an error of the claim, of mark_delivered or of
\*   reschedule_job ends its batch;
\* error: a statement of process_job fails and the worker lives on;
\* stall: a lease runs out while its holder is still working;
\* refusal: the token cannot be decrypted, or Slack refuses or never gets a post;
\* revocation: Slack answers that the token is revoked;
\* lost_reply: Slack accepts the message, the worker sees an error;
\* disconnect: the Slack installation or its delivery target stops being usable.
FaultKind == {"crash", "error", "stall", "refusal", "revocation", "lost_reply",
              "disconnect"}

ASSUME ConstantsAssumption ==
  /\ IsFiniteSet(Worker)
  /\ NoIncident \notin Incident
  /\ MaxAttempts \in Nat \ {0}
  /\ ClaimLimit \in Nat \ {0}
  /\ Lease \in Nat \ {0}
  /\ BackoffUnit \in Nat
  /\ Budget \in [FaultKind -> Nat]

VARIABLES
  \* the rows of incident_delivery_jobs
  status, attempts, availableIn, leaseLeft,
  \* incidents.slack_thread_ts (0 is null), and whether an installation with
  \* status connected has a delivery target with status active
  thread, connected,
  \* root messages in the Slack channel; the k-th one for i has ts k
  posts,
  \* the worker processes: program point, job being processed, for every job
  \* of the batch the attempts the claim returned (0 when not in the batch),
  \* and the ts Slack returned
  pc, current, claim, receipt,
  \* history: faults spent, accepted messages nobody recorded, errors that kept
  \* a worker from knowing of a thread that is stored, claims of a job some
  \* worker still held, and claims of a job whose lease had run out
  faults, lost, hidden, overtakes, reclaims

jobVars    == <<status, attempts, availableIn, leaseLeft>>
workerVars == <<pc, current, claim, receipt>>
history    == <<lost, hidden, overtakes, reclaims>>
vars       == <<jobVars, thread, connected, posts, workerVars, faults, history>>

Status == {"absent", "pending", "processing", "delivered", "failed"}
Point  == {"idle", "load_target", "post", "needs_attention", "store_thread",
           "mark_delivered", "reschedule"}

NoClaim == [i \in Incident |-> 0]

TypeOK ==
  /\ status \in [Incident -> Status]
  /\ attempts \in [Incident -> Nat]
  /\ availableIn \in [Incident -> Nat]
  /\ leaseLeft \in [Incident -> Nat]
  /\ thread \in [Incident -> Nat]
  /\ connected \in BOOLEAN
  /\ posts \in [Incident -> Nat]
  /\ pc \in [Worker -> Point]
  /\ current \in [Worker -> Incident \cup {NoIncident}]
  /\ claim \in [Worker -> [Incident -> Nat]]
  /\ receipt \in [Worker -> Nat]
  /\ faults \in [FaultKind -> Nat]
  /\ lost \in [Incident -> Nat]
  /\ hidden \in [Incident -> Nat]
  /\ overtakes \in [Incident -> Nat]
  /\ reclaims \in [Incident -> Nat]

Init ==
  /\ status = [i \in Incident |-> "absent"]
  /\ attempts = [i \in Incident |-> 0]
  /\ availableIn = [i \in Incident |-> 0]
  /\ leaseLeft = [i \in Incident |-> 0]
  /\ thread = [i \in Incident |-> 0]
  /\ connected = TRUE
  /\ posts = [i \in Incident |-> 0]
  /\ pc = [w \in Worker |-> "idle"]
  /\ current = [w \in Worker |-> NoIncident]
  /\ claim = [w \in Worker |-> NoClaim]
  /\ receipt = [w \in Worker |-> 0]
  /\ faults = [k \in FaultKind |-> 0]
  /\ lost = [i \in Incident |-> 0]
  /\ hidden = [i \in Incident |-> 0]
  /\ overtakes = [i \in Incident |-> 0]
  /\ reclaims = [i \in Incident |-> 0]

Spend(kind) ==
  /\ faults[kind] < Budget[kind]
  /\ faults' = [faults EXCEPT ![kind] = @ + 1]

(***************************************************************************)
(* Producers and the environment.                                          *)
(***************************************************************************)

\* The webhook's transaction commits a new incident and its job together.
Enqueue(i) ==
  /\ status[i] = "absent"
  /\ status' = [status EXCEPT ![i] = "pending"]
  /\ UNCHANGED <<attempts, availableIn, leaseLeft, thread, connected, posts,
                 workerVars, faults, history>>

\* No connected installation with an active target is left, or one is back.
Disconnect ==
  /\ connected
  /\ connected' = FALSE
  /\ Spend("disconnect")
  /\ UNCHANGED <<jobVars, thread, posts, workerVars, history>>

Reconnect ==
  /\ ~connected
  /\ connected' = TRUE
  /\ UNCHANGED <<jobVars, thread, posts, workerVars, faults, history>>

Decrement(n) == IF n = 0 THEN 0 ELSE n - 1

\* The jobs whose lease ends with the next tick under their present holder.
Expiring == {i \in Incident : /\ status[i] = "processing"
                              /\ leaseLeft[i] = 1
                              /\ \E w \in Worker : claim[w][i] = attempts[i]}

Tick ==
  /\ \E i \in Incident : availableIn[i] # 0 \/ leaseLeft[i] # 0
  /\ availableIn' = [i \in Incident |-> Decrement(availableIn[i])]
  /\ leaseLeft' = [i \in Incident |-> Decrement(leaseLeft[i])]
  /\ IF Expiring = {} THEN UNCHANGED faults ELSE Spend("stall")
  /\ UNCHANGED <<status, attempts, thread, connected, posts, workerVars, history>>

(***************************************************************************)
(* The worker.                                                             *)
(***************************************************************************)

(***************************************************************************)
(* The conditions the worker's queries are built from.  Before some stand  *)
(* variants with a plausible mistake, which the specification does not use.*)
(***************************************************************************)

\* slack_thread_ts is set, as load_incident reads it.
NeverAnnounced(i) == FALSE
Announced(i) == thread[i] # 0

\* where ... and slack_thread_ts is null, of the update that stores the thread.
ThreadUnset(i) == thread[i] = 0

\* where ... and status = 'processing', of mark_delivered and reschedule_job.
\* They ask for nothing else: not whose claim it is.
RowUnguarded(i) == TRUE
RowMatches(i) == status[i] = "processing"

\* job.attempts >= MAX_ATTEMPTS, of the attempts the claim returned.
ExhaustedEarly(n) == n >= MaxAttempts - 1
ExhaustedLate(n)  == n > MaxAttempts
Exhausted(n) == n >= MaxAttempts

\* locked_at < now() - interval '10 minutes', of a job in processing.
StaleAtOnce(i) == status[i] = "processing"
NeverStale(i)  == FALSE
Stale(i) == status[i] = "processing" /\ leaseLeft[i] = 0

Due(i) == (status[i] = "pending" /\ availableIn[i] = 0) \/ Stale(i)

Held(i) == \E w \in Worker : claim[w][i] # 0

\* claim_due_jobs.  Rows locked by another transaction are skipped, so a claim
\* may take fewer than there are.  Which of the due jobs come first is left
\* open here; in the code it is those with the smallest available_at.
ClaimDueJobs(w) ==
  /\ pc[w] = "idle"
  /\ claim[w] = NoClaim
  /\ \E S \in SUBSET {i \in Incident : Due(i)} :
       /\ S # {}
       /\ Cardinality(S) <= ClaimLimit
       /\ status' = [i \in Incident |-> IF i \in S THEN "processing" ELSE status[i]]
       /\ attempts' = [i \in Incident |-> IF i \in S THEN attempts[i] + 1 ELSE attempts[i]]
       /\ leaseLeft' = [i \in Incident |-> IF i \in S THEN Lease ELSE leaseLeft[i]]
       /\ claim' = [claim EXCEPT ![w] =
                      [i \in Incident |-> IF i \in S THEN attempts[i] + 1 ELSE 0]]
       /\ overtakes' = [i \in Incident |->
                          IF i \in S /\ Held(i) THEN overtakes[i] + 1 ELSE overtakes[i]]
       /\ reclaims' = [i \in Incident |->
                         IF i \in S /\ Stale(i) THEN reclaims[i] + 1 ELSE reclaims[i]]
  /\ UNCHANGED <<availableIn, thread, connected, posts, pc, current, receipt, faults,
                 lost, hidden>>

\* An error of process_job for job i, which process_due answers by
\* reschedule_job.  When the thread of i is stored, the worker will not know.
ProcessJobErrs(w, i) ==
  /\ Spend("error")
  /\ pc' = [pc EXCEPT ![w] = "reschedule"]
  /\ hidden' = [hidden EXCEPT ![i] = IF thread'[i] # 0 THEN @ + 1 ELSE @]

\* The next job of the batch: an incident that already has its thread needs
\* no message.  When the incident cannot be read, the attempt has failed, with
\* or without a thread.
LoadIncident(w) ==
  /\ pc[w] = "idle"
  /\ UNCHANGED <<jobVars, thread, connected, posts, claim, receipt,
                 lost, overtakes, reclaims>>
  /\ \E i \in Incident :
       /\ claim[w][i] # 0
       /\ current' = [current EXCEPT ![w] = i]
       /\ \/ /\ pc' = [pc EXCEPT ![w] = IF Announced(i) THEN "mark_delivered"
                                                       ELSE "load_target"]
             /\ UNCHANGED <<faults, hidden>>
          \/ ProcessJobErrs(w, i)

\* Select the target, decrypt the bot token.  Without a target, when it cannot
\* be read, or with a token that cannot be decrypted, the attempt has failed.
LoadTarget(w) ==
  /\ pc[w] = "load_target"
  /\ UNCHANGED <<jobVars, thread, connected, posts, current, claim, receipt,
                 lost, overtakes, reclaims>>
  /\ \/ /\ connected
        /\ pc' = [pc EXCEPT ![w] = "post"]
        /\ UNCHANGED <<faults, hidden>>
     \/ /\ ~connected
        /\ pc' = [pc EXCEPT ![w] = "reschedule"]
        /\ UNCHANGED <<faults, hidden>>
     \/ /\ connected
        /\ pc' = [pc EXCEPT ![w] = "reschedule"]
        /\ Spend("refusal")
        /\ UNCHANGED hidden
     \/ ProcessJobErrs(w, current[w])

\* chat.postMessage returned a ts.
PostAccepted(w) ==
  /\ pc[w] = "post"
  /\ posts' = [posts EXCEPT ![current[w]] = @ + 1]
  /\ receipt' = [receipt EXCEPT ![w] = posts[current[w]] + 1]
  /\ pc' = [pc EXCEPT ![w] = "store_thread"]
  /\ UNCHANGED <<jobVars, thread, connected, current, claim, faults, history>>

\* Slack accepted the message, but the reply timed out, broke off, or came
\* back as an error status or an unreadable body.
PostReplyLost(w) ==
  /\ pc[w] = "post"
  /\ Spend("lost_reply")
  /\ posts' = [posts EXCEPT ![current[w]] = @ + 1]
  /\ lost' = [lost EXCEPT ![current[w]] = @ + 1]
  /\ pc' = [pc EXCEPT ![w] = "reschedule"]
  /\ UNCHANGED <<jobVars, thread, connected, current, claim, receipt,
                 hidden, overtakes, reclaims>>

\* No message: unavailable, rate limited, archived, rejected; or the token
\* is revoked, which is reported on the installation first.
PostRefused(w) ==
  /\ pc[w] = "post"
  /\ \/ Spend("refusal") /\ pc' = [pc EXCEPT ![w] = "reschedule"]
     \/ Spend("revocation") /\ pc' = [pc EXCEPT ![w] = "needs_attention"]
  /\ UNCHANGED <<jobVars, thread, connected, posts, current, claim, receipt, history>>

\* An error of this update takes the place of Slack's; the job is rescheduled
\* all the same.
MarkNeedsAttention(w) ==
  /\ pc[w] = "needs_attention"
  /\ UNCHANGED <<jobVars, thread, posts, current, claim, receipt,
                 lost, overtakes, reclaims>>
  /\ \/ /\ connected' = FALSE
        /\ pc' = [pc EXCEPT ![w] = "reschedule"]
        /\ UNCHANGED <<faults, hidden>>
     \/ /\ ProcessJobErrs(w, current[w])
        /\ UNCHANGED connected

\* update incidents ... where slack_thread_ts is null; no row is an error.
ThreadUpdated(w) ==
  /\ IF ThreadUnset(current[w])
       THEN /\ thread' = [thread EXCEPT ![current[w]] = receipt[w]]
            /\ pc' = [pc EXCEPT ![w] = "mark_delivered"]
       ELSE /\ pc' = [pc EXCEPT ![w] = "reschedule"]
            /\ UNCHANGED thread
  /\ UNCHANGED <<faults, lost, hidden>>

\* The update fails: it has committed and its answer is lost, or it has not,
\* and the ts is lost with it.
ThreadUpdateErrs(w) ==
  /\ \/ /\ ThreadUnset(current[w])
        /\ thread' = [thread EXCEPT ![current[w]] = receipt[w]]
        /\ UNCHANGED lost
     \/ /\ lost' = [lost EXCEPT ![current[w]] = @ + 1]
        /\ UNCHANGED thread
  /\ ProcessJobErrs(w, current[w])

StoreThread(w) ==
  /\ pc[w] = "store_thread"
  /\ ThreadUpdated(w) \/ ThreadUpdateErrs(w)
  /\ receipt' = [receipt EXCEPT ![w] = 0]
  /\ UNCHANGED <<jobVars, connected, posts, current, claim, overtakes, reclaims>>

Finish(w) ==
  /\ pc' = [pc EXCEPT ![w] = "idle"]
  /\ current' = [current EXCEPT ![w] = NoIncident]
  /\ claim' = [claim EXCEPT ![w][current[w]] = 0]
  /\ UNCHANGED receipt

MarkDelivered(w) ==
  LET i == current[w] IN
  /\ pc[w] = "mark_delivered"
  /\ IF RowMatches(i)
       THEN /\ status' = [status EXCEPT ![i] = "delivered"]
            /\ leaseLeft' = [leaseLeft EXCEPT ![i] = 0]
       ELSE UNCHANGED <<status, leaseLeft>>
  /\ Finish(w)
  /\ UNCHANGED <<attempts, availableIn, thread, connected, posts, faults, history>>

\* 2 ^ min(attempts - 1, 5)
Doubling(n) == <<1, 2, 4, 8, 16, 32>>[IF n < 6 THEN n ELSE 6]

RetryDelay(n) == BackoffUnit * Doubling(n)

RescheduleJob(w) ==
  LET i == current[w]
      n == claim[w][i]
  IN
  /\ pc[w] = "reschedule"
  /\ IF RowMatches(i)
       THEN /\ leaseLeft' = [leaseLeft EXCEPT ![i] = 0]
            /\ \/ /\ Exhausted(n)
                  /\ status' = [status EXCEPT ![i] = "failed"]
                  /\ UNCHANGED availableIn
               \/ /\ ~Exhausted(n)
                  /\ status' = [status EXCEPT ![i] = "pending"]
                  /\ availableIn' = [availableIn EXCEPT ![i] = RetryDelay(n)]
       ELSE UNCHANGED <<status, availableIn, leaseLeft>>
  /\ Finish(w)
  /\ UNCHANGED <<attempts, thread, connected, posts, faults, history>>

\* The process dies and is restarted, or an error of claim_due_jobs,
\* mark_delivered or reschedule_job returns from process_due: the rest of the
\* batch stays claimed with nobody working on it.
Crash(w) ==
  /\ claim[w] # NoClaim
  /\ Spend("crash")
  /\ pc' = [pc EXCEPT ![w] = "idle"]
  /\ current' = [current EXCEPT ![w] = NoIncident]
  /\ claim' = [claim EXCEPT ![w] = NoClaim]
  /\ receipt' = [receipt EXCEPT ![w] = 0]
  /\ lost' = IF pc[w] = "store_thread"
               THEN [lost EXCEPT ![current[w]] = @ + 1]
               ELSE lost
  /\ UNCHANGED <<jobVars, thread, connected, posts, hidden, overtakes, reclaims>>

-----------------------------------------------------------------------------

Step(w) ==
  \/ ClaimDueJobs(w)
  \/ LoadIncident(w)
  \/ LoadTarget(w)
  \/ PostAccepted(w)
  \/ PostReplyLost(w)
  \/ PostRefused(w)
  \/ MarkNeedsAttention(w)
  \/ StoreThread(w)
  \/ MarkDelivered(w)
  \/ RescheduleJob(w)

Environment == Disconnect \/ Reconnect \/ Tick \/ \E i \in Incident : Enqueue(i)

Next == Environment \/ \E w \in Worker : Step(w) \/ Crash(w)

Spec == Init /\ [][Next]_vars

\* Workers keep polling and finish what they begin; time passes.  Nothing is
\* assumed of the producers, of Slack, of faults or of reconnection.
FairSpec == Spec /\ WF_vars(Tick) /\ \A w \in Worker : WF_vars(Step(w))

-----------------------------------------------------------------------------
(***************************************************************************)
(* Safety.                                                                 *)
(***************************************************************************)

\* A job is delivered only when its incident records a thread, and what it
\* records is a message Slack accepted: mark_delivered by an overtaken worker
\* must not settle a job whose message nobody stored.
DeliveredHasThread ==
  \A i \in Incident :
    /\ status[i] = "delivered" => thread[i] # 0
    /\ thread[i] <= posts[i]

\* What a worker remembers stays true while the rows move under it: the ts it
\* carries is a message of its job, its claim is one the job has seen, and it
\* marks delivered only what has a thread.
WorkerInv ==
  \A w \in Worker :
    /\ pc[w] = "idle" <=> current[w] = NoIncident
    /\ current[w] # NoIncident => claim[w][current[w]] # 0
    /\ pc[w] = "store_thread" => receipt[w] # 0 /\ receipt[w] <= posts[current[w]]
    /\ pc[w] = "mark_delivered" => thread[current[w]] # 0
    /\ \A i \in Incident :
         claim[w][i] # 0 => status[i] # "absent" /\ claim[w][i] <= attempts[i]

\* The retry policy gives up only after MAX_ATTEMPTS claims, also when the
\* worker that gives up was overtaken and counts from an old claim.
FailedMeansExhausted ==
  \A i \in Incident : status[i] = "failed" => attempts[i] >= MaxAttempts

\* "The stored thread timestamp prevents normal retries from creating another
\* root message": every root message after the first is paid for by a message
\* whose ts was lost or by a claim that overtook a worker still holding the job.
DuplicatesArePaidFor ==
  \A i \in Incident : posts[i] <= 1 + lost[i] + overtakes[i]

\* Attempts go beyond MAX_ATTEMPTS only by claims of stale leases: the claim
\* itself has no bound, the bound is kept by reschedule_job alone.
AttemptsArePaidFor ==
  \A i \in Incident : attempts[i] <= MaxAttempts + reclaims[i]

\* What an operator who finds a failed job may conclude, before resending it by
\* hand: without a thread its message is not in Slack, unless its ts was lost or
\* a worker was overtaken; and a job fails with its thread stored only after an
\* error hid the thread from its worker, or an overtaken worker gave up.
FailedIsAccountedFor ==
  \A i \in Incident : status[i] = "failed" =>
    /\ thread[i] = 0 /\ posts[i] > 0 => lost[i] + overtakes[i] > 0
    /\ thread[i] # 0 => hidden[i] + overtakes[i] > 0

\* Two workers hold the same job only once a lease has run out: SKIP LOCKED and
\* the status change of the claim keep replicas apart until then.
OverlapNeedsStall ==
  (\E i \in Incident : overtakes[i] > 0) => faults["stall"] > 0

\* The recorded thread is never replaced or erased, though several workers may
\* come to store one.
ThreadIsWrittenOnce ==
  [][\A i \in Incident : thread[i] # 0 => thread'[i] = thread[i]]_vars

\* Delivered and failed are final, whatever an overtaken worker still does.
SettledIsFinal ==
  [][\A i \in Incident :
       status[i] \in {"delivered", "failed"} => status'[i] = status[i]]_vars

(***************************************************************************)
(* Liveness.                                                               *)
(***************************************************************************)

\* "A job left in processing becomes claimable again": no crash, stall or
\* outage leaves a job open for ever.
EveryJobSettles ==
  \A i \in Incident :
    status[i] = "pending" ~> status[i] \in {"delivered", "failed"}

\* With fewer faults than MAX_ATTEMPTS the retries outlast the outage and the
\* incident gets its thread, even when a worker dies with it.  Its job need not end as
\* delivered: an overtaken worker that comes to store a second thread may be the
\* one that gives up.
EveryIncidentIsAnnounced ==
  \A i \in Incident : status[i] = "pending" ~> thread[i] # 0

(***************************************************************************)
(* The promise of delivery, RootMessage.                                   *)
(***************************************************************************)

request == [i \in Incident |->
              IF status[i] = "absent" THEN "unrequested"
              ELSE IF status[i] \in {"pending", "processing"} THEN "requested"
              ELSE status[i]]

Promise == INSTANCE RootMessage WITH messages <- posts

\* Every behaviour of the queue and its workers is one of the promise.
ImplementsRootMessage == Promise!Spec

(***************************************************************************)
(* Statements of apps/docs/architecture/incident-delivery.md that the code *)
(* does not keep.                                                          *)
(***************************************************************************)

\* l.166: with every worker alive and every lease respected, a retry does not
\* create another root message.
NormalRetriesDoNotDuplicate ==
  faults["crash"] = 0 /\ faults["stall"] = 0 => \A i \in Incident : posts[i] <= 1

\* l.85: the fifth attempt is the last.
LastAttemptIsFinal == \A i \in Incident : attempts[i] <= MaxAttempts

=============================================================================
