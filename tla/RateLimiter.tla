----------------------------- MODULE RateLimiter -----------------------------
(***************************************************************************)
(* The request guard of the API, check_rate_limit of api/src/security.rs:  *)
(* one transaction per request that forgets old hits of every key, takes   *)
(* the advisory lock of its own key, forgets the hits that left the key's  *)
(* window, adds a hit and counts.                                          *)
(*                                                                         *)
(* now() is the begin of a transaction, not the moment it has the lock:    *)
(* requests count in the order of their locks and with the clocks of their *)
(* begins.  Rows a transaction deleted stay locked until it ends, and      *)
(* PostgreSQL aborts a transaction of a cycle of waiting ones.             *)
(*                                                                         *)
(* rate_limit_policy gives a request its policy by method and path; one    *)
(* without a policy is not counted and not part of the model.              *)
(***************************************************************************)
EXTENDS Naturals, FiniteSets

CONSTANTS
  MaxRequests,   \* requests of a behaviour that a policy applies to (bound)
  Policies,      \* names of policies
  Clients,       \* client addresses, "unknown" among them
  Limit,         \* RateLimitPolicy.limit of each
  PolicyWindow,  \* RateLimitPolicy.window of each
  Retention,     \* interval '10 minutes'
  MaxWait,       \* longest time a request's transaction takes (bound)
  LastTime       \* end of time (bound)

ASSUME RateAssumption ==
  /\ Limit \in [Policies -> Nat \ {0}] /\ PolicyWindow \in [Policies -> Nat]
  /\ Retention \in Nat /\ MaxWait \in Nat /\ LastTime \in Nat
  /\ MaxRequests \in Nat \ {0}
  /\ \A i \in Policies : MaxWait <= PolicyWindow[i] /\ PolicyWindow[i] + MaxWait <= Retention
  /\ Policies # {} /\ Clients # {}

VARIABLES
  clock,
  req,           \* of each request: where it is, policy and client, begin of its transaction
  hit,           \* requests whose row of rate_limit_hits is committed
  doomed         \* rows each transaction deleted and has not committed

guardVars == <<clock, req, hit, doomed>>

Times == 0 .. LastTime
Requests == 1 .. MaxRequests    \* numbered in the order they begin

GuardInit ==
  /\ clock = 0
  /\ req = [q \in Requests |-> [at |-> "none", policy |-> CHOOSE i \in Policies : TRUE,
                            client |-> CHOOSE c \in Clients : TRUE, begin |-> 0]]
  /\ hit = {}
  /\ doomed = [q \in Requests |-> {}]

-----------------------------------------------------------------------------
At(q, at) == req[q].at = at
Goto(q, at) == req' = [req EXCEPT ![q].at = at]

\* "{policy}:{client}"
Key(q) == <<req[q].policy, req[q].client>>

\* A plausible mistake: a lock of the session outlives the transaction of a refused request.
KeepsLock(q) == req[q].at \in {"locked", "pruned", "within", "beyond", "refused"}

HoldsLock(q) == req[q].at \in {"locked", "pruned", "within", "beyond"}

\* A plausible mistake: no lock, or one of another key.
NeverWaits(q) == {}

LockHolders(q) == {x \in Requests \ {q} : HoldsLock(x) /\ Key(x) = Key(q)}

Checking(q) == req[q].at \in {"begun", "cleaned", "locked", "pruned", "within", "beyond"}
RowHolders(q, rows) == {x \in Requests \ {q} : doomed[x] \cap rows # {}}

\* hit_at < now() - interval '10 minutes'
Ancient(q) == {x \in hit : req[x].begin + Retention < req[q].begin}

\* A plausible mistake.
OutOfRetention(q) ==
  {x \in hit : Key(x) = Key(q) /\ req[x].begin + Retention < req[q].begin}

\* key = $1 and hit_at < now() - $2
Expired(q) ==
  {x \in hit : Key(x) = Key(q) /\ req[x].begin + PolicyWindow[req[q].policy] < req[q].begin}

WaitsFor(q) ==
  CASE At(q, "begun") -> RowHolders(q, Ancient(q))
    [] At(q, "cleaned") -> LockHolders(q)
    [] At(q, "locked") -> RowHolders(q, Expired(q))
    [] OTHER -> {}

\* A request that a policy applies to begins its transaction.
BeginCheck(q, policy, client) ==
  /\ At(q, "none") /\ \A x \in 1 .. q - 1 : ~At(x, "none")
  /\ req' = [req EXCEPT ![q] =
             [at |-> "begun", policy |-> policy, client |-> client, begin |-> clock]]
  /\ UNCHANGED <<clock, hit, doomed>>

DeleteAncient(q) ==
  /\ At(q, "begun") /\ WaitsFor(q) = {}
  /\ doomed' = [doomed EXCEPT ![q] = Ancient(q)]
  /\ Goto(q, "cleaned")
  /\ UNCHANGED <<clock, hit>>

\* pg_advisory_xact_lock
LockKey(q) ==
  /\ At(q, "cleaned") /\ WaitsFor(q) = {}
  /\ Goto(q, "locked")
  /\ UNCHANGED <<clock, hit, doomed>>

DeleteExpired(q) ==
  /\ At(q, "locked") /\ WaitsFor(q) = {}
  /\ doomed' = [doomed EXCEPT ![q] = @ \cup Expired(q)]
  /\ Goto(q, "pruned")
  /\ UNCHANGED <<clock, hit>>

\* Its own hit and those it sees: refused requests count.
Hits(q) == 1 + Cardinality({x \in hit \ doomed[q] : Key(x) = Key(q)})

Admits(q) == Hits(q) <= Limit[req[q].policy]

\* The insert, which no one else sees yet, and the count.
CountHits(q) ==
  /\ At(q, "pruned")
  /\ Goto(q, IF Admits(q) THEN "within" ELSE "beyond")
  /\ UNCHANGED <<clock, hit, doomed>>

\* The commit frees the lock.
CommitHit(q) ==
  /\ \/ At(q, "within") /\ Goto(q, "admitted")
     \/ At(q, "beyond") /\ Goto(q, "refused")
  /\ hit' = (hit \ doomed[q]) \cup {q}
  /\ doomed' = [doomed EXCEPT ![q] = {}]
  /\ UNCHANGED clock

\* The guard answers "request guard failed".
RollBack(q) ==
  /\ Goto(q, "failed")
  /\ doomed' = [doomed EXCEPT ![q] = {}]
  /\ UNCHANGED <<clock, hit>>

Fail(q) == Checking(q) /\ RollBack(q)

\* PostgreSQL finds a set of transactions that wait for each other.
DeadlockDetected(q) ==
  /\ WaitsFor(q) # {}
  /\ \E D \in SUBSET {x \in Requests : WaitsFor(x) # {}} :
       q \in D /\ \A x \in D : WaitsFor(x) \cap D # {}
  /\ RollBack(q)

\* Time passes while no request waits for others longer than MaxWait, and is
\* counted from the first request.
ClockTick ==
  /\ ~At(1, "none")
  /\ clock < LastTime /\ clock' = clock + 1
  /\ \A q \in Requests : Checking(q) => clock < req[q].begin + MaxWait
  /\ UNCHANGED <<req, hit, doomed>>

Work(q) ==
  \/ DeleteAncient(q) \/ LockKey(q) \/ DeleteExpired(q) \/ CountHits(q)
  \/ CommitHit(q) \/ DeadlockDetected(q)

GuardNext ==
  \/ \E q \in Requests :
       Work(q) \/ Fail(q) \/ (\E i \in Policies, c \in Clients : BeginCheck(q, i, c))
  \/ ClockTick

\* A statement that can run is run in the end, and a cycle of waiting
\* transactions is found.  A request that others overtake is not overtaken for
\* ever: a behaviour has finitely many.
Fairness == \A q \in Requests : WF_guardVars(Work(q))

GuardSpec == GuardInit /\ [][GuardNext]_guardVars /\ Fairness

-----------------------------------------------------------------------------
(* Properties                                                              *)

GuardTypeOK ==
  /\ clock \in Times /\ hit \subseteq Requests
  /\ req \in [Requests -> [at : {"none", "begun", "cleaned", "locked", "pruned",
                                 "within", "beyond", "admitted", "refused", "failed"},
                           policy : Policies, client : Clients, begin : Times]]
  /\ doomed \in [Requests -> SUBSET hit]

\* No client has more requests admitted than the limit allows, in any interval as
\* long as the window less the time their transactions can take, although the
\* clocks of their transactions and the order of their counts disagree.
LimitHolds ==
  \A i \in Policies, c \in Clients, t \in Times :
    Cardinality({q \in Requests :
                   /\ At(q, "admitted") /\ Key(q) = <<i, c>>
                   /\ t <= req[q].begin /\ req[q].begin + MaxWait <= t + PolicyWindow[i]})
      <= Limit[i]

\* A request is refused only when its client made as many others as the limit
\* allows no longer than a window before it: requests of other clients and
\* forgotten ones are never held against it.
RefusalsAreDeserved ==
  \A q \in Requests :
    At(q, "refused") =>
      Cardinality({x \in Requests \ {q} :
                     /\ Key(x) = Key(q) /\ req[x].at \in {"admitted", "refused"}
                     /\ req[q].begin <= req[x].begin + PolicyWindow[req[q].policy]})
        >= Limit[req[q].policy]

\* Every request is answered, although the deletes of one key lock rows of all
\* others and two transactions can wait for each other.
RequestsAreAnswered ==
  \A q \in Requests : At(q, "begun") ~> req[q].at \in {"admitted", "refused", "failed"}
=============================================================================
