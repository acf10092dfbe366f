---------------------------- MODULE PosthogProofs ----------------------------
(***************************************************************************)
(* Proofs about how an organization is connected to PostHog and GitHub and *)
(* how PostHog is polled: Connections, for any requests, names and         *)
(* installations, and PosthogSync, for any syncs and events and any        *)
(* lengths of lag, overlap and interval.                                   *)
(***************************************************************************)
EXTENDS Connections, PosthogSync, FiniteSetTheorems, WellFoundedInduction, TLAPS

RowType ==
  [status : {"none", "connected", "disabled"}, type : Types, name : Names \cup Installations,
   secret : 0 .. MaxNumber, installation : Installations \cup {NoInstallation}]
HandlerType ==
  [at : {"idle", "select", "write", "commit"}, op : {"save", "rotate", "callback"},
   type : Types, number : 0 .. MaxNumber, target : 0 .. MaxNumber,
   name : Names \cup Installations, none : BOOLEAN,
   installation : Installations \cup {NoInstallation}]

\* A row that is not there is blank, and PostHog's are never disabled.
RowInv ==
  \A n \in Numbers :
    /\ row[n].status = "none" => row[n] = NoRow
    /\ row[n].type = "posthog" => row[n].status # "disabled"
    /\ n >= next => row[n].status = "none"

\* What a request has taken, selected and may insert.
HandlerInv ==
  \A p \in Handlers :
    /\ h[p].at \in {"idle", "select"} => h[p].target = 0 /\ ~h[p].none
    /\ h[p].at # "idle" /\ h[p].type = "posthog" => h[p].number \in 1 .. next - 1
    /\ h[p].type = "github" => h[p].installation \in Installations
    /\ h[p].at = "commit" => h[p].type = "posthog"
    /\ h[p].at = "write" => (h[p].none <=> h[p].target = 0)
    /\ h[p].at = "commit" /\ h[p].none => h[p].target = h[p].number
    /\ h[p].at = "commit" /\ ~h[p].none => h[p].target # 0 /\ Exists(h[p].target)
    /\ h[p].target # 0 =>
         /\ h[p].target < next
         /\ Exists(h[p].target) => row[h[p].target].type = h[p].type

\* The number of a request is its own, and its row is not there before it commits.
NumberInv ==
  \A p \in Handlers : h[p].at # "idle" /\ h[p].type = "posthog" =>
    /\ \A q \in Handlers \ {p} :
         /\ h[q].target # h[p].number
         /\ h[q].at # "idle" /\ h[q].type = "posthog" => h[q].number # h[p].number
    /\ ~Exists(h[p].number)

\* An insertion that meets another, or a row, has crossed it.
CrossingInv ==
  /\ \A p \in Handlers : At(p, "commit") /\ h[p].none /\ RowsOf("posthog") # {} => crossed
  /\ \A p, q \in Handlers :
       p # q /\ At(p, "commit") /\ At(q, "commit") /\ h[p].none /\ h[q].none => crossed
  /\ \A m, n \in Numbers : m # n /\ Exists(m) /\ Exists(n) /\ row[m].type = row[n].type => crossed

SecretInv ==
  /\ lastSecret # 0 => \E n \in RowsOf("posthog") : row[n].secret = lastSecret
  /\ (\A m, n \in RowsOf("posthog") : m = n) =>
       \A n \in RowsOf("posthog") : row[n].secret \in {0, lastSecret}

IInv ==
  /\ TypeOK /\ RowInv /\ HandlerInv /\ NumberInv /\ CrossingInv /\ SecretInv
  /\ DisabledHasACause

-----------------------------------------------------------------------------
(* What a step changes                                                     *)

LEMMA MinOfNats ==
  ASSUME NEW S \in SUBSET Nat, S # {}
  PROVE  Min(S) \in S
<1> DEFINE R == OpToRel(<, Nat)
<1>1. IsWellFoundedOn(R, Nat)
  BY NatLessThanWellFounded
<1>2. \A x, y \in Nat : x < y => <<x, y>> \in R
  BY DEF OpToRel
<1> HIDE DEF R
<1>3. PICK x \in S : \A y \in S : ~(<<y, x>> \in R)
  BY <1>1, WFMin
<1>4. ASSUME NEW y \in S
      PROVE  x <= y
  <2>1. x \in Nat /\ y \in Nat
    OBVIOUS
  <2>2. ~(y < x)
    BY <1>2, <1>3, <2>1, Zenon
  <2> QED BY <2>1, <2>2
<1>5. \E z \in S : \A y \in S : z <= y
  BY <1>4, Zenon
<1> QED BY <1>5, Zenon DEF Min

LEMMA Blank ==
  /\ NoRow \in RowType /\ Idle \in HandlerType
  /\ NoRow.status = "none" /\ NoRow.type = "posthog" /\ NoRow.secret = 0
  /\ Idle.at = "idle" /\ Idle.type = "posthog" /\ Idle.target = 0 /\ Idle.none = FALSE
BY ConnectionsAssumption DEF NoRow, Idle, RowType, HandlerType, Types

Others(p) == \A q \in Handlers \ {p} : h'[q] = h[q]

\* An event of GitHub, or nothing.
Quiet == UNCHANGED <<next, row, h, lastSecret, crossed>> /\ sent \subseteq sent'

Ended(p) ==
  /\ h'[p] = Idle /\ Others(p)
  /\ UNCHANGED <<next, row, lastSecret, crossed, sent>>

\* SavePosthogSettings, RotatePosthogSecret
Begun(p) ==
  /\ h[p].at = "idle" /\ next \in Numbers /\ next' = next + 1
  /\ h'[p].at = "select" /\ h'[p].type = "posthog" /\ h'[p].number = next
  /\ h'[p].target = 0 /\ h'[p].none = FALSE
  /\ Others(p)
  /\ UNCHANGED <<row, lastSecret, crossed, sent>>

\* GithubCallback
Called(p) ==
  /\ h[p].at = "idle"
  /\ h'[p].at = "select" /\ h'[p].type = "github" /\ h'[p].target = 0 /\ h'[p].none = FALSE
  /\ h'[p].installation \in Installations
  /\ Others(p)
  /\ UNCHANGED <<next, row, lastSecret, crossed, sent>>

\* SelectOldest
Selected(p) ==
  /\ h[p].at = "select" /\ h'[p].at = "write"
  /\ h'[p].type = h[p].type /\ h'[p].number = h[p].number
  /\ h'[p].installation = h[p].installation
  /\ \/ RowsOf(h[p].type) = {} /\ h'[p].none = TRUE /\ h'[p].target = 0
     \/ h'[p].none = FALSE /\ h'[p].target \in RowsOf(h[p].type)
  /\ Others(p)
  /\ UNCHANGED <<next, row, lastSecret, crossed, sent>>

\* WritePosthog, where it goes on to commit
Written(p) ==
  /\ h[p].at = "write" /\ h[p].type = "posthog" /\ h'[p].at = "commit"
  /\ h'[p].type = "posthog" /\ h'[p].number = h[p].number /\ h'[p].none = h[p].none
  /\ \/ h[p].none /\ h'[p].target = h[p].number /\ crossed' = (crossed \/ Crossing(p))
     \/ /\ ~h[p].none /\ h'[p].target = h[p].target /\ Exists(h[p].target)
        /\ crossed' = crossed
  /\ Others(p)
  /\ UNCHANGED <<next, row, lastSecret, sent>>

\* CommitPosthog
Committed(p) ==
  LET t == h[p].target IN
  /\ h[p].at = "commit" /\ h'[p] = Idle
  /\ row'[t].status = "connected" /\ row'[t].type = row[t].type
  /\ \/ row'[t].secret = row[t].secret /\ lastSecret' = lastSecret
     \/ row'[t].secret = h[p].number /\ lastSecret' = h[p].number
  /\ \A n \in Numbers \ {t} : row'[n] = row[n]
  /\ Others(p)
  /\ UNCHANGED <<next, crossed, sent>>

\* WriteGithub, where it changes a row
Stored(p) ==
  \E n \in Numbers :
    /\ h[p].at = "write" /\ h[p].type = "github" /\ h'[p] = Idle
    /\ \/ h[p].none /\ n = next /\ next' = next + 1 /\ crossed' = (crossed \/ Crossing(p))
       \/ /\ ~h[p].none /\ n = h[p].target /\ Exists(n) /\ next' = next
          /\ crossed' = crossed
    /\ row'[n].status = "connected" /\ row'[n].type = "github"
    /\ \A m \in Numbers \ {n} : row'[m] = row[m]
    /\ Others(p)
    /\ UNCHANGED <<lastSecret, sent>>

\* DeletePosthog, Disconnect
Cleared(type) ==
  /\ \A n \in Numbers : row'[n] = IF n \in RowsOf(type) THEN NoRow ELSE row[n]
  /\ IF type = "posthog"
       THEN /\ lastSecret' = 0
            /\ \A q \in Handlers : At(q, "commit") => h[q].target \notin RowsOf("posthog")
       ELSE lastSecret' = lastSecret
  /\ UNCHANGED <<next, h, crossed, sent>>

\* Webhook
Marked(i, action) ==
  /\ <<i, action>> \in sent /\ i \in Installations
  /\ \A n \in Numbers :
       \/ row'[n] = row[n]
       \/ /\ n \in RowsOf("github") /\ row[n].installation = i
          /\ row'[n].installation = i /\ row'[n].type = "github"
          /\ row'[n].status = StatusOf(action)
  /\ UNCHANGED <<next, h, lastSecret, crossed, sent>>

LEMMA Effects ==
  ASSUME TypeOK, HandlerInv, [Next]_vars
  PROVE  \/ Quiet
         \/ \E p \in Handlers :
              \/ Ended(p) \/ Begun(p) \/ Called(p) \/ Selected(p) \/ Written(p) \/ Committed(p)
              \/ Stored(p)
         \/ \E type \in Types : Cleared(type)
         \/ \E i \in Installations, action \in {"suspend", "unsuspend", "deleted"} :
              Marked(i, action)
<1>0. /\ h \in [Handlers -> HandlerType] /\ row \in [Numbers -> RowType]
      /\ next \in 1 .. MaxNumber + 1 /\ MaxNumber \in Nat
  BY ConnectionsAssumption DEF TypeOK, HandlerType, RowType
<1>a. ASSUME NEW p \in Handlers, NEW v, h' = [h EXCEPT ![p] = v]
      PROVE  h'[p] = v /\ Others(p)
  BY <1>0, <1>a DEF Others
<1>1. ASSUME NEW p \in Handlers, NEW op, NEW name, Begin(p, op, name)
      PROVE  Begun(p)
  <2> DEFINE v == [Idle EXCEPT !.at = "select", !.op = op, !.number = next, !.name = name]
  <2>1. h' = [h EXCEPT ![p] = v]
    BY <1>1 DEF Begin
  <2>2. /\ v.at = "select" /\ v.type = "posthog" /\ v.number = next
        /\ v.target = 0 /\ v.none = FALSE
    BY DEF Idle
  <2> HIDE DEF v
  <2>3. next \in Numbers
    BY <1>0, <1>1 DEF Begin, Numbers
  <2> QED BY <1>a, <1>1, <2>1, <2>2, <2>3 DEF Begin, Begun, At
<1>2. ASSUME NEW p \in Handlers, NEW i \in Installations, GithubCallback(p, i)
      PROVE  Called(p)
  <2> DEFINE v == [Idle EXCEPT !.at = "select", !.op = "callback", !.type = "github",
                               !.name = i, !.installation = i]
  <2>1. h' = [h EXCEPT ![p] = v]
    BY <1>2 DEF GithubCallback
  <2>2. /\ v.at = "select" /\ v.type = "github" /\ v.target = 0 /\ v.none = FALSE
        /\ v.installation = i
    BY DEF Idle
  <2> HIDE DEF v
  <2> QED BY <1>a, <1>2, <2>1, <2>2 DEF GithubCallback, Called, At
<1>3. ASSUME NEW p \in Handlers, SelectOldest(p)
      PROVE  Selected(p)
  <2> DEFINE none == RowsOf(h[p].type) = {}
             t == IF Candidates(p) = {} THEN 0 ELSE Min(Candidates(p))
             v == [h[p] EXCEPT !.at = "write", !.none = none, !.target = t]
  <2>1. h' = [h EXCEPT ![p] = v]
    BY <1>0, <1>3 DEF SelectOldest
  <2>2. /\ v.at = "write" /\ v.type = h[p].type /\ v.number = h[p].number
        /\ v.none = none /\ v.target = t /\ v.installation = h[p].installation
    <3> HIDE DEF none, t
    <3> QED BY <1>0 DEF HandlerType
  <2>3. \/ RowsOf(h[p].type) = {} /\ none = TRUE /\ t = 0
        \/ none = FALSE /\ t \in RowsOf(h[p].type)
    <3>1. Candidates(p) = RowsOf(h[p].type) /\ RowsOf(h[p].type) \in SUBSET Nat
      BY DEF Candidates, RowsOf, Numbers
    <3> QED BY <3>1, MinOfNats
  <2> HIDE DEF v, none, t
  <2> QED BY <1>a, <1>3, <2>1, <2>2, <2>3 DEF SelectOldest, Selected, At
<1>4. ASSUME NEW p \in Handlers, WritePosthog(p)
      PROVE  Ended(p) \/ Written(p)
  <2> DEFINE t == h[p].target  n == h[p].number
             name == IF t # 0 /\ h[p].op = "rotate" THEN row[t].name ELSE h[p].name
             target == IF t = 0 THEN n ELSE t
             v == [h[p] EXCEPT !.at = "commit", !.name = name, !.target = target]
  <2>1. h[p].at = "write" /\ h[p].type = "posthog" /\ (h[p].none <=> t = 0)
    BY <1>4 DEF WritePosthog, At, HandlerInv
  <2>2. CASE End(p) /\ UNCHANGED crossed
    BY <1>a, <1>4, <2>2 DEF WritePosthog, End, Ended
  <2>3. CASE /\ ~(t # 0 /\ ~Exists(t))
             /\ h' = [h EXCEPT ![p].at = "commit", ![p].name = name, ![p].target = target]
             /\ crossed' = (crossed \/ (t = 0 /\ Crossing(p)))
    <3> HIDE DEF name
    <3>1. h' = [h EXCEPT ![p] = v]
      BY <1>0, <2>3
    <3>2. /\ v.at = "commit" /\ v.type = h[p].type /\ v.number = h[p].number
          /\ v.none = h[p].none /\ v.target = target
      BY <1>0 DEF HandlerType
    <3> HIDE DEF v
    <3>3. h'[p] = v /\ Others(p)
      BY <1>a, <3>1
    <3>4. h[p].none \in BOOLEAN /\ crossed \in BOOLEAN
      BY <1>0 DEF HandlerType, TypeOK
    <3>5. \/ h[p].none /\ h'[p].target = h[p].number /\ crossed' = (crossed \/ Crossing(p))
          \/ /\ ~h[p].none /\ h'[p].target = h[p].target /\ Exists(h[p].target)
             /\ crossed' = crossed
      BY <2>1, <2>3, <3>2, <3>3, <3>4
    <3> QED BY <1>4, <2>1, <3>2, <3>3, <3>5 DEF WritePosthog, Written
  <2> QED BY <1>4, <2>2, <2>3 DEF WritePosthog
<1>5. ASSUME NEW p \in Handlers, CommitPosthog(p)
      PROVE  Committed(p)
  <2> DEFINE t == h[p].target
             secret == IF h[p].op = "rotate" THEN Secret(p) ELSE row[t].secret
             r == [row[t] EXCEPT !.status = "connected", !.name = h[p].name, !.secret = secret]
  <2>1. h[p].at = "commit" /\ t \in Numbers
    BY <1>0, <1>5 DEF CommitPosthog, At, HandlerInv, HandlerType, Numbers
  <2>2. row' = [row EXCEPT ![t] = r]
    BY <1>0, <1>5, <2>1 DEF CommitPosthog
  <2>3. r.status = "connected" /\ r.type = row[t].type /\ r.secret = secret
    <3> HIDE DEF secret
    <3> QED BY <1>0, <2>1 DEF RowType
  <2> HIDE DEF r
  <2>4. row'[t] = r /\ \A n \in Numbers \ {t} : row'[n] = row[n]
    BY <1>0, <2>1, <2>2
  <2>5. \/ secret = row[t].secret /\ lastSecret' = lastSecret
        \/ secret = h[p].number /\ lastSecret' = h[p].number
    BY <1>5 DEF CommitPosthog, Secret
  <2>6. h'[p] = Idle /\ Others(p)
    BY <1>a, <1>5 DEF CommitPosthog, End
  <2> HIDE DEF secret
  <2> QED BY <1>5, <2>1, <2>3, <2>4, <2>5, <2>6 DEF CommitPosthog, Committed
<1>6. ASSUME NEW p \in Handlers, WriteGithub(p)
      PROVE  Ended(p) \/ Stored(p)
  <2> DEFINE t == h[p].target  n == IF t = 0 THEN next ELSE t  i == h[p].installation
             r == [NoRow EXCEPT !.status = "connected", !.type = "github", !.name = i,
                                !.installation = i]
  <2>1. h[p].at = "write" /\ h[p].type = "github" /\ (h[p].none <=> t = 0) /\ t \in 0 .. MaxNumber
    BY <1>0, <1>6 DEF WriteGithub, At, HandlerInv, HandlerType
  <2>2. h'[p] = Idle /\ Others(p)
    BY <1>a, <1>6 DEF WriteGithub, End
  <2>3. CASE UNCHANGED <<next, row, crossed>>
    BY <1>6, <2>2, <2>3 DEF WriteGithub, Ended
  <2>4. CASE /\ ~(t # 0 /\ ~Exists(t))
             /\ next' = IF t = 0 THEN next + 1 ELSE next
             /\ row' = [row EXCEPT ![n] = r]
             /\ crossed' = (crossed \/ (t = 0 /\ Crossing(p)))
    <3>1. n \in Numbers
      BY <1>0, <1>6, <2>1 DEF WriteGithub, Numbers
    <3>2. r.status = "connected" /\ r.type = "github"
      BY DEF NoRow
    <3>3. h[p].none \in BOOLEAN /\ crossed \in BOOLEAN
      BY <1>0 DEF HandlerType, TypeOK
    <3>4. \/ h[p].none /\ n = next /\ next' = next + 1 /\ crossed' = (crossed \/ Crossing(p))
          \/ /\ ~h[p].none /\ n = h[p].target /\ Exists(n) /\ next' = next
             /\ crossed' = crossed
      BY <2>1, <2>4, <3>3
    <3> HIDE DEF n, r
    <3>5. row'[n] = r /\ \A m \in Numbers \ {n} : row'[m] = row[m]
      BY <1>0, <2>4, <3>1
    <3>6. UNCHANGED <<lastSecret, sent>>
      BY <1>6 DEF WriteGithub
    <3> QED BY <2>1, <2>2, <3>1, <3>2, <3>4, <3>5, <3>6 DEF Stored
  <2> QED BY <1>6, <2>3, <2>4 DEF WriteGithub
<1>7. ASSUME NEW p \in Handlers, Abort(p)
      PROVE  Ended(p)
  BY <1>a, <1>7 DEF Abort, End, Ended
<1>8. ASSUME DeletePosthog
      PROVE  Cleared("posthog")
  <2>1. \A q \in Handlers : At(q, "commit") => h[q].target \notin RowsOf("posthog")
    BY <1>8 DEF DeletePosthog
  <2> QED BY <1>8, <2>1 DEF DeletePosthog, Cleared
<1>9. ASSUME Disconnect
      PROVE  Cleared("github")
  BY <1>9 DEF Disconnect, Cleared
<1>10. ASSUME NEW event \in sent, Webhook(event)
       PROVE  \E i \in Installations, action \in {"suspend", "unsuspend", "deleted"} :
                Marked(i, action)
  <2>1. PICK i \in Installations, action \in {"suspend", "unsuspend", "deleted"} :
          event = <<i, action>>
    BY DEF TypeOK
  <2>2. ASSUME NEW n \in Numbers
        PROVE  \/ row'[n] = row[n]
               \/ /\ n \in RowsOf("github") /\ row[n].installation = i
                  /\ row'[n].installation = i /\ row'[n].type = "github"
                  /\ row'[n].status = StatusOf(action)
    <3>1. row'[n] = IF Concerns(n, i) THEN [row[n] EXCEPT !.status = StatusOf(action)] ELSE row[n]
      BY <1>10, <2>1 DEF Webhook
    <3>2. Concerns(n, i) =>
            n \in RowsOf("github") /\ row[n].installation = i /\ row[n].type = "github"
      BY DEF Concerns, RowsOf
    <3>3. row[n] \in RowType
      BY <1>0
    <3> HIDE DEF StatusOf
    <3> QED BY <3>1, <3>2, <3>3 DEF RowType
  <2>3. UNCHANGED <<next, h, lastSecret, crossed, sent>>
    BY <1>10 DEF Webhook
  <2> QED BY <2>1, <2>2, <2>3 DEF Marked
<1>11. ASSUME UNCHANGED vars \/ \E i \in Installations : GithubAct(i)
       PROVE  Quiet
  BY <1>11 DEF vars, GithubAct, Send, Quiet
<1>12. Types = {"posthog", "github"}
  BY DEF Types
<1> QED BY <1>1, <1>2, <1>3, <1>4, <1>5, <1>6, <1>7, <1>8, <1>9, <1>10, <1>11, <1>12
        DEF Next, Handle, SavePosthogSettings, RotatePosthogSecret

\* Numbers are taken in order.
LEMMA NextGrows ==
  ASSUME TypeOK, HandlerInv, [Next]_vars
  PROVE  next \in Nat /\ next' \in Nat /\ next <= next'
<1>1. next \in Nat
  BY DEF TypeOK
<1>2. ASSUME NEW p \in Handlers,
             Ended(p) \/ Called(p) \/ Selected(p) \/ Written(p) \/ Committed(p)
      PROVE  next' = next
  BY <1>2 DEF Ended, Called, Selected, Written, Committed
<1>3. ASSUME NEW p \in Handlers, Begun(p) \/ Stored(p)
      PROVE  next' = next \/ next' = next + 1
  BY <1>3 DEF Begun, Stored
<1>4. ASSUME NEW type \in Types, Cleared(type)
      PROVE  next' = next
  BY <1>4 DEF Cleared
<1>5. ASSUME NEW i \in Installations, NEW action, Marked(i, action)
      PROVE  next' = next
  BY <1>5 DEF Marked
<1>6. Quiet => next' = next
  BY DEF Quiet
<1>7. next' = next \/ next' = next + 1
  BY <1>2, <1>3, <1>4, <1>5, <1>6, Effects, Zenon
<1> QED BY <1>1, <1>7

\* Requests stay as they are, except one.
LEMMA HandlerEffects ==
  ASSUME TypeOK, HandlerInv, [Next]_vars, NEW p \in Handlers
  PROVE  h'[p] = h[p] \/ h'[p] = Idle \/ Begun(p) \/ Called(p) \/ Selected(p) \/ Written(p)
<1>1. ASSUME NEW q \in Handlers, Others(q)
      PROVE  q = p \/ h'[p] = h[p]
  BY <1>1 DEF Others
<1>2. ASSUME NEW q \in Handlers,
             Ended(q) \/ Begun(q) \/ Called(q) \/ Selected(q) \/ Written(q) \/ Committed(q)
      PROVE  Others(q)
  BY <1>2 DEF Ended, Begun, Called, Selected, Written, Committed
<1>3. ASSUME NEW q \in Handlers, Stored(q)
      PROVE  Others(q) /\ h'[q] = Idle
  BY <1>3 DEF Stored
<1>4. ASSUME NEW q \in Handlers, Ended(q) \/ Committed(q)
      PROVE  h'[q] = Idle
  BY <1>4 DEF Ended, Committed
<1>5. ASSUME NEW type \in Types, Cleared(type)
      PROVE  h' = h
  BY <1>5 DEF Cleared
<1>6. ASSUME NEW i \in Installations, NEW action, Marked(i, action)
      PROVE  h' = h
  BY <1>6 DEF Marked
<1>7. Quiet => h' = h
  BY DEF Quiet
<1>8. CASE h' = h
  BY <1>8
<1>9. ASSUME NEW q \in Handlers,
             \/ Ended(q) \/ Begun(q) \/ Called(q) \/ Selected(q) \/ Written(q) \/ Committed(q)
             \/ Stored(q)
      PROVE  h'[p] = h[p] \/ h'[p] = Idle \/ Begun(p) \/ Called(p) \/ Selected(p) \/ Written(p)
  <2>1. CASE q = p
    BY <1>3, <1>4, <1>9, <2>1, Zenon
  <2>2. CASE q # p
    BY <1>1, <1>2, <1>3, <1>9, <2>2, Zenon
  <2> QED BY <2>1, <2>2
<1> QED BY <1>5, <1>6, <1>7, <1>8, <1>9, Effects, Zenon

\* Every row stays, goes with all of its type, or is written by one request.
LEMMA RowEffects ==
  ASSUME TypeOK, HandlerInv, [Next]_vars, NEW n \in Numbers
  PROVE  \/ row'[n] = row[n]
         \/ row'[n] = NoRow /\ n \in RowsOf(row[n].type) /\ Cleared(row[n].type)
         \/ \E p \in Handlers : Committed(p) /\ n = h[p].target
         \/ \E p \in Handlers :
              /\ Stored(p) /\ row'[n].status = "connected" /\ row'[n].type = "github"
              /\ \/ n = next /\ next' = next + 1 /\ h[p].none /\ crossed' = (crossed \/ Crossing(p))
                 \/ n = h[p].target /\ Exists(n)
              /\ \A m \in Numbers \ {n} : row'[m] = row[m]
         \/ \E i \in Installations, action \in {"suspend", "unsuspend", "deleted"} :
              /\ Marked(i, action) /\ n \in RowsOf("github") /\ row[n].installation = i
              /\ row'[n].installation = i /\ row'[n].type = "github"
              /\ row'[n].status = StatusOf(action)
<1>1. ASSUME NEW type \in Types, Cleared(type)
      PROVE  \/ row'[n] = row[n]
             \/ row'[n] = NoRow /\ n \in RowsOf(row[n].type) /\ Cleared(row[n].type)
  <2>1. row'[n] = IF n \in RowsOf(type) THEN NoRow ELSE row[n]
    BY <1>1 DEF Cleared
  <2>2. n \in RowsOf(type) => row[n].type = type
    BY DEF RowsOf
  <2> QED BY <1>1, <2>1, <2>2
<1>2. ASSUME NEW i \in Installations, NEW action \in {"suspend", "unsuspend", "deleted"},
             Marked(i, action)
      PROVE  \/ row'[n] = row[n]
             \/ /\ n \in RowsOf("github") /\ row[n].installation = i
                /\ row'[n].installation = i /\ row'[n].type = "github"
                /\ row'[n].status = StatusOf(action)
  BY <1>2 DEF Marked
<1>3. ASSUME NEW p \in Handlers, Committed(p)
      PROVE  row'[n] = row[n] \/ n = h[p].target
  BY <1>3 DEF Committed
<1>4. ASSUME NEW p \in Handlers, Stored(p)
      PROVE  \/ row'[n] = row[n]
             \/ /\ row'[n].status = "connected" /\ row'[n].type = "github"
                /\ \/ /\ n = next /\ next' = next + 1 /\ h[p].none
                      /\ crossed' = (crossed \/ Crossing(p))
                   \/ n = h[p].target /\ Exists(n)
                /\ \A m \in Numbers \ {n} : row'[m] = row[m]
  BY <1>4 DEF Stored
<1>5. ASSUME \/ Quiet
             \/ \E p \in Handlers :
                  Ended(p) \/ Begun(p) \/ Called(p) \/ Selected(p) \/ Written(p)
      PROVE  row'[n] = row[n]
  BY <1>5 DEF Quiet, Ended, Begun, Called, Selected, Written
<1> QED BY <1>1, <1>2, <1>3, <1>4, <1>5, Effects

\* Rows keep their type.
LEMMA TypeStays ==
  ASSUME TypeOK, RowInv, HandlerInv, [Next]_vars, NEW n \in Numbers, Exists(n),
         row'[n].status # "none"
  PROVE  row'[n].type = row[n].type
<1>1. ASSUME NEW p \in Handlers, h[p].type = "github", n = h[p].target
      PROVE  row[n].type = "github"
  BY <1>1 DEF HandlerInv, Numbers
<1>2. ASSUME NEW p \in Handlers, Committed(p), n = h[p].target
      PROVE  row'[n].type = row[n].type
  BY <1>2 DEF Committed
<1>3. n \in RowsOf("github") => row[n].type = "github"
  BY DEF RowsOf
<1>4. CASE row'[n] = NoRow
  BY <1>4, Blank
<1>5. ASSUME NEW p \in Handlers, Stored(p), row'[n].type = "github", n = h[p].target
      PROVE  row'[n].type = row[n].type
  BY <1>1, <1>5 DEF Stored
<1>6. n # next
  BY DEF RowInv, TypeOK, Numbers, Exists
<1> QED BY <1>2, <1>3, <1>4, <1>5, <1>6, RowEffects DEF Exists

\* A row appears when a request that found none inserts it.
LEMMA Appears ==
  ASSUME TypeOK, RowInv, HandlerInv, [Next]_vars, NEW n \in Numbers, ~Exists(n),
         row'[n].status # "none"
  PROVE  \E p \in Handlers :
           /\ \/ /\ Committed(p) /\ h[p].at = "commit" /\ h[p].none /\ n = h[p].number
                 /\ h[p].type = "posthog" /\ row'[n].type = "posthog"
              \/ /\ Stored(p) /\ n = next /\ next' = next + 1 /\ h[p].none
                 /\ row'[n].type = "github" /\ h[p].type = "github"
                 /\ crossed' = (crossed \/ Crossing(p))
           /\ \A m \in Numbers \ {n} : row'[m] = row[m]
<1>1. row[n] = NoRow
  BY DEF RowInv, Exists
<1>2. ASSUME NEW p \in Handlers, Committed(p), n = h[p].target
      PROVE  /\ h[p].at = "commit" /\ h[p].none /\ n = h[p].number
             /\ h[p].type = "posthog" /\ row'[n].type = "posthog"
             /\ \A m \in Numbers \ {n} : row'[m] = row[m]
  BY <1>1, <1>2, Blank DEF Committed, HandlerInv
<1>3. n \notin RowsOf("github") /\ row'[n] # NoRow /\ row'[n] # row[n]
  BY <1>1, Blank DEF RowsOf
<1>4. ASSUME NEW p \in Handlers, Stored(p)
      PROVE  h[p].type = "github"
  BY <1>4 DEF Stored
<1> QED BY <1>2, <1>3, <1>4, RowEffects

\* A row goes only with all of its type.
LEMMA Vanishes ==
  ASSUME TypeOK, RowInv, HandlerInv, [Next]_vars, NEW n \in Numbers, Exists(n),
         row'[n].status = "none"
  PROVE  Cleared(row[n].type) /\ n \in RowsOf(row[n].type)
<1>1. row'[n] # row[n]
  BY DEF Exists
<1>2. ASSUME NEW p \in Handlers, Committed(p), n = h[p].target
      PROVE  FALSE
  BY <1>2 DEF Committed
<1>3. \A action : StatusOf(action) # "none"
  BY DEF StatusOf
<1> QED BY <1>1, <1>2, <1>3, RowEffects

-----------------------------------------------------------------------------
(* The conjuncts                                                           *)

LEMMA RowStep ==
  ASSUME TypeOK, RowInv, HandlerInv, [Next]_vars
  PROVE  RowInv'
<1>0. next \in Nat /\ next' \in Nat /\ next <= next'
  BY NextGrows
<1>1. ASSUME NEW n \in Numbers
      PROVE  row'[n].status = "none" => row'[n] = NoRow
  <2>1. \A action : StatusOf(action) # "none"
    BY DEF StatusOf
  <2>2. ASSUME NEW p \in Handlers, Committed(p), n = h[p].target
        PROVE  row'[n].status # "none"
    BY <2>2 DEF Committed
  <2>3. row'[n] = row[n] => (row'[n].status = "none" => row'[n] = NoRow)
    BY DEF RowInv
  <2> QED BY <2>1, <2>2, <2>3, RowEffects
<1>2. ASSUME NEW n \in Numbers, row'[n].type = "posthog"
      PROVE  row'[n].status # "disabled"
  <2>1. ASSUME NEW p \in Handlers, Committed(p), n = h[p].target
        PROVE  row'[n].status # "disabled"
    BY <2>1 DEF Committed
  <2>2. row'[n] = row[n] => row'[n].status # "disabled"
    BY <1>2 DEF RowInv
  <2> QED BY <1>2, <2>1, <2>2, RowEffects, Blank
<1>3. ASSUME NEW n \in Numbers, n >= next'
      PROVE  row'[n].status = "none"
  <2>1. n \in Nat /\ n >= next /\ ~Exists(n)
    BY <1>0, <1>3 DEF RowInv, Numbers, Exists
  <2>2. ASSUME NEW p \in Handlers, h[p].at = "commit", h[p].type = "posthog", n = h[p].number
        PROVE  FALSE
    BY <1>0, <2>1, <2>2 DEF HandlerInv
  <2> QED BY <1>0, <1>3, <2>1, <2>2, Appears
<1> QED BY <1>1, <1>2, <1>3 DEF RowInv

LEMMA HandlerStep ==
  ASSUME TypeOK, RowInv, HandlerInv, NumberInv, [Next]_vars
  PROVE  HandlerInv'
<1>0. next \in Nat /\ next' \in Nat /\ next <= next'
  BY NextGrows
<1>1. ASSUME NEW p \in Handlers
      PROVE  h[p].target \in 0 .. MaxNumber /\ h[p].number \in 0 .. MaxNumber /\ MaxNumber \in Nat
  BY ConnectionsAssumption DEF TypeOK
<1> DEFINE Fine(v) ==
      /\ v.at \in {"idle", "select"} => v.target = 0 /\ ~v.none
      /\ v.at # "idle" /\ v.type = "posthog" => v.number \in 1 .. next' - 1
      /\ v.type = "github" => v.installation \in Installations
      /\ v.at = "commit" => v.type = "posthog"
      /\ v.at = "write" => (v.none <=> v.target = 0)
      /\ v.at = "commit" /\ v.none => v.target = v.number
      /\ v.at = "commit" /\ ~v.none => v.target # 0 /\ row'[v.target].status # "none"
      /\ v.target # 0 =>
           /\ v.target < next'
           /\ row'[v.target].status # "none" => row'[v.target].type = v.type
<1>2. ASSUME NEW p \in Handlers, NEW n \in Numbers, h'[p] # Idle, n = h[p].target
      PROVE  row'[n].status # "none" => row'[n].type = h[p].type
  <2> SUFFICES ASSUME row'[n].status # "none"
               PROVE  row'[n].type = h[p].type
    OBVIOUS
  <2>1. h[p].target # 0 /\ h[p].target < next
    BY <1>2 DEF HandlerInv, Numbers
  <2>2. CASE Exists(n)
    BY <1>2, <2>1, <2>2, TypeStays DEF HandlerInv
  <2>3. CASE ~Exists(n)
    <3>1. ASSUME NEW q \in Handlers, Committed(q), h[q].at = "commit", n = h[q].number,
                 h[q].type = "posthog"
          PROVE  FALSE
      <4>1. q # p
        BY <1>2, <3>1 DEF Committed
      <4> QED BY <1>2, <3>1, <4>1 DEF NumberInv
    <3> QED BY <1>0, <1>1, <1>2, <2>1, <2>3, <3>1, Appears
  <2> QED BY <2>2, <2>3
<1>3. ASSUME NEW p \in Handlers, h[p].at = "commit", ~h[p].none
      PROVE  row'[h[p].target].status # "none"
  <2>1. /\ h[p].target \in Numbers /\ Exists(h[p].target) /\ row[h[p].target].type = "posthog"
    BY <1>1, <1>3 DEF HandlerInv, Numbers
  <2> QED BY <1>3, <2>1, Vanishes DEF Cleared, At
<1>4. ASSUME NEW p \in Handlers
      PROVE  Fine(h'[p])
  <2>1. CASE h'[p] = Idle
    BY <2>1, Blank
  <2>2. CASE h'[p] = h[p] /\ h'[p] # Idle
    <3>1. h[p].target # 0 =>
            /\ h[p].target < next'
            /\ row'[h[p].target].status # "none" => row'[h[p].target].type = h[p].type
      <4>1. h[p].target # 0 => h[p].target < next /\ h[p].target \in Numbers
        BY <1>1 DEF HandlerInv, Numbers
      <4> QED BY <1>0, <1>1, <1>2, <2>2, <4>1
    <3>2. h[p].at # "idle" /\ h[p].type = "posthog" => h[p].number \in 1 .. next' - 1
      BY <1>0, <1>1 DEF HandlerInv
    <3> QED BY <1>3, <2>2, <3>1, <3>2 DEF HandlerInv
  <2>3. CASE Begun(p)
    BY <1>0, <2>3 DEF Begun, Numbers
  <2>4. CASE Called(p)
    BY <2>4 DEF Called
  <2>5. CASE Selected(p)
    <3>0. next' = next /\ row' = row
      BY <2>5 DEF Selected
    <3>1. /\ h[p].at = "select" /\ h'[p].at = "write"
          /\ h'[p].type = "github" => h'[p].installation \in Installations
      BY <2>5 DEF Selected, HandlerInv
    <3>2. h'[p].type = "posthog" => h'[p].number \in 1 .. next' - 1
      BY <2>5, <3>0, <3>1 DEF Selected, HandlerInv
    <3>3. CASE h'[p].none = TRUE /\ h'[p].target = 0
      BY <3>1, <3>2, <3>3
    <3>4. CASE h'[p].none = FALSE /\ h'[p].target \in RowsOf(h[p].type)
      <4>1. /\ h'[p].target \in Numbers /\ h'[p].target < next' /\ h'[p].target # 0
            /\ row'[h'[p].target].type = h[p].type
        BY <1>0, <3>0, <3>4 DEF RowsOf, RowInv, Exists, Numbers
      <4>2. h'[p].type = h[p].type
        BY <2>5 DEF Selected
      <4> QED BY <3>1, <3>2, <3>4, <4>1, <4>2
    <3> QED BY <2>5, <3>3, <3>4 DEF Selected
  <2>6. CASE Written(p)
    <3>0. /\ next' = next /\ row' = row /\ h'[p].at = "commit" /\ h'[p].type = "posthog"
          /\ h'[p].number = h[p].number /\ h'[p].none = h[p].none
          /\ h[p].type = "posthog" /\ h[p].at = "write"
      BY <2>6 DEF Written
    <3>1. h[p].number \in 1 .. next - 1
      BY <3>0 DEF HandlerInv
    <3>2. CASE h[p].none /\ h'[p].target = h[p].number
      <4>1. ~Exists(h[p].number)
        BY <3>0 DEF NumberInv
      <4> QED BY <1>0, <1>1, <3>0, <3>1, <3>2, <4>1 DEF Exists
    <3>3. CASE ~h[p].none /\ h'[p].target = h[p].target /\ Exists(h[p].target)
      <4>1. h[p].target # 0 /\ h[p].target < next /\ row[h[p].target].type = h[p].type
        BY <3>0, <3>3 DEF HandlerInv
      <4> QED BY <3>0, <3>1, <3>3, <4>1 DEF Exists
    <3> QED BY <2>6, <3>2, <3>3 DEF Written
  <2> HIDE DEF Fine
  <2> QED BY <2>1, <2>2, <2>3, <2>4, <2>5, <2>6, HandlerEffects
<1> QED BY <1>4 DEF HandlerInv, Exists

LEMMA NumberStep ==
  ASSUME TypeOK, RowInv, HandlerInv, NumberInv, [Next]_vars
  PROVE  NumberInv'
<1>0. next \in Nat
  BY DEF TypeOK
<1>1. ASSUME NEW p \in Handlers
      PROVE  h[p].target \in 0 .. MaxNumber /\ h[p].number \in 0 .. MaxNumber /\ MaxNumber \in Nat
  BY ConnectionsAssumption DEF TypeOK
<1> DEFINE Busy(v) == v.at # "idle" /\ v.type = "posthog"
<1>2. ASSUME NEW p \in Handlers, Busy(h'[p])
      PROVE  \/ Busy(h[p]) /\ h'[p].number = h[p].number
             \/ Begun(p)
  BY <1>2, HandlerEffects, Blank DEF Called, Selected, Written
<1>3. ASSUME NEW p \in Handlers, NEW q \in Handlers, p # q, Busy(h[p]),
             h'[p].number = h[p].number,
             Busy(h'[p])
      PROVE  /\ h'[q].target # h[p].number
             /\ Busy(h'[q]) => h'[q].number # h[p].number
  <2>1. /\ h[q].target # h[p].number /\ (Busy(h[q]) => h[q].number # h[p].number)
        /\ ~Exists(h[p].number) /\ h[p].number \in 1 .. next - 1 /\ h[p].number \in Numbers
    BY <1>0, <1>1, <1>3 DEF NumberInv, HandlerInv, Numbers
  <2>2. h'[q].target # h[p].number
    <3>1. CASE h'[q] = h[q]
      BY <2>1, <3>1
    <3>2. CASE h'[q] = Idle \/ Begun(q) \/ Called(q)
      BY <1>0, <2>1, <3>2, Blank DEF Begun, Called
    <3>3. CASE Selected(q)
      BY <1>0, <2>1, <3>3 DEF Selected, RowsOf
    <3>4. CASE Written(q)
      BY <2>1, <3>4 DEF Written
    <3> QED BY <3>1, <3>2, <3>3, <3>4, HandlerEffects
  <2>3. Busy(h'[q]) => h'[q].number # h[p].number
    <3>1. Begun(q) => h'[q].number = next /\ h[p].number # next
      BY <1>0, <2>1 DEF Begun
    <3> HIDE DEF Busy
    <3> QED BY <1>2, <2>1, <3>1, Zenon
  <2> QED BY <2>2, <2>3
<1>4. ASSUME NEW p \in Handlers, NEW q \in Handlers, p # q, Begun(p)
      PROVE  /\ h'[q].target # h'[p].number
             /\ Busy(h'[q]) => h'[q].number # h'[p].number
  <2>1. h'[q] = h[q] /\ h'[p].number = next /\ next # 0
    BY <1>0, <1>4 DEF Begun, Others, Numbers
  <2>2. h[q].target # next
    BY <1>0, <1>1, <2>1 DEF HandlerInv
  <2>3. Busy(h[q]) => h[q].number # next
    BY <1>0 DEF HandlerInv
  <2> QED BY <2>1, <2>2, <2>3
<1>5. ASSUME NEW p \in Handlers, Busy(h[p]), Busy(h'[p]), h'[p].number = h[p].number
      PROVE  row'[h[p].number].status = "none"
  <2>1. ~Exists(h[p].number) /\ h[p].number \in 1 .. next - 1 /\ h[p].number \in Numbers
    BY <1>0, <1>1, <1>5 DEF NumberInv, HandlerInv, Numbers
  <2>2. ASSUME NEW q \in Handlers, Committed(q), h[q].at = "commit", h[q].type = "posthog",
               h[p].number = h[q].number
        PROVE  FALSE
    <3>1. q # p
      BY <1>5, <2>2, Blank DEF Committed
    <3> QED BY <1>5, <2>2, <3>1 DEF NumberInv
  <2>3. h[p].number # next
    BY <1>0, <2>1
  <2> QED BY <2>1, <2>2, <2>3, Appears
<1>6. ASSUME NEW p \in Handlers, Begun(p)
      PROVE  row'[h'[p].number].status = "none"
  BY <1>0, <1>6 DEF Begun, RowInv
<1>7. ASSUME NEW p \in Handlers, Busy(h'[p])
      PROVE  /\ \A q \in Handlers \ {p} :
                  /\ h'[q].target # h'[p].number
                  /\ Busy(h'[q]) => h'[q].number # h'[p].number
             /\ row'[h'[p].number].status = "none"
  <2>1. CASE Busy(h[p]) /\ h'[p].number = h[p].number
    BY <1>3, <1>5, <1>7, <2>1
  <2>2. CASE Begun(p)
    BY <1>4, <1>6, <2>2
  <2> QED BY <1>2, <1>7, <2>1, <2>2
<1> QED BY <1>7 DEF NumberInv, Exists

\* What has crossed, and what was sent, stays so.
LEMMA HistoryGrows ==
  ASSUME TypeOK, HandlerInv, [Next]_vars
  PROVE  (crossed => crossed') /\ sent \subseteq sent'
<1> DEFINE Grows == (crossed => crossed') /\ sent \subseteq sent'
<1>1. ASSUME NEW p \in Handlers, Ended(p) \/ Begun(p) \/ Called(p) \/ Selected(p) \/ Committed(p)
      PROVE  Grows
  BY <1>1 DEF Ended, Begun, Called, Selected, Committed
<1>2. ASSUME NEW p \in Handlers, Written(p)
      PROVE  Grows
  <2>1. sent' = sent
    BY <1>2 DEF Written
  <2>2. crossed' = (crossed \/ Crossing(p)) \/ crossed' = crossed
    BY <1>2, Zenon DEF Written
  <2>3. crossed => crossed'
    BY <2>2, Zenon
  <2> QED BY <2>1, <2>3
<1>3. ASSUME NEW p \in Handlers, Stored(p)
      PROVE  Grows
  <2>1. sent' = sent
    BY <1>3 DEF Stored
  <2>2. crossed' = (crossed \/ Crossing(p)) \/ crossed' = crossed
    BY <1>3, Zenon DEF Stored
  <2>3. crossed => crossed'
    BY <2>2, Zenon
  <2> QED BY <2>1, <2>3
<1>4. ASSUME NEW type \in Types, Cleared(type)
      PROVE  Grows
  BY <1>4 DEF Cleared
<1>5. ASSUME NEW i \in Installations, NEW action, Marked(i, action)
      PROVE  Grows
  BY <1>5 DEF Marked
<1>6. Quiet => Grows
  BY DEF Quiet
<1> HIDE DEF Grows
<1>7. Grows
  BY <1>1, <1>2, <1>3, <1>4, <1>5, <1>6, Effects, Zenon
<1> QED BY <1>7 DEF Grows

LEMMA CrossingStep ==
  ASSUME TypeOK, RowInv, HandlerInv, CrossingInv, [Next]_vars
  PROVE  CrossingInv'
<1>1. ASSUME NEW p \in Handlers, h'[p].at = "commit"
      PROVE  h'[p] = h[p] \/ Written(p)
  BY <1>1, HandlerEffects, Blank DEF Begun, Called, Selected
<1>2. ASSUME NEW p \in Handlers, Written(p), h'[p].none,
             \/ RowsOf("posthog") # {}
             \/ \E q \in Handlers \ {p} : h[q].none /\ h[q].type = "posthog"
      PROVE  crossed'
  <2>1. h[p].none /\ h[p].type = "posthog"
    BY <1>2 DEF Written
  <2>2. Crossing(p)
    BY <1>2, <2>1 DEF Crossing
  <2> QED BY <1>2, <2>1, <2>2, Zenon DEF Written
<1>3. ASSUME NEW p \in Handlers, h'[p].at = "commit", h'[p].none,
             NEW n \in Numbers, row'[n].status # "none", row'[n].type = "posthog"
      PROVE  crossed'
  <2>1. CASE Written(p)
    <3>1. n \in RowsOf("posthog")
      BY <1>3, <2>1 DEF Written, RowsOf, Exists
    <3> QED BY <1>2, <1>3, <2>1, <3>1
  <2>2. CASE h'[p] = h[p] /\ Exists(n)
    <3>1. n \in RowsOf("posthog")
      BY <1>3, <2>2, TypeStays DEF RowsOf
    <3> QED BY <1>3, <2>2, <3>1, HistoryGrows DEF CrossingInv, At
  <2>3. CASE h'[p] = h[p] /\ ~Exists(n)
    <3>1. PICK q \in Handlers : Committed(q) /\ h[q].at = "commit" /\ h[q].none
      BY <1>3, <2>3, Appears
    <3>2. q # p
      BY <1>3, <3>1, Blank DEF Committed
    <3> QED BY <1>3, <2>3, <3>1, <3>2, HistoryGrows DEF CrossingInv, At
  <2> QED BY <1>1, <1>3, <2>1, <2>2, <2>3
<1>4. ASSUME NEW p \in Handlers, NEW q \in Handlers, p # q,
             h'[p].at = "commit", h'[q].at = "commit", h'[p].none, h'[q].none
      PROVE  crossed'
  <2>1. ASSUME NEW a \in Handlers, NEW b \in Handlers, a # b, Written(a), h'[a].none,
               h'[b].at = "commit", h'[b].none
        PROVE  crossed'
    <3>1. h[b].at = "commit" /\ h[b].none
      BY <2>1 DEF Written, Others
    <3>2. h[b].type = "posthog"
      BY <3>1 DEF HandlerInv
    <3> QED BY <1>2, <2>1, <3>1, <3>2
  <2>2. CASE h'[p] = h[p] /\ h'[q] = h[q]
    BY <1>4, <2>2, HistoryGrows DEF CrossingInv, At
  <2> QED BY <1>1, <1>4, <2>1, <2>2
<1>5. ASSUME NEW m \in Numbers, NEW n \in Numbers, m # n, ~Exists(m),
             row'[m].status # "none", row'[n].status # "none", row'[m].type = row'[n].type
      PROVE  crossed'
  <2>1. PICK p \in Handlers :
          /\ \/ h[p].at = "commit" /\ h[p].none /\ row'[m].type = "posthog"
             \/ /\ h[p].none /\ h[p].type = "github" /\ row'[m].type = "github"
                /\ crossed' = (crossed \/ Crossing(p))
          /\ \A k \in Numbers \ {m} : row'[k] = row[k]
    BY <1>5, Appears
  <2>2. n \in RowsOf(row'[m].type)
    BY <1>5, <2>1 DEF RowsOf, Exists
  <2>3. CASE h[p].at = "commit" /\ h[p].none /\ row'[m].type = "posthog"
    BY <2>2, <2>3, HistoryGrows DEF CrossingInv, At
  <2>4. CASE /\ h[p].none /\ h[p].type = "github" /\ row'[m].type = "github"
             /\ crossed' = (crossed \/ Crossing(p))
    <3>1. Crossing(p)
      BY <2>2, <2>4 DEF Crossing
    <3> QED BY <2>4, <3>1, Zenon
  <2> QED BY <2>1, <2>3, <2>4
<1>6. ASSUME NEW m \in Numbers, NEW n \in Numbers, m # n, Exists(m), Exists(n),
             row'[m].status # "none", row'[n].status # "none", row'[m].type = row'[n].type
      PROVE  crossed'
  BY <1>6, TypeStays, HistoryGrows DEF CrossingInv
<1>7. \A m, n \in Numbers :
        m # n /\ row'[m].status # "none" /\ row'[n].status # "none" /\ row'[m].type = row'[n].type
        => crossed'
  BY <1>5, <1>6
<1> QED BY <1>3, <1>4, <1>7 DEF CrossingInv, RowsOf, Exists, At

\* A step that leaves PostHog's rows, their secrets and the last secret alone.
LEMMA SecretKeeps ==
  ASSUME SecretInv, lastSecret' = lastSecret, RowsOf("posthog")' = RowsOf("posthog"),
         \A n \in RowsOf("posthog") : row'[n].secret = row[n].secret
  PROVE  SecretInv'
BY DEF SecretInv

LEMMA SecretStep ==
  ASSUME TypeOK, RowInv, HandlerInv, SecretInv, [Next]_vars
  PROVE  SecretInv'
<1>0. RowsOf("posthog")' = {n \in Numbers : row'[n].status # "none" /\ row'[n].type = "posthog"}
  BY DEF RowsOf, Exists
<1>1. CASE row' = row /\ lastSecret' = lastSecret
  BY <1>1, SecretKeeps DEF RowsOf, Exists
<1>2. ASSUME NEW p \in Handlers, Committed(p)
      PROVE  SecretInv'
  <2> DEFINE t == h[p].target
  <2>1. t \in Numbers /\ row[t].type = "posthog" /\ (~Exists(t) => row[t].secret = 0)
    <3>1. h[p].at = "commit" /\ h[p].type = "posthog" /\ h[p].number \in 1 .. next - 1
      BY <1>2 DEF Committed, HandlerInv
    <3>2. next \in 1 .. MaxNumber + 1 /\ MaxNumber \in Nat /\ t \in 0 .. MaxNumber
      BY ConnectionsAssumption DEF TypeOK
    <3>3. t \in Numbers
      BY <3>1, <3>2 DEF HandlerInv, Numbers
    <3>4. Exists(t) => row[t].type = "posthog"
      BY <3>1, <3>2, <3>3 DEF HandlerInv, Numbers
    <3> QED BY <3>3, <3>4, Blank DEF RowInv, Exists
  <2>2. RowsOf("posthog")' = RowsOf("posthog") \cup {t}
    BY <1>0, <1>2, <2>1 DEF Committed, RowsOf, Exists
  <2>3. CASE row'[t].secret = row[t].secret /\ lastSecret' = lastSecret
    <3>1. \A n \in Numbers : row'[n].secret = row[n].secret
      BY <1>2, <2>3 DEF Committed
    <3>2. t \in RowsOf("posthog") \/ row[t].secret = 0
      BY <2>1 DEF RowsOf
    <3>3. RowsOf("posthog") \subseteq Numbers
      BY DEF RowsOf
    <3>4. lastSecret' # 0 => \E n \in RowsOf("posthog")' : row'[n].secret = lastSecret'
      BY <2>2, <2>3, <3>1, <3>3 DEF SecretInv
    <3>5. ASSUME \A m, n \in RowsOf("posthog")' : m = n
          PROVE  \A n \in RowsOf("posthog")' : row'[n].secret \in {0, lastSecret'}
      <4>1. \A n \in RowsOf("posthog")' : n = t
        BY <2>2, <3>5
      <4>2. \A m, n \in RowsOf("posthog") : m = n
        BY <2>2, <3>5
      <4>3. row[t].secret \in {0, lastSecret}
        BY <3>2, <4>2 DEF SecretInv
      <4> QED BY <2>1, <2>3, <3>1, <4>1, <4>3
    <3> QED BY <3>4, <3>5 DEF SecretInv
  <2>4. CASE row'[t].secret = h[p].number /\ lastSecret' = h[p].number
    <3>1. lastSecret' # 0 => \E n \in RowsOf("posthog")' : row'[n].secret = lastSecret'
      BY <2>2, <2>4
    <3>2. ASSUME \A m, n \in RowsOf("posthog")' : m = n
          PROVE  \A n \in RowsOf("posthog")' : row'[n].secret \in {0, lastSecret'}
      BY <2>2, <2>4, <3>2
    <3> QED BY <3>1, <3>2 DEF SecretInv
  <2> QED BY <1>2, <2>3, <2>4 DEF Committed
<1>3. ASSUME NEW p \in Handlers, Stored(p)
      PROVE  SecretInv'
  <2>1. PICK n \in Numbers :
          /\ h[p].type = "github" /\ lastSecret' = lastSecret
          /\ n = next \/ (n = h[p].target /\ Exists(n))
          /\ row'[n].type = "github"
          /\ \A m \in Numbers \ {n} : row'[m] = row[m]
    BY <1>3 DEF Stored
  <2>2. n \notin RowsOf("posthog")
    <3>1. n = next => ~Exists(n)
      BY DEF RowInv, Exists, Numbers
    <3>2. n = h[p].target /\ Exists(n) => row[n].type = "github"
      BY <2>1 DEF HandlerInv, Numbers
    <3> QED BY <2>1, <3>1, <3>2 DEF RowsOf
  <2>3. RowsOf("posthog")' = RowsOf("posthog")
    BY <1>0, <2>1, <2>2 DEF RowsOf, Exists
  <2>4. \A m \in RowsOf("posthog") : row'[m].secret = row[m].secret
    BY <2>1, <2>2 DEF RowsOf
  <2> QED BY <2>1, <2>3, <2>4, SecretKeeps
<1>4. ASSUME Cleared("posthog")
      PROVE  SecretInv'
  <2>1. lastSecret' = 0
    BY <1>4 DEF Cleared
  <2>2. RowsOf("posthog")' = {}
    BY <1>0, <1>4, Blank DEF Cleared, RowsOf, Exists
  <2> QED BY <2>1, <2>2 DEF SecretInv
<1>5. ASSUME Cleared("github")
      PROVE  SecretInv'
  <2>1. lastSecret' = lastSecret
    BY <1>5 DEF Cleared
  <2>2. \A n \in RowsOf("posthog") : row'[n] = row[n]
    BY <1>5 DEF Cleared, RowsOf
  <2>3. \A n \in Numbers : row'[n] = row[n] \/ row'[n] = NoRow
    BY <1>5 DEF Cleared
  <2>4. RowsOf("posthog")' = RowsOf("posthog")
    BY <1>0, <2>2, <2>3, Blank DEF RowsOf, Exists
  <2> QED BY <2>1, <2>2, <2>4, SecretKeeps
<1>6. ASSUME NEW i \in Installations, NEW action, Marked(i, action)
      PROVE  SecretInv'
  <2>1. lastSecret' = lastSecret
    BY <1>6 DEF Marked
  <2>2. \A n \in Numbers : row'[n] = row[n] \/ (n \in RowsOf("github") /\ row'[n].type = "github")
    BY <1>6 DEF Marked
  <2>3. \A n \in RowsOf("posthog") : row'[n] = row[n]
    BY <2>2 DEF RowsOf
  <2>4. RowsOf("posthog")' = RowsOf("posthog")
    BY <1>0, <2>2, <2>3 DEF RowsOf, Exists
  <2> QED BY <2>1, <2>3, <2>4, SecretKeeps
<1>7. ASSUME NEW p \in Handlers, Ended(p) \/ Begun(p) \/ Called(p) \/ Selected(p) \/ Written(p)
      PROVE  row' = row /\ lastSecret' = lastSecret
  BY <1>7 DEF Ended, Begun, Called, Selected, Written
<1>8. Quiet => row' = row /\ lastSecret' = lastSecret
  BY DEF Quiet
<1>9. Types = {"posthog", "github"}
  BY DEF Types
<1> HIDE DEF SecretInv
<1> QED BY <1>1, <1>2, <1>3, <1>4, <1>5, <1>6, <1>7, <1>8, <1>9, Effects

LEMMA DisabledStep ==
  ASSUME TypeOK, HandlerInv, DisabledHasACause, [Next]_vars
  PROVE  DisabledHasACause'
<1> SUFFICES ASSUME NEW n \in Numbers, row'[n].type = "github", row'[n].status = "disabled"
             PROVE  \E action \in {"suspend", "deleted"} :
                      <<row'[n].installation, action>> \in sent'
  BY DEF DisabledHasACause, RowsOf
<1>1. CASE row'[n] = row[n]
  <2>1. n \in RowsOf("github") /\ row[n].status = "disabled"
    BY <1>1 DEF RowsOf, Exists
  <2> QED BY <1>1, <2>1, HistoryGrows DEF DisabledHasACause
<1>2. ASSUME NEW p \in Handlers, Committed(p), n = h[p].target
      PROVE  FALSE
  BY <1>2 DEF Committed
<1>3. ASSUME NEW i \in Installations, NEW action, Marked(i, action),
             row'[n].installation = i, row'[n].status = StatusOf(action)
      PROVE  \E a \in {"suspend", "deleted"} : <<row'[n].installation, a>> \in sent'
  <2>1. action \in {"suspend", "deleted"}
    BY <1>3 DEF StatusOf
  <2>2. <<i, action>> \in sent'
    BY <1>3 DEF Marked
  <2> QED BY <1>3, <2>1, <2>2
<1>4. row'[n] # NoRow
  BY Blank
<1> QED BY <1>1, <1>2, <1>3, <1>4, RowEffects

LEMMA TypeStep ==
  ASSUME TypeOK, HandlerInv, [Next]_vars
  PROVE  TypeOK'
<1>0. /\ h \in [Handlers -> HandlerType] /\ row \in [Numbers -> RowType]
      /\ next \in 1 .. MaxNumber + 1 /\ MaxNumber \in Nat /\ DefaultName \in Names
      /\ lastSecret \in 0 .. MaxNumber /\ crossed \in BOOLEAN
  BY ConnectionsAssumption DEF TypeOK, HandlerType, RowType
<1> DEFINE Kept == UNCHANGED <<github, sent>>
           Data == /\ next' \in 1 .. MaxNumber + 1 /\ lastSecret' \in 0 .. MaxNumber
                   /\ crossed' \in BOOLEAN /\ row' \in [Numbers -> RowType]
           Work == h' \in [Handlers -> HandlerType]
<1>a. ASSUME NEW p \in Handlers, NEW v \in HandlerType, h' = [h EXCEPT ![p] = v]
      PROVE  Work
  BY <1>0, <1>a
<1>b. ASSUME NEW p \in Handlers, End(p)
      PROVE  Work
  BY <1>a, <1>b, Blank DEF End
<1>c. ASSUME UNCHANGED <<next, row, lastSecret, crossed>>
      PROVE  Data
  BY <1>0, <1>c
<1>1. ASSUME NEW p \in Handlers, NEW op \in {"save", "rotate"}, NEW name \in Names,
             Begin(p, op, name)
      PROVE  Data /\ Work /\ Kept
  <2> DEFINE v == [Idle EXCEPT !.at = "select", !.op = op, !.number = next, !.name = name]
  <2>1. h' = [h EXCEPT ![p] = v] /\ Kept
    BY <1>1 DEF Begin
  <2>2. next \in 0 .. MaxNumber
    BY <1>0, <1>1 DEF Begin
  <2>3. v \in HandlerType
    BY <2>2, Blank DEF HandlerType
  <2> HIDE DEF v
  <2>4. Work
    BY <1>a, <2>1, <2>3
  <2>5. next' \in 1 .. MaxNumber + 1 /\ UNCHANGED <<row, lastSecret, crossed>>
    BY <1>0, <1>1 DEF Begin
  <2> QED BY <1>0, <2>1, <2>4, <2>5
<1>2. ASSUME NEW p \in Handlers, NEW i \in Installations, GithubCallback(p, i)
      PROVE  Data /\ Work /\ Kept
  <2> DEFINE v == [Idle EXCEPT !.at = "select", !.op = "callback", !.type = "github",
                               !.name = i, !.installation = i]
  <2>1. h' = [h EXCEPT ![p] = v] /\ Kept /\ UNCHANGED <<next, row, lastSecret, crossed>>
    BY <1>2 DEF GithubCallback
  <2>2. v \in HandlerType
    BY Blank DEF HandlerType, Types
  <2> HIDE DEF v
  <2> QED BY <1>a, <1>c, <2>1, <2>2
<1>3. ASSUME NEW p \in Handlers, SelectOldest(p)
      PROVE  Data /\ Work /\ Kept
  <2> DEFINE none == RowsOf(h[p].type) = {}
             t == IF Candidates(p) = {} THEN 0 ELSE Min(Candidates(p))
             v == [h[p] EXCEPT !.at = "write", !.none = none, !.target = t]
  <2>1. h' = [h EXCEPT ![p] = v] /\ Kept /\ UNCHANGED <<next, row, lastSecret, crossed>>
    BY <1>0, <1>3 DEF SelectOldest
  <2>2. t \in 0 .. MaxNumber
    <3>1. Candidates(p) \in SUBSET Nat /\ Candidates(p) \subseteq 1 .. MaxNumber
      BY DEF Candidates, RowsOf, Numbers
    <3>2. Candidates(p) # {} => Min(Candidates(p)) \in Candidates(p)
      BY <3>1, MinOfNats
    <3> QED BY <1>0, <3>1, <3>2
  <2>3. none \in BOOLEAN
    OBVIOUS
  <2> HIDE DEF none, t
  <2>4. v \in HandlerType
    BY <1>0, <2>2, <2>3 DEF HandlerType
  <2> HIDE DEF v
  <2> QED BY <1>a, <1>c, <2>1, <2>4
<1>4. ASSUME NEW p \in Handlers, WritePosthog(p)
      PROVE  Data /\ Work /\ Kept
  <2> DEFINE t == h[p].target  n == h[p].number
             name == IF t # 0 /\ h[p].op = "rotate" THEN row[t].name ELSE h[p].name
             target == IF t = 0 THEN n ELSE t
             v == [h[p] EXCEPT !.at = "commit", !.name = name, !.target = target]
  <2>1. Kept /\ UNCHANGED <<next, row, lastSecret>>
    BY <1>4 DEF WritePosthog
  <2>2. CASE End(p) /\ UNCHANGED crossed
    BY <1>b, <1>c, <2>1, <2>2
  <2>3. CASE /\ h' = [h EXCEPT ![p].at = "commit", ![p].name = name, ![p].target = target]
             /\ crossed' = (crossed \/ (t = 0 /\ Crossing(p)))
    <3>1. t \in 0 .. MaxNumber /\ n \in 0 .. MaxNumber /\ h[p].name \in Names \cup Installations
      BY <1>0 DEF HandlerType
    <3>2. name \in Names \cup Installations
      BY <1>0, <3>1 DEF RowType, Numbers
    <3>3. target \in 0 .. MaxNumber
      BY <3>1
    <3> HIDE DEF name, target
    <3>4. v \in HandlerType
      BY <1>0, <3>2, <3>3 DEF HandlerType
    <3>5. h' = [h EXCEPT ![p] = v]
      BY <1>0, <2>3
    <3> HIDE DEF v
    <3>6. Work
      BY <1>a, <3>4, <3>5
    <3>7. crossed' \in BOOLEAN
      BY <2>3
    <3> QED BY <1>0, <2>1, <3>6, <3>7
  <2> QED BY <1>4, <2>2, <2>3 DEF WritePosthog
<1>5. ASSUME NEW p \in Handlers, CommitPosthog(p)
      PROVE  Data /\ Work /\ Kept
  <2> DEFINE t == h[p].target
             secret == IF h[p].op = "rotate" THEN Secret(p) ELSE row[t].secret
             r == [row[t] EXCEPT !.status = "connected", !.name = h[p].name, !.secret = secret]
  <2>1. /\ t \in Numbers /\ h[p].number \in 0 .. MaxNumber
        /\ h[p].name \in Names \cup Installations
    BY <1>0, <1>5 DEF CommitPosthog, At, HandlerInv, HandlerType, Numbers
  <2>2. row' = [row EXCEPT ![t] = r]
    BY <1>0, <1>5, <2>1 DEF CommitPosthog
  <2>3. secret \in 0 .. MaxNumber
    BY <1>0, <2>1 DEF RowType, Secret
  <2> HIDE DEF secret
  <2>4. r \in RowType
    BY <1>0, <2>1, <2>3 DEF RowType
  <2> HIDE DEF r
  <2>5. row' \in [Numbers -> RowType]
    BY <1>0, <2>1, <2>2, <2>4
  <2>6. lastSecret' \in 0 .. MaxNumber /\ UNCHANGED <<next, crossed>> /\ Kept
    BY <1>0, <1>5, <2>1 DEF CommitPosthog
  <2> QED BY <1>0, <1>b, <1>5, <2>5, <2>6 DEF CommitPosthog
<1>6. ASSUME NEW p \in Handlers, WriteGithub(p)
      PROVE  Data /\ Work /\ Kept
  <2> DEFINE t == h[p].target  n == IF t = 0 THEN next ELSE t  i == h[p].installation
             r == [NoRow EXCEPT !.status = "connected", !.type = "github", !.name = i,
                                !.installation = i]
  <2>1. Work /\ Kept /\ UNCHANGED lastSecret
    BY <1>b, <1>6 DEF WriteGithub
  <2>2. CASE UNCHANGED <<next, row, crossed>>
    BY <1>c, <2>1, <2>2
  <2>3. CASE /\ next' = IF t = 0 THEN next + 1 ELSE next
             /\ row' = [row EXCEPT ![n] = r]
             /\ crossed' = (crossed \/ (t = 0 /\ Crossing(p)))
    <3>1. next' \in 1 .. MaxNumber + 1
      BY <1>0, <1>6, <2>3 DEF WriteGithub
    <3>2. i \in Installations
      BY <1>6 DEF WriteGithub, HandlerInv
    <3>3. r \in RowType
      BY <3>2, Blank DEF RowType, Types
    <3> HIDE DEF r
    <3>4. row' \in [Numbers -> RowType]
      BY <1>0, <2>3, <3>3
    <3>5. crossed' \in BOOLEAN
      BY <2>3
    <3> QED BY <1>0, <2>1, <3>1, <3>4, <3>5
  <2> QED BY <1>6, <2>2, <2>3 DEF WriteGithub
<1>7. ASSUME NEW p \in Handlers, Abort(p)
      PROVE  Data /\ Work /\ Kept
  BY <1>b, <1>c, <1>7 DEF Abort
<1>8. ASSUME DeletePosthog \/ Disconnect
      PROVE  Data /\ Work /\ Kept
  <2>1. UNCHANGED <<next, h, crossed>> /\ Kept
    BY <1>8 DEF DeletePosthog, Disconnect
  <2>2. lastSecret' \in 0 .. MaxNumber
    BY <1>0, <1>8 DEF DeletePosthog, Disconnect
  <2>3. row' \in [Numbers -> RowType]
    BY <1>0, <1>8, Blank DEF DeletePosthog, Disconnect
  <2> QED BY <1>0, <2>1, <2>2, <2>3
<1>9. ASSUME NEW event \in sent, Webhook(event)
      PROVE  Data /\ Work /\ Kept
  <2>1. UNCHANGED <<next, h, lastSecret, crossed>> /\ Kept
    BY <1>9 DEF Webhook
  <2>2. \A n \in Numbers : [row[n] EXCEPT !.status = StatusOf(event[2])] \in RowType
    BY <1>0 DEF RowType, StatusOf
  <2>3. row' \in [Numbers -> RowType]
    BY <1>0, <1>9, <2>2 DEF Webhook
  <2> QED BY <1>0, <2>1, <2>3
<1>10. ASSUME NEW i \in Installations, GithubAct(i)
       PROVE  /\ Data /\ Work
              /\ github' \in [Installations -> {"none", "active", "suspended", "deleted"}]
              /\ sent' \subseteq Installations \X {"suspend", "unsuspend", "deleted"}
  <2>1. UNCHANGED <<next, row, h, lastSecret, crossed>>
    BY <1>10 DEF GithubAct
  <2>2. github' \in [Installations -> {"none", "active", "suspended", "deleted"}]
    BY <1>10 DEF GithubAct, Becomes, TypeOK
  <2>3. sent' \subseteq Installations \X {"suspend", "unsuspend", "deleted"}
    BY <1>10 DEF GithubAct, Send, TypeOK
  <2> QED BY <1>0, <2>1, <2>2, <2>3
<1>11. CASE UNCHANGED vars
  BY <1>11 DEF vars, TypeOK
<1>12. ASSUME Data, Work, Kept
       PROVE  TypeOK'
  BY <1>12 DEF TypeOK, HandlerType, RowType
<1>13. ASSUME Data, Work,
              github' \in [Installations -> {"none", "active", "suspended", "deleted"}],
              sent' \subseteq Installations \X {"suspend", "unsuspend", "deleted"}
       PROVE  TypeOK'
  BY <1>13 DEF TypeOK, HandlerType, RowType
<1> HIDE DEF Data, Work, Kept
<1> QED BY <1>0, <1>1, <1>2, <1>3, <1>4, <1>5, <1>6, <1>7, <1>8, <1>9, <1>10, <1>11, <1>12, <1>13
        DEF Next, Handle, SavePosthogSettings, RotatePosthogSecret

-----------------------------------------------------------------------------
(* Theorems                                                                *)

\* Every behaviour keeps the inductive invariant.
THEOREM Invariance == Spec => []IInv
<1>1. Init => IInv
  <2> SUFFICES ASSUME Init
               PROVE  IInv
    OBVIOUS
  <2>1. TypeOK
    <3>1. next \in 1 .. MaxNumber + 1 /\ lastSecret \in 0 .. MaxNumber /\ crossed \in BOOLEAN
      <4>1. 1 \in 1 .. MaxNumber + 1 /\ 0 \in 0 .. MaxNumber
        BY ConnectionsAssumption
      <4> QED BY <4>1 DEF Init
    <3>2. row \in [Numbers -> RowType] /\ h \in [Handlers -> HandlerType]
      BY Blank DEF Init
    <3>3. /\ github \in [Installations -> {"none", "active", "suspended", "deleted"}]
          /\ sent \subseteq Installations \X {"suspend", "unsuspend", "deleted"}
      BY DEF Init
    <3> QED BY <3>1, <3>2, <3>3 DEF TypeOK, HandlerType, RowType
  <2>2. (\A n \in Numbers : row[n] = NoRow) /\ \A p \in Handlers : h[p] = Idle
    BY DEF Init
  <2>3. \A n \in Numbers : ~Exists(n)
    BY <2>2, Blank DEF Exists
  <2>4. \A p \in Handlers : /\ h[p].at = "idle" /\ h[p].type = "posthog" /\ h[p].target = 0
                            /\ ~h[p].none
    BY <2>2, Blank
  <2>5. RowInv
    BY <2>2, <2>3, Blank DEF RowInv, Exists
  <2>6. HandlerInv
    BY <2>4 DEF HandlerInv
  <2>7. NumberInv /\ CrossingInv
    BY <2>3, <2>4 DEF NumberInv, CrossingInv, At
  <2>8. \A type \in Types : RowsOf(type) = {}
    BY <2>3 DEF RowsOf
  <2>9. SecretInv /\ DisabledHasACause
    BY <2>8 DEF Init, SecretInv, DisabledHasACause, Types
  <2> QED BY <2>1, <2>5, <2>6, <2>7, <2>9 DEF IInv
<1>2. IInv /\ [Next]_vars => IInv'
  BY TypeStep, RowStep, HandlerStep, NumberStep, CrossingStep, SecretStep, DisabledStep DEF IInv
<1> QED BY <1>1, <1>2, PTL DEF Spec

THEOREM TypeCorrect == Spec => []TypeOK
<1>1. IInv => TypeOK
  BY DEF IInv
<1> QED BY <1>1, Invariance, PTL

LEMMA Singles ==
  ASSUME NEW S, IsFiniteSet(S)
  PROVE  Cardinality(S) <= 1 <=> \A m, n \in S : m = n
<1>1. Cardinality(S) \in Nat
  BY FS_CardinalityType
<1>2. ASSUME \A m, n \in S : m = n
      PROVE  Cardinality(S) <= 1
  <2>1. CASE S = {}
    BY <2>1, FS_EmptySet
  <2>2. ASSUME NEW n \in S
        PROVE  Cardinality(S) <= 1
    <3>1. S = {n}
      BY <1>2
    <3> QED BY <3>1, FS_Singleton
  <2> QED BY <2>1, <2>2
<1>3. ASSUME Cardinality(S) <= 1, NEW m \in S, NEW n \in S, m # n
      PROVE  FALSE
  <2>1. IsFiniteSet(S \ {m}) /\ Cardinality(S \ {m}) = Cardinality(S) - 1
    BY FS_RemoveElement
  <2>2. Cardinality(S \ {m}) \in Nat
    BY <2>1, FS_CardinalityType
  <2>3. S \ {m} = {}
    BY <1>1, <1>3, <2>1, <2>2, FS_EmptySet
  <2> QED BY <1>3, <2>3
<1> QED BY <1>2, <1>3

LEMMA RowsAreFinite ==
  ASSUME NEW type
  PROVE  IsFiniteSet(RowsOf(type))
<1>1. IsFiniteSet(Numbers)
  BY ConnectionsAssumption, FS_Interval DEF Numbers
<1>2. RowsOf(type) \subseteq Numbers
  BY DEF RowsOf
<1> QED BY <1>1, <1>2, FS_Subset

\* The secret of the last rotation is accepted, and with one integration no other.
THEOREM OnlyTheLastSecret == Spec => []LastSecretOnly
<1>1. ASSUME IInv
      PROVE  LastSecretOnly
  <2>1. SecretInv /\ RowInv
    BY <1>1 DEF IInv
  <2>2. ASSUME lastSecret # 0
        PROVE  lastSecret \in Accepted
    <3>1. PICK n \in RowsOf("posthog") : row[n].secret = lastSecret
      BY <2>1, <2>2 DEF SecretInv
    <3>2. row[n].status # "disabled"
      BY <2>1 DEF RowInv, RowsOf
    <3> QED BY <2>2, <3>1, <3>2 DEF Accepted
  <2>3. ASSUME Cardinality(RowsOf("posthog")) <= 1
        PROVE  Accepted \subseteq {lastSecret}
    <3>1. \A m, n \in RowsOf("posthog") : m = n
      BY <2>3, Singles, RowsAreFinite
    <3> QED BY <2>1, <3>1 DEF SecretInv, Accepted
  <2> QED BY <2>2, <2>3 DEF LastSecretOnly
<1> QED BY <1>1, Invariance, PTL

\* A second integration of a type needs two requests that found none at once.
THEOREM NoSecondAlone == Spec => []SecondNeedsACrossing
<1>1. ASSUME IInv
      PROVE  SecondNeedsACrossing
  <2> SUFFICES ASSUME NEW type \in Types, Cardinality(RowsOf(type)) > 1
               PROVE  crossed
    BY DEF SecondNeedsACrossing
  <2>1. Cardinality(RowsOf(type)) \in Nat
    BY RowsAreFinite, FS_CardinalityType
  <2>2. ~(Cardinality(RowsOf(type)) <= 1)
    BY <2>1
  <2>3. PICK m, n \in RowsOf(type) : m # n
    BY <2>2, Singles, RowsAreFinite
  <2> QED BY <1>1, <2>3 DEF IInv, CrossingInv, RowsOf
<1> QED BY <1>1, Invariance, PTL

\* GitHub is disabled only for an event about the installation that is stored.
THEOREM NoStrayDisable == Spec => []DisabledHasACause
<1>1. IInv => DisabledHasACause
  BY DEF IInv
<1> QED BY <1>1, Invariance, PTL

-----------------------------------------------------------------------------
(* PosthogSync                                                             *)

\* No window reaches closer to the clock than Lag, and neither does what a sync
\* saves or has read.
ClockInv ==
  /\ now >= Lag + FirstSync + 1
  /\ checkpoint + Lag <= now
  /\ \A s \in Syncer :
       /\ base[s] + Lag <= now
       /\ windowEnd[s] + Lag <= now
       /\ pc[s] = "clock_read" => windowEnd[s] >= FirstSync + 1

\* The window follows from the checkpoint the sync has read, even when another
\* sync has saved its own since.
WindowInv ==
  \A s \in Syncer :
    /\ pc[s] \in {"query", "rows", "succeeded"} =>
         windowStart[s] = Start(base[s], windowEnd[s])
    /\ pc[s] = "succeeded" => rows[s] = {}

\* What NoTimelyEventIsLost says of the checkpoint, for any time c.
Covered(c) ==
  \A e \in Event \ ingested :
    Timely(e) /\ happenedAt[e] >= origin => happenedAt[e] + Overlap >= c

\* The checkpoint had this property when a sync read it, and keeps it.
CoverInv ==
  ~truncated => Covered(checkpoint) /\ \A s \in Syncer : Covered(base[s])

\* What a sync that has made its query leaves out came after the query, too
\* late for its window to matter.
Read(s) ==
  \A e \in Event \ (ingested \cup rows[s]) :
    Timely(e) /\ windowStart[s] <= happenedAt[e] => happenedAt[e] + Overlap >= windowEnd[s]

ReadInv ==
  ~truncated => \A s \in Syncer : pc[s] \in {"rows", "succeeded"} => Read(s)

PollIInv ==
  /\ PollTypeOK
  /\ ClockInv
  /\ WindowInv
  /\ CoverInv
  /\ ReadInv

LEMMA InitIInv ==
  ASSUME PollInit
  PROVE  PollIInv
<1> USE SyncAssumption DEF PollInit
<1>1. PollTypeOK
  <2>1. now \in Nat
    OBVIOUS
  <2> QED BY <2>1, Zenon DEF PollTypeOK, Point
<1>2. ClockInv
  BY DEF ClockInv
<1>3. WindowInv
  BY DEF WindowInv
<1>4. CoverInv
  BY DEF CoverInv, Covered, Timely
<1>5. ReadInv
  BY DEF ReadInv
<1> QED BY <1>1, <1>2, <1>3, <1>4, <1>5 DEF PollIInv

\* A window starts at a natural number.
LEMMA StartType ==
  ASSUME NEW c \in Nat, NEW end \in Nat, end >= FirstSync
  PROVE  Start(c, end) \in Nat
BY SyncAssumption DEF Start

LEMMA ReturnType ==
  ASSUME PollTypeOK, NEW s \in Syncer, Return(s)
  PROVE  /\ pc' \in [Syncer -> Point]
         /\ base' \in [Syncer -> Nat]
         /\ windowStart' \in [Syncer -> Nat]
         /\ windowEnd' \in [Syncer -> Nat]
         /\ rows' \in [Syncer -> SUBSET Event]
BY DEF PollTypeOK, Return, Point

LEMMA RunWithType ==
  ASSUME PollTypeOK, NEW a \in Nat, NEW b \in Nat, NEW st \in RunStatus
  PROVE  RunWith(a, b, st) \subseteq [start : Nat, end : Nat, status : RunStatus]
BY DEF PollTypeOK, RunWith

LEMMA PollTypeStep ==
  ASSUME PollIInv, [PollNext]_pollVars
  PROVE  PollTypeOK'
<1> USE SyncAssumption DEF PollTypeOK, Point
<1> PollTypeOK /\ ClockInv
  BY DEF PollIInv
<1>1. CASE UNCHANGED pollVars
  BY <1>1 DEF pollVars, eventVars, syncVars
<1>2. CASE Tick
  BY <1>2 DEF Tick, eventVars, syncVars
<1>3. ASSUME NEW e \in Event, Arrive(e)
      PROVE  PollTypeOK'
  BY <1>3 DEF Arrive, syncVars
<1>4. ASSUME NEW s \in Syncer, Request(s)
      PROVE  PollTypeOK'
  BY <1>4 DEF Request, eventVars
<1>5. ASSUME NEW s \in Syncer, ReadClock(s)
      PROVE  PollTypeOK'
  BY <1>5 DEF ReadClock, eventVars, ClockInv
<1>6. ASSUME NEW s \in Syncer, OpenWindow(s)
      PROVE  PollTypeOK'
  <2> DEFINE start == Start(checkpoint, windowEnd[s])
  <2>1. windowEnd[s] \in Nat /\ windowEnd[s] >= FirstSync
    BY <1>6 DEF OpenWindow, ClockInv
  <2>2. start \in Nat
    BY <2>1, StartType
  <2>3. RunWith(start, windowEnd[s], "running")
          \subseteq [start : Nat, end : Nat, status : RunStatus]
    BY <2>1, <2>2, RunWithType DEF RunStatus
  <2> HIDE DEF start
  <2>4. CASE start >= windowEnd[s]
    BY <1>6, <2>4, ReturnType DEF OpenWindow, eventVars, start
  <2>5. CASE ~(start >= windowEnd[s])
    BY <1>6, <2>2, <2>3, <2>5 DEF OpenWindow, eventVars, start
  <2> QED BY <2>4, <2>5
<1>7. ASSUME NEW s \in Syncer, QueryPosthog(s)
      PROVE  PollTypeOK'
  <2>1. PICK R \in SUBSET Event :
          /\ rows' = [rows EXCEPT ![s] = R]
          /\ truncated' = (truncated \/ R # InWindow(s))
    BY <1>7 DEF QueryPosthog, InWindow
  <2> QED BY <1>7, <2>1 DEF QueryPosthog, eventVars
<1>8. ASSUME NEW s \in Syncer, Fail(s)
      PROVE  PollTypeOK'
  BY <1>8 DEF Fail, eventVars
<1>9. ASSUME NEW s \in Syncer, StoreRow(s)
      PROVE  PollTypeOK'
  BY <1>9 DEF StoreRow, eventVars
<1>10. ASSUME NEW s \in Syncer, MarkSucceeded(s)
       PROVE  PollTypeOK'
  <2>1. runs' \subseteq [start : Nat, end : Nat, status : RunStatus]
    BY <1>10, RunWithType DEF MarkSucceeded, RunStatus
  <2> QED BY <1>10, <2>1 DEF MarkSucceeded, eventVars
<1>11. ASSUME NEW s \in Syncer, SaveCheckpoint(s)
       PROVE  PollTypeOK'
  <2>1. checkpoint' \in Nat /\ origin' \in Nat
    BY <1>11 DEF SaveCheckpoint
  <2> QED BY <1>11, <2>1, ReturnType DEF SaveCheckpoint, eventVars
<1>12. ASSUME NEW s \in Syncer, MarkFailed(s)
       PROVE  PollTypeOK'
  <2>1. runs' \subseteq [start : Nat, end : Nat, status : RunStatus]
    BY <1>12, RunWithType DEF MarkFailed, RunStatus
  <2> QED BY <1>12, <2>1, ReturnType DEF MarkFailed, eventVars
<1>13. ASSUME NEW s \in Syncer, Crash(s)
       PROVE  PollTypeOK'
  BY <1>13, ReturnType DEF Crash, eventVars
<1> QED
  BY <1>1, <1>2, <1>3, <1>4, <1>5, <1>6, <1>7, <1>8, <1>9, <1>10, <1>11, <1>12, <1>13
     DEF PollNext, Step

LEMMA ClockStep ==
  ASSUME PollIInv, [PollNext]_pollVars
  PROVE  ClockInv'
<1> USE SyncAssumption DEF ClockInv, PollTypeOK
<1> PollTypeOK /\ ClockInv
  BY DEF PollIInv
<1>1. CASE UNCHANGED pollVars
  BY <1>1 DEF pollVars, syncVars
<1>2. CASE Tick
  BY <1>2 DEF Tick, syncVars
<1>3. ASSUME NEW e \in Event, Arrive(e)
      PROVE  ClockInv'
  BY <1>3 DEF Arrive, syncVars
<1>4. ASSUME NEW s \in Syncer, Request(s)
      PROVE  ClockInv'
  BY <1>4 DEF Request
<1>5. ASSUME NEW s \in Syncer, ReadClock(s)
      PROVE  ClockInv'
  BY <1>5 DEF ReadClock
<1>6. ASSUME NEW s \in Syncer, OpenWindow(s)
      PROVE  ClockInv'
  BY <1>6 DEF OpenWindow, Return
<1>7. ASSUME NEW s \in Syncer, QueryPosthog(s)
      PROVE  ClockInv'
  BY <1>7 DEF QueryPosthog
<1>8. ASSUME NEW s \in Syncer, Fail(s)
      PROVE  ClockInv'
  BY <1>8 DEF Fail
<1>9. ASSUME NEW s \in Syncer, StoreRow(s)
      PROVE  ClockInv'
  BY <1>9 DEF StoreRow
<1>10. ASSUME NEW s \in Syncer, MarkSucceeded(s)
       PROVE  ClockInv'
  BY <1>10 DEF MarkSucceeded
<1>11. ASSUME NEW s \in Syncer, SaveCheckpoint(s)
       PROVE  ClockInv'
  BY <1>11 DEF SaveCheckpoint, Return
<1>12. ASSUME NEW s \in Syncer, MarkFailed(s)
       PROVE  ClockInv'
  BY <1>12 DEF MarkFailed, Return
<1>13. ASSUME NEW s \in Syncer, Crash(s)
       PROVE  ClockInv'
  BY <1>13 DEF Crash, Return
<1> QED
  BY <1>1, <1>2, <1>3, <1>4, <1>5, <1>6, <1>7, <1>8, <1>9, <1>10, <1>11, <1>12, <1>13
     DEF PollNext, Step

LEMMA WindowStep ==
  ASSUME PollIInv, [PollNext]_pollVars
  PROVE  WindowInv'
<1> USE DEF WindowInv, PollTypeOK
<1> PollTypeOK /\ WindowInv
  BY DEF PollIInv
<1>1. CASE UNCHANGED pollVars \/ Tick \/ \E e \in Event : Arrive(e)
  BY <1>1 DEF pollVars, syncVars, Tick, Arrive
<1>2. ASSUME NEW s \in Syncer, Request(s) \/ ReadClock(s) \/ OpenWindow(s)
      PROVE  WindowInv'
  BY <1>2 DEF Request, ReadClock, OpenWindow, Return
<1>3. ASSUME NEW s \in Syncer, QueryPosthog(s)
      PROVE  WindowInv'
  BY <1>3 DEF QueryPosthog
<1>4. ASSUME NEW s \in Syncer, Fail(s) \/ StoreRow(s) \/ MarkSucceeded(s)
      PROVE  WindowInv'
  BY <1>4 DEF Fail, StoreRow, MarkSucceeded
<1>5. ASSUME NEW s \in Syncer, SaveCheckpoint(s) \/ MarkFailed(s) \/ Crash(s)
      PROVE  WindowInv'
  BY <1>5 DEF SaveCheckpoint, MarkFailed, Crash, Return
<1> QED BY <1>1, <1>2, <1>3, <1>4, <1>5 DEF PollNext, Step

\* An event PostHog begins to show now is either not timely or recent enough
\* for whatever is behind the clock by Lag.
LEMMA ArrivalIsRecent ==
  ASSUME PollTypeOK, NEW e \in Event, Arrive(e), Timely(e)', NEW c \in Nat, c + Lag <= now
  PROVE  happenedAt'[e] + Overlap >= c
BY SyncAssumption DEF PollTypeOK, Arrive, Timely

\* Time, faults and storing signals uncover nothing.
LEMMA QuietCover ==
  ASSUME PollIInv, UNCHANGED <<eventVars, checkpoint, origin>>,
         ingested \subseteq ingested',
         truncated => truncated',
         \A s \in Syncer : base'[s] \in {base[s], 0, checkpoint}
  PROVE  CoverInv'
<1> SUFFICES ASSUME ~truncated', NEW e \in Event \ ingested', Timely(e)',
                    happenedAt'[e] >= origin'
             PROVE  /\ happenedAt'[e] + Overlap >= checkpoint'
                    /\ \A s \in Syncer : happenedAt'[e] + Overlap >= base'[s]
  BY DEF CoverInv, Covered
<1>1. e \in Event \ ingested /\ Timely(e) /\ happenedAt[e] >= origin
  BY DEF eventVars, Timely
<1>2. happenedAt[e] + Overlap >= checkpoint
  BY <1>1 DEF PollIInv, CoverInv, Covered
<1>3. \A s \in Syncer : happenedAt[e] + Overlap >= base[s]
  BY <1>1 DEF PollIInv, CoverInv, Covered
<1>4. happenedAt[e] + Overlap >= 0
  BY SyncAssumption DEF PollIInv, PollTypeOK
<1> QED BY <1>2, <1>3, <1>4 DEF eventVars

LEMMA ArriveCover ==
  ASSUME PollIInv, NEW d \in Event, Arrive(d)
  PROVE  CoverInv'
<1> SUFFICES ASSUME ~truncated', NEW e \in Event \ ingested', Timely(e)',
                    happenedAt'[e] >= origin'
             PROVE  /\ happenedAt'[e] + Overlap >= checkpoint'
                    /\ \A s \in Syncer : happenedAt'[e] + Overlap >= base'[s]
  BY DEF CoverInv, Covered
<1>1. checkpoint' = checkpoint /\ base' = base
  BY DEF Arrive, syncVars
<1>2. CASE e = d
  <2>1. checkpoint \in Nat /\ checkpoint + Lag <= now
    BY DEF PollIInv, PollTypeOK, ClockInv
  <2>2. \A s \in Syncer : base[s] \in Nat /\ base[s] + Lag <= now
    BY DEF PollIInv, PollTypeOK, ClockInv
  <2> QED BY <1>1, <1>2, <2>1, <2>2, ArrivalIsRecent DEF PollIInv
<1>3. CASE e # d
  <2>1. happenedAt'[e] = happenedAt[e] /\ arrivedAt'[e] = arrivedAt[e]
    BY <1>3 DEF Arrive, PollIInv, PollTypeOK
  <2>2. ~truncated /\ e \in Event \ ingested /\ Timely(e) /\ happenedAt[e] >= origin
    BY <2>1 DEF Arrive, Timely
  <2> QED BY <1>1, <2>1, <2>2 DEF PollIInv, CoverInv, Covered
<1> QED BY <1>2, <1>3

\* Saving a checkpoint leaves behind only what the sync's window has read, or
\* what the checkpoint it started from had left behind already.
LEMMA SaveCover ==
  ASSUME PollIInv, NEW s \in Syncer, SaveCheckpoint(s)
  PROVE  CoverInv'
<1> USE SyncAssumption
<1> SUFFICES ASSUME ~truncated', NEW e \in Event \ ingested', Timely(e)',
                    happenedAt'[e] >= origin'
             PROVE  /\ happenedAt'[e] + Overlap >= checkpoint'
                    /\ \A t \in Syncer : happenedAt'[e] + Overlap >= base'[t]
  BY DEF CoverInv, Covered
<1>1. /\ checkpoint' = windowEnd[s]
      /\ happenedAt' = happenedAt /\ arrivedAt' = arrivedAt
      /\ ingested' = ingested /\ truncated' = truncated
      /\ base' = [base EXCEPT ![s] = 0]
      /\ pc[s] = "succeeded"
  BY DEF SaveCheckpoint, Return, eventVars
<1>2. /\ happenedAt[e] \in Nat
      /\ origin \in Nat
      /\ windowStart[s] \in Nat
      /\ windowEnd[s] \in Nat
      /\ base[s] \in Nat
  BY DEF PollIInv, PollTypeOK
<1>3. origin' >= origin /\ (base[s] = 0 => origin' >= windowStart[s])
  BY <1>2 DEF SaveCheckpoint
<1>4. Timely(e) /\ happenedAt[e] >= origin
  BY <1>1, <1>2, <1>3 DEF Timely, SaveCheckpoint, PollIInv, PollTypeOK
<1>5. \A t \in Syncer : happenedAt[e] + Overlap >= base[t]
  BY <1>1, <1>4 DEF PollIInv, CoverInv, Covered
<1>6. happenedAt[e] + Overlap >= windowEnd[s]
  <2>1. CASE windowStart[s] <= happenedAt[e]
    BY <1>1, <1>4, <2>1 DEF PollIInv, WindowInv, ReadInv, Read
  <2>2. CASE ~(windowStart[s] <= happenedAt[e])
    <3>1. base[s] # 0
      BY <1>1, <1>2, <1>3, <2>2 DEF SaveCheckpoint
    <3>2. windowStart[s] = IF base[s] < Overlap THEN 0 ELSE base[s] - Overlap
      BY <1>1, <3>1 DEF PollIInv, WindowInv, Start
    <3> QED BY <1>2, <1>5, <2>2, <3>2
  <2> QED BY <2>1, <2>2
<1>7. \A t \in Syncer : happenedAt'[e] + Overlap >= base'[t]
  BY <1>1, <1>2, <1>5 DEF PollIInv, PollTypeOK
<1> QED BY <1>1, <1>6, <1>7

LEMMA CoverStep ==
  ASSUME PollIInv, [PollNext]_pollVars
  PROVE  CoverInv'
<1>1. CASE UNCHANGED pollVars \/ Tick
  BY <1>1, QuietCover DEF pollVars, Tick, eventVars, syncVars
<1>2. ASSUME NEW e \in Event, Arrive(e)
      PROVE  CoverInv'
  BY <1>2, ArriveCover
<1>3. ASSUME NEW s \in Syncer,
             Request(s) \/ ReadClock(s) \/ QueryPosthog(s) \/ Fail(s) \/ StoreRow(s)
               \/ MarkSucceeded(s)
      PROVE  CoverInv'
  <2>1. UNCHANGED <<eventVars, checkpoint, origin, base>>
    BY <1>3 DEF Request, ReadClock, QueryPosthog, Fail, StoreRow, MarkSucceeded
  <2>2. ingested \subseteq ingested'
    BY <1>3 DEF Request, ReadClock, QueryPosthog, Fail, StoreRow, MarkSucceeded
  <2>3. CASE QueryPosthog(s)
    <3>1. truncated => truncated'
      BY <2>3, Zenon DEF QueryPosthog
    <3> QED BY <2>1, <2>2, <3>1, QuietCover
  <2>4. CASE ~QueryPosthog(s)
    <3>1. truncated' = truncated
      BY <1>3, <2>4 DEF Request, ReadClock, Fail, StoreRow, MarkSucceeded
    <3> QED BY <2>1, <2>2, <3>1, QuietCover
  <2> QED BY <2>3, <2>4
<1>4. ASSUME NEW s \in Syncer, OpenWindow(s) \/ MarkFailed(s) \/ Crash(s)
      PROVE  CoverInv'
  <2>1. UNCHANGED <<eventVars, checkpoint, origin, ingested, truncated>>
    BY <1>4 DEF OpenWindow, MarkFailed, Crash
  <2>2. \A t \in Syncer : base'[t] \in {base[t], 0, checkpoint}
    BY <1>4 DEF OpenWindow, MarkFailed, Crash, Return, PollIInv, PollTypeOK
  <2> QED BY <2>1, <2>2, QuietCover
<1>5. ASSUME NEW s \in Syncer, SaveCheckpoint(s)
      PROVE  CoverInv'
  BY <1>5, SaveCover
<1> QED BY <1>1, <1>2, <1>3, <1>4, <1>5 DEF PollNext, Step

\* A step that leaves the windows and rows of the other syncs alone leaves what
\* they have read.
LEMMA QuietRead ==
  ASSUME PollIInv, NEW t \in Syncer, UNCHANGED eventVars, ingested \subseteq ingested',
         Read(t),
         windowStart'[t] = windowStart[t], windowEnd'[t] = windowEnd[t],
         ingested \cup rows[t] \subseteq ingested' \cup rows'[t]
  PROVE  Read(t)'
BY DEF Read, Timely, eventVars

LEMMA ArriveRead ==
  ASSUME PollIInv, NEW d \in Event, Arrive(d), NEW t \in Syncer, Read(t)
  PROVE  Read(t)'
<1> SUFFICES ASSUME NEW e \in Event \ (ingested' \cup rows'[t]), Timely(e)',
                    windowStart'[t] <= happenedAt'[e]
             PROVE  happenedAt'[e] + Overlap >= windowEnd'[t]
  BY DEF Read
<1>1. /\ ingested' = ingested /\ rows' = rows
      /\ windowStart' = windowStart /\ windowEnd' = windowEnd
  BY DEF Arrive, syncVars
<1>2. CASE e = d
  <2>1. windowEnd[t] \in Nat /\ windowEnd[t] + Lag <= now
    BY DEF PollIInv, PollTypeOK, ClockInv
  <2> QED BY <1>1, <1>2, <2>1, ArrivalIsRecent DEF PollIInv
<1>3. CASE e # d
  <2>1. happenedAt'[e] = happenedAt[e] /\ arrivedAt'[e] = arrivedAt[e]
    BY <1>3 DEF Arrive, PollIInv, PollTypeOK
  <2>2. Timely(e)
    BY <2>1 DEF Timely
  <2> QED BY <1>1, <2>1, <2>2 DEF Read
<1> QED BY <1>2, <1>3

\* A query that is not cut off reads all its window.
LEMMA QueryRead ==
  ASSUME PollIInv, NEW s \in Syncer, QueryPosthog(s), ~truncated'
  PROVE  Read(s)'
<1>1. rows' = [rows EXCEPT ![s] = InWindow(s)]
  BY DEF QueryPosthog
<1>2. rows'[s] = InWindow(s)
  BY <1>1 DEF PollIInv, PollTypeOK
<1> SUFFICES ASSUME NEW e \in Event \ (ingested' \cup rows'[s]), Timely(e)',
                    windowStart'[s] <= happenedAt'[e]
             PROVE  happenedAt'[e] + Overlap >= windowEnd'[s]
  BY DEF Read
<1>3. UNCHANGED <<happenedAt, arrivedAt, windowStart, windowEnd>>
  BY DEF QueryPosthog, eventVars
<1>4. arrivedAt[e] # 0
  BY <1>3 DEF Timely
<1>5. ~(happenedAt[e] < windowEnd[s])
  BY <1>2, <1>3, <1>4 DEF InWindow
<1> QED BY <1>3, <1>5, SyncAssumption DEF PollIInv, PollTypeOK

LEMMA ReadStep ==
  ASSUME PollIInv, [PollNext]_pollVars
  PROVE  ReadInv'
<1> SUFFICES ASSUME ~truncated', NEW t \in Syncer, pc'[t] \in {"rows", "succeeded"}
             PROVE  Read(t)'
  BY DEF ReadInv
<1> USE DEF PollIInv, PollTypeOK
<1>1. ~truncated /\ pc[t] \in {"rows", "succeeded"} => Read(t)
  BY DEF ReadInv
<1>2. CASE UNCHANGED pollVars \/ Tick
  <2>1. UNCHANGED <<eventVars, ingested, truncated, pc, rows, windowStart, windowEnd>>
    BY <1>2 DEF pollVars, Tick, syncVars
  <2> QED BY <1>1, <2>1, QuietRead
<1>3. ASSUME NEW e \in Event, Arrive(e)
      PROVE  Read(t)'
  <2>1. UNCHANGED <<pc, truncated>>
    BY <1>3 DEF Arrive, syncVars
  <2> QED BY <1>1, <1>3, <2>1, ArriveRead
<1>4. ASSUME NEW s \in Syncer, QueryPosthog(s)
      PROVE  Read(t)'
  <2>1. CASE s = t
    BY <1>4, <2>1, QueryRead
  <2>2. CASE s # t
    <3>1. /\ UNCHANGED <<eventVars, ingested, windowStart, windowEnd>>
          /\ rows'[t] = rows[t] /\ pc'[t] = pc[t] /\ ~truncated
      BY <1>4, <2>2 DEF QueryPosthog
    <3> QED BY <1>1, <3>1, QuietRead
  <2> QED BY <2>1, <2>2
<1>5. ASSUME NEW s \in Syncer, StoreRow(s)
      PROVE  Read(t)'
  <2>1. UNCHANGED <<eventVars, windowStart, windowEnd, pc, truncated>>
    BY <1>5 DEF StoreRow
  <2>2. PICK e \in rows[s] : /\ ingested' = ingested \cup {e}
                             /\ rows' = [rows EXCEPT ![s] = @ \ {e}]
    BY <1>5 DEF StoreRow
  <2>3. ingested \cup rows[t] \subseteq ingested' \cup rows'[t]
    BY <2>2
  <2> QED BY <1>1, <2>1, <2>2, <2>3, QuietRead
<1>6. ASSUME NEW s \in Syncer, MarkSucceeded(s)
      PROVE  Read(t)'
  <2>1. /\ UNCHANGED <<eventVars, ingested, rows, windowStart, windowEnd, truncated>>
        /\ pc[t] \in {"rows", "succeeded"}
    BY <1>6 DEF MarkSucceeded
  <2> QED BY <1>1, <2>1, QuietRead
<1>7. ASSUME NEW s \in Syncer,
             \/ Request(s)
             \/ ReadClock(s)
             \/ OpenWindow(s)
             \/ Fail(s)
             \/ SaveCheckpoint(s)
             \/ MarkFailed(s)
             \/ Crash(s)
      PROVE  Read(t)'
  <2>1. UNCHANGED <<eventVars, ingested, truncated>>
    BY <1>7 DEF Request, ReadClock, OpenWindow, Fail, SaveCheckpoint, MarkFailed, Crash
  <2>2. s # t
    BY <1>7 DEF Request, ReadClock, OpenWindow, Fail, SaveCheckpoint, MarkFailed, Crash, Return
  <2>3. /\ pc'[t] = pc[t] /\ rows'[t] = rows[t]
        /\ windowStart'[t] = windowStart[t] /\ windowEnd'[t] = windowEnd[t]
    BY <1>7, <2>2
       DEF Request, ReadClock, OpenWindow, Fail, SaveCheckpoint, MarkFailed, Crash, Return
  <2> QED BY <1>1, <2>1, <2>3, QuietRead
<1> QED BY <1>2, <1>3, <1>4, <1>5, <1>6, <1>7 DEF PollNext, Step

\* The inductive invariant holds in every reachable state.
THEOREM PollInvariance == PollSpec => []PollIInv
<1>1. PollInit => PollIInv
  BY InitIInv
<1>2. PollIInv /\ [PollNext]_pollVars => PollIInv'
  BY PollTypeStep, ClockStep, WindowStep, CoverStep, ReadStep DEF PollIInv
<1> QED BY <1>1, <1>2, PTL DEF PollSpec

\* Every variable keeps its type.
THEOREM PollTypeCorrect == PollSpec => []PollTypeOK
<1>1. PollIInv => PollTypeOK
  BY DEF PollIInv
<1> QED BY <1>1, PollInvariance, PTL

\* However the worker's syncs and the manual ones overlap, fail or die, the
\* checkpoint leaves no timely event behind that is not stored, as long as no
\* query was cut off.
THEOREM NothingTimelyIsLost == PollSpec => []NoTimelyEventIsLost
<1>1. PollIInv => NoTimelyEventIsLost
  BY DEF PollIInv, CoverInv, Covered, NoTimelyEventIsLost
<1> QED BY <1>1, PollInvariance, PTL

\* A sync works on the run x, or one died at it.
WorkedOn(x) ==
  \E s \in Syncer :
    /\ pc[s] \in {"query", "rows", "failed"}
    /\ windowStart[s] = x.start
    /\ windowEnd[s] = x.end

DiedAt(x) == \E c \in crashed : c.start = x.start /\ c.end = x.end

LEMMA OrphanStep ==
  ASSUME PollTypeOK, NoOrphanedRun, [PollNext]_pollVars
  PROVE  NoOrphanedRun'
<1> SUFFICES ASSUME NEW x \in runs', x.status = "running", ~DiedAt(x)'
             PROVE  WorkedOn(x)'
  BY DEF NoOrphanedRun, WorkedOn, DiedAt, Working
<1> USE DEF PollTypeOK
<1>0. ~DiedAt(x)
  <2>1. crashed \subseteq crashed'
    BY DEF PollNext, Step, pollVars, syncVars, Tick, Arrive, Request, ReadClock, OpenWindow,
           QueryPosthog, StoreRow, MarkSucceeded, SaveCheckpoint, MarkFailed, Fail, Crash
  <2> QED BY <2>1 DEF DiedAt
<1>1. x \in runs => WorkedOn(x)
  BY <1>0 DEF NoOrphanedRun, WorkedOn, DiedAt, Working
<1>2. CASE UNCHANGED pollVars \/ Tick \/ \E e \in Event : Arrive(e)
  <2>1. UNCHANGED <<runs, pc, windowStart, windowEnd>>
    BY <1>2 DEF pollVars, syncVars, Tick, Arrive
  <2> QED BY <1>1, <2>1 DEF WorkedOn
<1>3. ASSUME NEW s \in Syncer,
             Request(s) \/ ReadClock(s) \/ QueryPosthog(s) \/ Fail(s) \/ StoreRow(s)
      PROVE  WorkedOn(x)'
  <2>1. UNCHANGED runs
    BY <1>3 DEF Request, ReadClock, QueryPosthog, Fail, StoreRow
  <2>2. PICK t \in Syncer : /\ pc[t] \in {"query", "rows", "failed"}
                            /\ windowStart[t] = x.start
                            /\ windowEnd[t] = x.end
    BY <1>1, <2>1 DEF WorkedOn
  <2>3. /\ pc'[t] \in {"query", "rows", "failed"}
        /\ windowStart'[t] = windowStart[t] /\ windowEnd'[t] = windowEnd[t]
    BY <1>3, <2>2 DEF Request, ReadClock, QueryPosthog, Fail, StoreRow
  <2> QED BY <2>2, <2>3 DEF WorkedOn
<1>4. ASSUME NEW s \in Syncer, OpenWindow(s)
      PROVE  WorkedOn(x)'
  <2> DEFINE start == Start(checkpoint, windowEnd[s])
  <2>1. ASSUME x \in runs
        PROVE  WorkedOn(x)'
    <3>1. PICK t \in Syncer : /\ pc[t] \in {"query", "rows", "failed"}
                              /\ windowStart[t] = x.start
                              /\ windowEnd[t] = x.end
      BY <1>1, <1>4, <2>1 DEF WorkedOn, OpenWindow
    <3>2. t # s
      BY <1>4, <3>1 DEF OpenWindow
    <3>3. pc'[t] = pc[t] /\ windowStart'[t] = windowStart[t] /\ windowEnd'[t] = windowEnd[t]
      BY <1>4, <3>2 DEF OpenWindow, Return
    <3> QED BY <3>1, <3>3 DEF WorkedOn
  <2>2. ASSUME x \notin runs
        PROVE  WorkedOn(x)'
    <3>1. /\ ~(start >= windowEnd[s])
          /\ x = [start |-> start, end |-> windowEnd[s], status |-> "running"]
      BY <1>4, <2>2 DEF OpenWindow, RunWith
    <3>2. /\ pc'[s] = "query"
          /\ windowStart'[s] = start
          /\ windowEnd'[s] = windowEnd[s]
      BY <1>4, <3>1 DEF OpenWindow
    <3>3. x.start = start /\ x.end = windowEnd[s]
      BY <3>1
    <3> HIDE DEF start
    <3> QED BY <3>2, <3>3 DEF WorkedOn
  <2> QED BY <2>1, <2>2
<1>5. ASSUME NEW s \in Syncer, MarkSucceeded(s) \/ MarkFailed(s)
      PROVE  WorkedOn(x)'
  <2>1. x \in runs /\ (x.start # windowStart[s] \/ x.end # windowEnd[s])
    BY <1>5 DEF MarkSucceeded, MarkFailed, RunWith
  <2>2. PICK t \in Syncer : /\ pc[t] \in {"query", "rows", "failed"}
                            /\ windowStart[t] = x.start
                            /\ windowEnd[t] = x.end
    BY <1>1, <2>1 DEF WorkedOn
  <2>3. t # s
    BY <2>1, <2>2
  <2>4. pc'[t] = pc[t] /\ windowStart'[t] = windowStart[t] /\ windowEnd'[t] = windowEnd[t]
    BY <1>5, <2>3 DEF MarkSucceeded, MarkFailed, Return
  <2> QED BY <2>2, <2>4 DEF WorkedOn
<1>6. ASSUME NEW s \in Syncer, SaveCheckpoint(s)
      PROVE  WorkedOn(x)'
  <2>1. x \in runs
    BY <1>6 DEF SaveCheckpoint
  <2>2. PICK t \in Syncer : /\ pc[t] \in {"query", "rows", "failed"}
                            /\ windowStart[t] = x.start
                            /\ windowEnd[t] = x.end
    BY <1>1, <2>1 DEF WorkedOn
  <2>3. t # s
    BY <1>6, <2>2 DEF SaveCheckpoint
  <2>4. pc'[t] = pc[t] /\ windowStart'[t] = windowStart[t] /\ windowEnd'[t] = windowEnd[t]
    BY <1>6, <2>3 DEF SaveCheckpoint, Return
  <2> QED BY <2>2, <2>4 DEF WorkedOn
<1>7. ASSUME NEW s \in Syncer, Crash(s)
      PROVE  WorkedOn(x)'
  <2>1. PICK t \in Syncer : /\ pc[t] \in {"query", "rows", "failed"}
                            /\ windowStart[t] = x.start
                            /\ windowEnd[t] = x.end
    BY <1>1, <1>7 DEF WorkedOn, Crash
  <2>2. t # s
    <3> SUFFICES ASSUME t = s
                 PROVE  FALSE
      OBVIOUS
    <3> DEFINE c == [start |-> windowStart[t], end |-> windowEnd[t]]
    <3>1. c \in crashed'
      BY <1>7, <2>1 DEF Crash, Working
    <3>2. c.start = x.start /\ c.end = x.end
      BY <2>1
    <3> HIDE DEF c
    <3> QED BY <3>1, <3>2 DEF DiedAt
  <2>3. pc'[t] = pc[t] /\ windowStart'[t] = windowStart[t] /\ windowEnd'[t] = windowEnd[t]
    BY <1>7, <2>2 DEF Crash, Return
  <2> QED BY <2>1, <2>3 DEF WorkedOn
<1> QED BY <1>2, <1>3, <1>4, <1>5, <1>6, <1>7 DEF PollNext, Step

\* Syncs that share a row of posthog_sync_runs never leave it saying running
\* behind the last of them.
THEOREM RunsAreClosed == PollSpec => []NoOrphanedRun
<1>1. PollInit => NoOrphanedRun
  BY DEF PollInit, NoOrphanedRun
<1>2. PollTypeOK /\ NoOrphanedRun /\ [PollNext]_pollVars => NoOrphanedRun'
  BY OrphanStep
<1> QED BY <1>1, <1>2, PollTypeCorrect, PTL DEF PollSpec

=============================================================================
