---------------------------- MODULE AccountsProofs ----------------------------
(***************************************************************************)
(* Proofs about Accounts, for any users, sign-ins, keys, names, slugs and  *)
(* handlers.                                                               *)
(***************************************************************************)
EXTENDS Accounts, FiniteSetTheorems, TLAPS

HandlerType ==
  [at : {"idle", "identify", "session", "token", "onboard", "slug", "insert", "commit"},
   user : Users \cup {None}, flow : Flows \cup {None},
   then : {"done", "session", "token"}, request : RequestType, slug : AllSlugs]
OrgType == [slug : AllSlugs, user : Users, request : RequestType]
LoginType ==
  [status : {"none", "open", "expired"}, token : 0 .. 1,
   cli : {"none", "polling", "saved", "failed"}]
FlowType == [kind : {"web", "cli"}, status : {"none", "open", "gone"}]
SessionType == [count : 0 .. 1, user : Users \cup {None}]
TokenType == [count : 0 .. 1, user : Users \cup {None}, live : BOOLEAN]

Creating == {"slug", "insert", "commit"}

\* What a handler at work knows.
HandlerInv ==
  \A p \in Handlers :
    /\ h[p].at \in {"identify", "session", "token"} \/ h[p].then # "done" => h[p].flow \in Flows
    /\ h[p].at \in Creating \cup {"onboard", "session", "token"} => h[p].user \in Users
    /\ h[p].at \in {"identify", "onboard"} => h[p].request = Default
    /\ h[p].at \in Creating /\ h[p].request # Default => h[p].slug = SlugOf[h[p].request.name]

\* A sign-in has one handler, and no session or token while that works for it.
FlowInv ==
  /\ \A f \in Flows :
       /\ token[f].count = login[f].token
       /\ session[f].count + token[f].count <= 1
       /\ flow[f].status # "gone" => session[f].count = 0 /\ token[f].count = 0
  /\ \A p \in Handlers : h[p].flow \in Flows =>
       /\ flow[h[p].flow].status = "gone"
       /\ session[h[p].flow].count = 0 /\ token[h[p].flow].count = 0
       /\ \A q \in Handlers \ {p} : h[q].flow # h[p].flow

\* Whoever makes an organization is the only one to make it for that user and
\* key, and nobody has made it before: onboarding has the key "default".
LockInv ==
  /\ \A p, q \in Handlers :
       p # q /\ InTransaction(p) /\ InTransaction(q) /\ h[p].user = h[q].user
         => h[p].request.key # h[q].request.key
  /\ \A p \in Handlers, o \in orgs :
       InTransaction(p) /\ o.user = h[p].user => o.request.key # h[p].request.key
  /\ \A o, x \in orgs : o.user = x.user /\ o.request.key = x.request.key => o = x

\* An inserted organization has a slug of its own.
SlugInv ==
  /\ \A p \in Handlers : At(p, "commit") => ~SlugTaken(h[p].slug)
  /\ \A p, q \in Handlers : p # q /\ At(p, "commit") /\ At(q, "commit") => h[p].slug # h[q].slug

\* A refused request asked for a slug that is taken for good.
RefusedInv ==
  \A x \in refused : x[2] # Default /\ SlugTaken(SlugOf[x[2].name])

IInv ==
  /\ TypeOK /\ HandlerInv /\ FlowInv /\ LockInv /\ SlugInv /\ RefusedInv
  /\ RetriesAreNotRefused

-----------------------------------------------------------------------------
(* What a step changes                                                     *)

LEMMA Types ==
  /\ Default \in RequestType
  /\ Idle \in HandlerType
  /\ \A r \in RequestType : r.key = "default" <=> r = Default
  /\ \A r \in RequestType : r # Default => r.key \in Keys /\ r.name \in Names
<1>1. AnyOf(Slugs) \in AllSlugs
  BY AccountsAssumption DEF AnyOf, AllSlugs
<1>2. Default \in RequestType
  BY DEF RequestType
<1>3. Idle \in HandlerType
  <2> DEFINE s == AnyOf(Slugs)
  <2> HIDE DEF s
  <2>1. s \in AllSlugs
    BY <1>1 DEF s
  <2>2. Idle = [at |-> "idle", user |-> None, flow |-> None, then |-> "done",
                request |-> Default, slug |-> s]
    BY DEF Idle, s
  <2> QED BY <1>2, <2>1, <2>2 DEF HandlerType
<1>4. \A r \in RequestType : r.key = "default" <=> r = Default
  BY AccountsAssumption DEF RequestType, Default
<1>5. \A r \in RequestType : r # Default => r.key \in Keys /\ r.name \in Names
  BY DEF RequestType
<1> QED BY <1>2, <1>3, <1>4, <1>5

LEMMA IdleFields ==
  /\ Idle.at = "idle" /\ Idle.user = None /\ Idle.flow = None
  /\ Idle.then = "done" /\ Idle.request = Default
BY DEF Idle

LEMMA InitIInv ==
  ASSUME Init
  PROVE  IInv
<1> USE DEF Init
<1>1. TypeOK
  <2>1. h \in [Handlers -> HandlerType]
    BY Types
  <2>2. orgs \subseteq OrgType /\ refused \subseteq Users \X RequestType
    OBVIOUS
  <2> QED BY <2>1, <2>2 DEF TypeOK, HandlerType, OrgType
<1>2. \A p \in Handlers : h[p] = Idle
  OBVIOUS
<1>3. None \notin Flows
  BY AccountsAssumption
<1>4. HandlerInv /\ LockInv /\ SlugInv
  BY <1>2, IdleFields DEF HandlerInv, LockInv, SlugInv, Creating, InTransaction, At
<1>5. FlowInv
  BY <1>2, <1>3, IdleFields DEF FlowInv
<1>6. RefusedInv /\ RetriesAreNotRefused
  BY DEF RefusedInv, RetriesAreNotRefused
<1> QED BY <1>1, <1>4, <1>5, <1>6 DEF IInv

\* Every step is one of these.
LEMMA Steps ==
  ASSUME [Next]_vars
  PROVE  \/ UNCHANGED vars
         \/ \E f \in Flows :
              \/ WebStart(f) \/ CliStart(f) \/ CliPoll(f) \/ CliGivesUp(f) \/ Logout(f)
              \/ RevokeToken(f) \/ ExpireLogin(f) \/ ExpireFlow(f)
         \/ \E u \in Users, a \in {"none", "invited", "member"} : ChangeAccess(u, a)
         \/ \E p \in Handlers :
              \/ \E f \in Flows : ConsumeFlow(p, f)
              \/ \E u \in Users : Identify(p, u) \/ List(p, u)
              \/ \E u \in Users, key \in Keys, name \in Names : Create(p, u, key, name)
              \/ InsertSession(p) \/ CompleteCliLogin(p) \/ CheckMembership(p) \/ ChooseSlug(p)
              \/ CheckSlug(p) \/ InsertOrganization(p) \/ Commit(p) \/ Abort(p)
BY DEF Next, Browse, Handle

\* A handler stays as it is, is idle again, or takes one of these steps; the
\* others stay as they are.
Moved(p) ==
  \/ h'[p] = h[p] \/ h'[p] = Idle
  \/ \E f \in Flows : /\ ConsumeFlow(p, f)
                      /\ h'[p] = [Idle EXCEPT !.at = "identify", !.flow = f]
  \/ \E u \in Users, at \in {"onboard", "session", "token"}, last \in {"session", "token"} :
       Identify(p, u) /\ h'[p] = [h[p] EXCEPT !.user = u, !.then = last, !.at = at]
  \/ \E u \in Users : List(p, u) /\ h'[p] = [Idle EXCEPT !.at = "onboard", !.user = u]
  \/ \E u \in Users, key \in Keys, name \in Names :
       /\ Create(p, u, key, name)
       /\ h'[p] = [Idle EXCEPT !.at = "slug", !.user = u,
                               !.request = [key |-> key, name |-> name], !.slug = SlugOf[name]]
  \/ /\ h[p].at \in {"onboard", "commit"} /\ h[p].then # "done"
     /\ h'[p] = [h[p] EXCEPT !.at = h[p].then, !.request = Default]
  \/ /\ CheckMembership(p) /\ ~IsMember(h[p].user)
     /\ h'[p] = [h[p] EXCEPT !.at = "slug"]
  \/ \E s \in AllSlugs : ChooseSlug(p) /\ h'[p] = [h[p] EXCEPT !.at = "insert", !.slug = s]
  \/ CheckSlug(p) /\ h'[p] = [h[p] EXCEPT !.at = "insert"]
  \/ /\ InsertOrganization(p) /\ ~SlugTaken(h[p].slug)
     /\ h'[p] = [h[p] EXCEPT !.at = "commit"]

LEMMA Moves ==
  ASSUME TypeOK, HandlerInv, [Next]_vars
  PROVE  \/ UNCHANGED h
         \/ \E p \in Handlers : Moved(p) /\ \A q \in Handlers \ {p} : h'[q] = h[q]
<1> USE DEF Goto, End
<1>0. h \in [Handlers -> HandlerType]
  BY DEF TypeOK, HandlerType
<1>a. ASSUME NEW p \in Handlers, NEW v, h' = [h EXCEPT ![p] = v]
      PROVE  h'[p] = v /\ \A q \in Handlers \ {p} : h'[q] = h[q]
  BY <1>0, <1>a
<1>b. ASSUME NEW p \in Handlers, NEW at, h' = [h EXCEPT ![p].at = at]
      PROVE  h'[p] = [h[p] EXCEPT !.at = at] /\ \A q \in Handlers \ {p} : h'[q] = h[q]
  BY <1>0, <1>b
<1> DEFINE Alone(p) == \A q \in Handlers \ {p} : h'[q] = h[q]
<1>1. ASSUME NEW p \in Handlers, NEW f \in Flows, ConsumeFlow(p, f)
      PROVE  UNCHANGED h \/ (Moved(p) /\ Alone(p))
  <2>1. \/ UNCHANGED h
        \/ h' = [h EXCEPT ![p] = [Idle EXCEPT !.at = "identify", !.flow = f]]
    BY <1>1 DEF ConsumeFlow
  <2> QED BY <1>a, <1>1, <2>1 DEF Moved
<1>2. ASSUME NEW p \in Handlers, NEW u \in Users, Identify(p, u)
      PROVE  Moved(p) /\ Alone(p)
  <2>1. \/ h' = [h EXCEPT ![p] = Idle]
        \/ \E at \in {"onboard", "session", "token"}, last \in {"session", "token"} :
             h' = [h EXCEPT ![p].user = u, ![p].then = last, ![p].at = at]
    BY <1>2 DEF Identify
  <2>2. CASE h' = [h EXCEPT ![p] = Idle]
    BY <1>a, <2>2 DEF Moved
  <2>3. ASSUME NEW at \in {"onboard", "session", "token"}, NEW last \in {"session", "token"},
               h' = [h EXCEPT ![p].user = u, ![p].then = last, ![p].at = at]
        PROVE  Moved(p) /\ Alone(p)
    <3>1. h' = [h EXCEPT ![p] = [h[p] EXCEPT !.user = u, !.then = last, !.at = at]]
      BY <1>0, <2>3
    <3>2. h'[p] = [h[p] EXCEPT !.user = u, !.then = last, !.at = at] /\ Alone(p)
      BY <1>a, <3>1
    <3> QED BY <1>2, <3>2 DEF Moved
  <2> QED BY <2>1, <2>2, <2>3
<1>3. ASSUME NEW p \in Handlers, NEW u \in Users, List(p, u)
      PROVE  Moved(p) /\ Alone(p)
  <2>1. h' = [h EXCEPT ![p] = [Idle EXCEPT !.at = "onboard", !.user = u]]
    BY <1>3 DEF List
  <2> QED BY <1>a, <1>3, <2>1 DEF Moved
<1>4. ASSUME NEW p \in Handlers, NEW u \in Users, NEW key \in Keys, NEW name \in Names,
             Create(p, u, key, name)
      PROVE  Moved(p) /\ Alone(p)
  <2>1. h' = [h EXCEPT ![p] = [Idle EXCEPT !.at = "slug", !.user = u,
               !.request = [key |-> key, name |-> name], !.slug = SlugOf[name]]]
    BY <1>4 DEF Create
  <2> DEFINE v == [Idle EXCEPT !.at = "slug", !.user = u,
                     !.request = [key |-> key, name |-> name], !.slug = SlugOf[name]]
  <2>2. h'[p] = v /\ Alone(p)
    <3> HIDE DEF v
    <3>1. h' = [h EXCEPT ![p] = v]
      BY <2>1 DEF v
    <3> QED BY <1>a, <3>1
  <2>3. Create(p, u, key, name) /\ h'[p] = v => Moved(p)
    BY DEF Moved
  <2> QED BY <1>4, <2>2, <2>3
<1>5. ASSUME NEW p \in Handlers, h[p].at \in {"onboard", "commit"}, Continue(p)
      PROVE  Moved(p) /\ Alone(p)
  <2>1. CASE h[p].then = "done"
    BY <1>a, <1>5, <2>1 DEF Continue, Moved
  <2>2. CASE h[p].then # "done"
    <3>1. h' = [h EXCEPT ![p].at = h[p].then, ![p].request = Default]
      BY <1>5, <2>2 DEF Continue
    <3>2. h'[p] = [h[p] EXCEPT !.at = h[p].then, !.request = Default] /\ Alone(p)
      BY <1>0, <3>1
    <3> QED BY <1>5, <2>2, <3>2 DEF Moved
  <2> QED BY <2>1, <2>2
<1>6. ASSUME NEW p \in Handlers, CheckMembership(p)
      PROVE  Moved(p) /\ Alone(p)
  <2>1. CASE IsMember(h[p].user)
    BY <1>5, <1>6, <2>1 DEF CheckMembership, At
  <2>2. CASE ~IsMember(h[p].user)
    <3>1. h' = [h EXCEPT ![p].at = "slug"]
      BY <1>6, <2>2 DEF CheckMembership
    <3> QED BY <1>b, <1>6, <2>2, <3>1 DEF Moved
  <2> QED BY <2>1, <2>2
<1>7. ASSUME NEW p \in Handlers, ChooseSlug(p)
      PROVE  Moved(p) /\ Alone(p)
  <2>0. h[p].user \in Users
    BY <1>7 DEF ChooseSlug, HandlerInv, Creating, At
  <2> DEFINE base == LoginSlug[h[p].user]
             s == IF SlugTaken(base) THEN <<base, h[p].user>> ELSE base
  <2>1. h' = [h EXCEPT ![p].at = "insert", ![p].slug = s]
    BY <1>7 DEF ChooseSlug
  <2>2. LoginSlug[h[p].user] \in Slugs
    BY <2>0, AccountsAssumption
  <2>3. s \in AllSlugs
    BY <2>0, <2>2 DEF AllSlugs
  <2> HIDE DEF s
  <2>4. h'[p] = [h[p] EXCEPT !.at = "insert", !.slug = s] /\ Alone(p)
    BY <1>0, <2>1
  <2> QED BY <1>7, <2>3, <2>4 DEF Moved
<1>8. ASSUME NEW p \in Handlers, CheckSlug(p)
      PROVE  Moved(p) /\ Alone(p)
  <2>1. \/ h' = [h EXCEPT ![p] = Idle]
        \/ h' = [h EXCEPT ![p].at = "insert"]
    BY <1>8 DEF CheckSlug, Refuse
  <2> QED BY <1>a, <1>b, <1>8, <2>1 DEF Moved
<1>9. ASSUME NEW p \in Handlers, InsertOrganization(p)
      PROVE  Moved(p) /\ Alone(p)
  <2>1. \/ h' = [h EXCEPT ![p] = Idle]
        \/ ~SlugTaken(h[p].slug) /\ h' = [h EXCEPT ![p].at = "commit"]
    BY <1>9 DEF InsertOrganization, Refuse
  <2> QED BY <1>a, <1>b, <1>9, <2>1 DEF Moved
<1>10. ASSUME NEW p \in Handlers, InsertSession(p) \/ CompleteCliLogin(p) \/ Abort(p)
       PROVE  Moved(p) /\ Alone(p)
  <2>1. h' = [h EXCEPT ![p] = Idle]
    BY <1>10 DEF InsertSession, CompleteCliLogin, Abort
  <2> QED BY <1>a, <2>1 DEF Moved
<1>11. ASSUME NEW p \in Handlers, Commit(p)
       PROVE  Moved(p) /\ Alone(p)
  BY <1>5, <1>11 DEF Commit, At
<1>12. ASSUME \/ UNCHANGED vars
              \/ \E f \in Flows :
                   \/ WebStart(f) \/ CliStart(f) \/ CliPoll(f) \/ CliGivesUp(f) \/ Logout(f)
                   \/ RevokeToken(f) \/ ExpireLogin(f) \/ ExpireFlow(f)
              \/ \E u \in Users, a \in {"none", "invited", "member"} : ChangeAccess(u, a)
       PROVE  UNCHANGED h
  BY <1>12 DEF vars, WebStart, CliStart, CliPoll, CliGivesUp, Logout, RevokeToken, ExpireLogin,
               ExpireFlow, ChangeAccess
<1> HIDE DEF Goto, End
<1> QED BY <1>1, <1>2, <1>3, <1>4, <1>6, <1>7, <1>8, <1>9, <1>10, <1>11, <1>12, Steps

LEMMA HandlerTypeStep ==
  ASSUME TypeOK, HandlerInv, [Next]_vars
  PROVE  h' \in [Handlers -> HandlerType]
<1>0. h \in [Handlers -> HandlerType]
  BY DEF TypeOK, HandlerType
<1>1. ASSUME NEW p \in Handlers, Moved(p)
      PROVE  h'[p] \in HandlerType
  <2>0. h[p] \in HandlerType /\ Idle \in HandlerType
    BY <1>0, Types
  <2>1. ASSUME NEW f \in Flows
        PROVE  [Idle EXCEPT !.at = "identify", !.flow = f] \in HandlerType
    BY <2>0 DEF HandlerType
  <2>2. ASSUME NEW u \in Users, NEW at \in {"onboard", "session", "token"},
               NEW last \in {"session", "token"}
        PROVE  [h[p] EXCEPT !.user = u, !.then = last, !.at = at] \in HandlerType
    BY <2>0 DEF HandlerType
  <2>3. ASSUME NEW u \in Users
        PROVE  [Idle EXCEPT !.at = "onboard", !.user = u] \in HandlerType
    BY <2>0 DEF HandlerType
  <2>4. ASSUME NEW u \in Users, NEW key \in Keys, NEW name \in Names
        PROVE  [Idle EXCEPT !.at = "slug", !.user = u,
                            !.request = [key |-> key, name |-> name], !.slug = SlugOf[name]]
                 \in HandlerType
    <3>1. [key |-> key, name |-> name] \in RequestType /\ SlugOf[name] \in AllSlugs
      BY AccountsAssumption DEF RequestType, AllSlugs
    <3> QED BY <2>0, <3>1 DEF HandlerType
  <2>5. ASSUME h[p].then # "done"
        PROVE  [h[p] EXCEPT !.at = h[p].then, !.request = Default] \in HandlerType
    BY <2>0, <2>5, Types DEF HandlerType
  <2>6. ASSUME NEW s \in AllSlugs
        PROVE  [h[p] EXCEPT !.at = "insert", !.slug = s] \in HandlerType
    BY <2>0 DEF HandlerType
  <2>7. ASSUME NEW at \in {"slug", "insert", "commit"}
        PROVE  [h[p] EXCEPT !.at = at] \in HandlerType
    BY <2>0 DEF HandlerType
  <2>8. CASE \E u \in Users, at \in {"onboard", "session", "token"}, last \in {"session", "token"} :
               Identify(p, u) /\ h'[p] = [h[p] EXCEPT !.user = u, !.then = last, !.at = at]
    BY <2>2, <2>8
  <2>9. CASE \E u \in Users, key \in Keys, name \in Names :
               /\ Create(p, u, key, name)
               /\ h'[p] = [Idle EXCEPT !.at = "slug", !.user = u,
                             !.request = [key |-> key, name |-> name], !.slug = SlugOf[name]]
    BY <2>4, <2>9
  <2>10. CASE \/ \E f \in Flows : /\ ConsumeFlow(p, f)
                                   /\ h'[p] = [Idle EXCEPT !.at = "identify", !.flow = f]
              \/ \E u \in Users : List(p, u) /\ h'[p] = [Idle EXCEPT !.at = "onboard", !.user = u]
    BY <2>1, <2>3, <2>10
  <2>11. CASE /\ h[p].then # "done"
              /\ h'[p] = [h[p] EXCEPT !.at = h[p].then, !.request = Default]
    BY <2>5, <2>11
  <2>12. CASE \/ h'[p] = [h[p] EXCEPT !.at = "slug"]
              \/ h'[p] = [h[p] EXCEPT !.at = "insert"]
              \/ h'[p] = [h[p] EXCEPT !.at = "commit"]
    BY <2>7, <2>12
  <2>13. CASE h'[p] = h[p] \/ h'[p] = Idle
    BY <2>0, <2>13
  <2>14. CASE \E s \in AllSlugs : ChooseSlug(p) /\ h'[p] = [h[p] EXCEPT !.at = "insert", !.slug = s]
    BY <2>6, <2>14
  <2> QED BY <1>1, <2>8, <2>9, <2>10, <2>11, <2>12, <2>13, <2>14 DEF Moved
<1>2. DOMAIN h' = Handlers /\ h' = [q \in Handlers |-> h'[q]]
  BY <1>0, Steps DEF Goto, End, Refuse, Continue,
       vars, WebStart, CliStart, CliPoll, CliGivesUp, Logout, RevokeToken, ExpireLogin,
       ExpireFlow, ChangeAccess, ConsumeFlow, Identify, List, Create, InsertSession,
       CompleteCliLogin, CheckMembership, ChooseSlug, CheckSlug, InsertOrganization, Commit, Abort
<1> QED BY <1>0, <1>1, <1>2, Moves

\* What a handler at work was before the step.
LEMMA Before ==
  ASSUME TypeOK, HandlerInv, [Next]_vars, NEW p \in Handlers
  PROVE  /\ h'[p].flow # None =>
              \/ h'[p].flow = h[p].flow
              \/ \E f \in Flows : ConsumeFlow(p, f) /\ h'[p].flow = f
         /\ h'[p].at \in Creating =>
              \/ /\ h'[p].user = h[p].user /\ h'[p].request = h[p].request
                 /\ h[p].at \in Creating
              \/ /\ CheckMembership(p) /\ ~IsMember(h[p].user)
                 /\ h'[p] = [h[p] EXCEPT !.at = "slug"]
              \/ \E u \in Users, key \in Keys, name \in Names :
                   /\ Create(p, u, key, name)
                   /\ h'[p].user = u /\ h'[p].request = [key |-> key, name |-> name]
         /\ h'[p].at = "commit" =>
              \/ h'[p] = h[p]
              \/ InsertOrganization(p) /\ ~SlugTaken(h[p].slug) /\ h'[p].slug = h[p].slug
<1> USE DEF At, Creating
<1>0. h[p] \in HandlerType
  BY DEF TypeOK, HandlerType
<1>1. CASE h'[p] = h[p] \/ h'[p] = Idle
  BY <1>1, IdleFields
<1>2. ASSUME NEW f \in Flows, ConsumeFlow(p, f), h'[p] = [Idle EXCEPT !.at = "identify", !.flow = f]
      PROVE  h'[p].flow = f /\ h'[p].at = "identify"
  BY <1>2 DEF Idle
<1>3. ASSUME NEW u \in Users, NEW at \in {"onboard", "session", "token"},
             NEW last \in {"session", "token"},
             h'[p] = [h[p] EXCEPT !.user = u, !.then = last, !.at = at]
      PROVE  h'[p].flow = h[p].flow /\ h'[p].at = at
  BY <1>0, <1>3 DEF HandlerType
<1>4. ASSUME NEW u \in Users, h'[p] = [Idle EXCEPT !.at = "onboard", !.user = u]
      PROVE  h'[p].flow = None /\ h'[p].at = "onboard"
  BY <1>4 DEF Idle
<1>5. ASSUME NEW u \in Users, NEW key \in Keys, NEW name \in Names,
             h'[p] = [Idle EXCEPT !.at = "slug", !.user = u,
                        !.request = [key |-> key, name |-> name], !.slug = SlugOf[name]]
      PROVE  /\ h'[p].flow = None /\ h'[p].at = "slug"
             /\ h'[p].user = u /\ h'[p].request = [key |-> key, name |-> name]
  BY <1>5 DEF Idle
<1>6. CASE h[p].then # "done" /\ h'[p] = [h[p] EXCEPT !.at = h[p].then, !.request = Default]
  <2>1. h'[p].flow = h[p].flow /\ h'[p].at \in {"session", "token"}
    BY <1>0, <1>6 DEF HandlerType
  <2> QED BY <2>1
<1>7. CASE /\ CheckMembership(p) /\ ~IsMember(h[p].user)
           /\ h'[p] = [h[p] EXCEPT !.at = "slug"]
  BY <1>0, <1>7 DEF HandlerType
<1>8. ASSUME NEW s \in AllSlugs, ChooseSlug(p), h'[p] = [h[p] EXCEPT !.at = "insert", !.slug = s]
      PROVE  /\ h'[p].flow = h[p].flow /\ h'[p].at = "insert" /\ h[p].at \in Creating
             /\ h'[p].user = h[p].user /\ h'[p].request = h[p].request
  <2>1. h[p].at = "slug"
    BY <1>8 DEF ChooseSlug
  <2> QED BY <1>0, <1>8, <2>1 DEF HandlerType
<1>9. CASE CheckSlug(p) /\ h'[p] = [h[p] EXCEPT !.at = "insert"]
  BY <1>0, <1>9 DEF HandlerType, CheckSlug
<1>10. CASE /\ InsertOrganization(p) /\ ~SlugTaken(h[p].slug)
            /\ h'[p] = [h[p] EXCEPT !.at = "commit"]
  <2>1. /\ h'[p].flow = h[p].flow /\ h'[p].user = h[p].user /\ h'[p].request = h[p].request
        /\ h'[p].slug = h[p].slug
    BY <1>0, <1>10 DEF HandlerType
  <2>2. h[p].at = "insert"
    BY <1>10 DEF InsertOrganization
  <2> QED BY <1>10, <2>1, <2>2
<1>11. UNCHANGED h \/ Moved(p) \/ h'[p] = h[p]
  BY Moves
<1> HIDE DEF At, Creating
<1>12. CASE \E u \in Users, key \in Keys, name \in Names :
              /\ Create(p, u, key, name)
              /\ h'[p] = [Idle EXCEPT !.at = "slug", !.user = u,
                            !.request = [key |-> key, name |-> name], !.slug = SlugOf[name]]
  <2>1. PICK u \in Users, key \in Keys, name \in Names :
          /\ Create(p, u, key, name)
          /\ h'[p] = [Idle EXCEPT !.at = "slug", !.user = u,
                        !.request = [key |-> key, name |-> name], !.slug = SlugOf[name]]
    BY <1>12
  <2>2. /\ h'[p].flow = None /\ h'[p].at = "slug"
        /\ h'[p].user = u /\ h'[p].request = [key |-> key, name |-> name]
    BY <2>1 DEF Idle
  <2> QED BY <2>1, <2>2
<1>14. CASE \E f \in Flows : /\ ConsumeFlow(p, f)
                             /\ h'[p] = [Idle EXCEPT !.at = "identify", !.flow = f]
  <2>1. PICK f \in Flows : ConsumeFlow(p, f) /\ h'[p].flow = f /\ h'[p].at = "identify"
    BY <1>2, <1>14
  <2> QED BY <2>1 DEF Creating
<1>15. CASE \E u \in Users : List(p, u) /\ h'[p] = [Idle EXCEPT !.at = "onboard", !.user = u]
  BY <1>4, <1>15 DEF Creating
<1>13. CASE \/ \E u \in Users, at \in {"onboard", "session", "token"}, last \in {"session", "token"} :
                 Identify(p, u) /\ h'[p] = [h[p] EXCEPT !.user = u, !.then = last, !.at = at]
            \/ \E s \in AllSlugs :
                 ChooseSlug(p) /\ h'[p] = [h[p] EXCEPT !.at = "insert", !.slug = s]
  BY <1>3, <1>8, <1>13 DEF Creating
<1> QED BY <1>1, <1>6, <1>7, <1>9, <1>10, <1>11, <1>12, <1>13, <1>14, <1>15 DEF Moved

LEMMA HandlerStep ==
  ASSUME TypeOK, HandlerInv, [Next]_vars
  PROVE  HandlerInv'
<1> DEFINE Fine(v) ==
      /\ v.at \in {"identify", "session", "token"} \/ v.then # "done" => v.flow \in Flows
      /\ v.at \in Creating \cup {"onboard", "session", "token"} => v.user \in Users
      /\ v.at \in {"identify", "onboard"} => v.request = Default
      /\ v.at \in Creating /\ v.request # Default => v.slug = SlugOf[v.request.name]
<1> SUFFICES ASSUME NEW p \in Handlers
             PROVE  Fine(h'[p])
  BY DEF HandlerInv
<1> USE DEF At, Creating
<1>0. h[p] \in HandlerType /\ Fine(h[p])
  BY DEF TypeOK, HandlerType, HandlerInv
<1>1. CASE h'[p] = h[p] \/ h'[p] = Idle
  BY <1>0, <1>1, IdleFields
<1>2. ASSUME NEW f \in Flows, h'[p] = [Idle EXCEPT !.at = "identify", !.flow = f]
      PROVE  Fine(h'[p])
  BY <1>2 DEF Idle
<1>3. ASSUME NEW u \in Users, NEW at \in {"onboard", "session", "token"},
             NEW last \in {"session", "token"}, Identify(p, u),
             h'[p] = [h[p] EXCEPT !.user = u, !.then = last, !.at = at]
      PROVE  Fine(h'[p])
  <2>1. h[p].flow \in Flows /\ h[p].request = Default
    BY <1>0, <1>3 DEF Identify
  <2> QED BY <1>0, <1>3, <2>1 DEF HandlerType
<1>4. ASSUME NEW u \in Users, h'[p] = [Idle EXCEPT !.at = "onboard", !.user = u]
      PROVE  Fine(h'[p])
  BY <1>4 DEF Idle
<1>5. ASSUME NEW u \in Users, NEW key \in Keys, NEW name \in Names,
             h'[p] = [Idle EXCEPT !.at = "slug", !.user = u,
                        !.request = [key |-> key, name |-> name], !.slug = SlugOf[name]]
      PROVE  Fine(h'[p])
  BY <1>5 DEF Idle
<1>6. CASE /\ h[p].at \in {"onboard", "commit"} /\ h[p].then # "done"
           /\ h'[p] = [h[p] EXCEPT !.at = h[p].then, !.request = Default]
  BY <1>0, <1>6 DEF HandlerType
<1>7. CASE CheckMembership(p) /\ h'[p] = [h[p] EXCEPT !.at = "slug"]
  BY <1>0, <1>7 DEF HandlerType, CheckMembership
<1>8. ASSUME NEW s \in AllSlugs, ChooseSlug(p), h'[p] = [h[p] EXCEPT !.at = "insert", !.slug = s]
      PROVE  Fine(h'[p])
  <2>1. h[p].at = "slug" /\ h[p].request = Default
    BY <1>8 DEF ChooseSlug
  <2> QED BY <1>0, <1>8, <2>1 DEF HandlerType
<1>9. CASE CheckSlug(p) /\ h'[p] = [h[p] EXCEPT !.at = "insert"]
  BY <1>0, <1>9 DEF HandlerType, CheckSlug
<1>10. CASE InsertOrganization(p) /\ h'[p] = [h[p] EXCEPT !.at = "commit"]
  BY <1>0, <1>10 DEF HandlerType, InsertOrganization
<1>11. UNCHANGED h \/ Moved(p) \/ h'[p] = h[p]
  BY Moves
<1> HIDE DEF At, Creating, Fine
<1> QED BY <1>1, <1>2, <1>3, <1>4, <1>5, <1>6, <1>7, <1>8, <1>9, <1>10, <1>11 DEF Moved

\* Organizations are made by commits.
LEMMA OrgsChange ==
  ASSUME TypeOK, HandlerInv, [Next]_vars
  PROVE  /\ orgs' \subseteq OrgType
         /\ \/ UNCHANGED orgs
            \/ \E p \in Handlers :
                 /\ Commit(p) /\ h'[p].at # "commit" /\ h'[p].at \notin Creating
                 /\ UNCHANGED <<refused, token, login, flow>>
                 /\ orgs' = orgs \cup {[slug |-> h[p].slug, user |-> h[p].user,
                                        request |-> h[p].request]}
<1>0. orgs \subseteq OrgType /\ h \in [Handlers -> HandlerType]
  BY DEF TypeOK, OrgType, HandlerType
<1>1. ASSUME NEW p \in Handlers, Commit(p)
      PROVE  /\ h'[p].at # "commit" /\ h'[p].at \notin Creating
             /\ UNCHANGED <<refused, token, login, flow>>
             /\ orgs' = orgs \cup {[slug |-> h[p].slug, user |-> h[p].user,
                                    request |-> h[p].request]}
             /\ orgs' \subseteq OrgType
  <2>1. \/ h' = [h EXCEPT ![p] = Idle]
        \/ /\ h[p].then # "done"
           /\ h' = [h EXCEPT ![p].at = h[p].then, ![p].request = Default]
    BY <1>1 DEF Commit, Continue, End
  <2>2. h'[p].at \in {"idle", "session", "token"}
    BY <1>0, <2>1, IdleFields DEF HandlerType
  <2>3. h[p].user \in Users /\ h[p].slug \in AllSlugs /\ h[p].request \in RequestType
    BY <1>0, <1>1 DEF Commit, At, HandlerInv, Creating, HandlerType
  <2>4. orgs' = orgs \cup {[slug |-> h[p].slug, user |-> h[p].user, request |-> h[p].request]}
    BY <1>1 DEF Commit
  <2> QED BY <1>0, <1>1, <2>2, <2>3, <2>4 DEF OrgType, Creating, Commit
<1>2. UNCHANGED orgs \/ \E p \in Handlers : Commit(p)
  BY Steps DEF vars, WebStart, CliStart, CliPoll, CliGivesUp, Logout, RevokeToken, ExpireLogin,
       ExpireFlow, ChangeAccess, ConsumeFlow, Identify, List, Create, InsertSession,
       CompleteCliLogin, CheckMembership, ChooseSlug, CheckSlug, InsertOrganization, Abort
<1> QED BY <1>0, <1>1, <1>2

\* Requests are refused for a slug that is taken.
LEMMA RefusedChange ==
  ASSUME TypeOK, HandlerInv, [Next]_vars
  PROVE  /\ refused' \subseteq Users \X RequestType
         /\ \/ UNCHANGED refused
            \/ \E p \in Handlers :
                 /\ h[p].at \in {"slug", "insert"} /\ SlugTaken(h[p].slug)
                 /\ h[p].request # Default /\ UNCHANGED orgs
                 /\ refused' = refused \cup {<<h[p].user, h[p].request>>}
<1>0. refused \subseteq Users \X RequestType /\ h \in [Handlers -> HandlerType]
  BY DEF TypeOK, HandlerType
<1>1. ASSUME NEW p \in Handlers, CheckSlug(p) \/ InsertOrganization(p)
      PROVE  \/ UNCHANGED refused
             \/ /\ h[p].at \in {"slug", "insert"} /\ SlugTaken(h[p].slug)
                /\ h[p].request # Default /\ UNCHANGED orgs
                /\ refused' = refused \cup {<<h[p].user, h[p].request>>}
                /\ refused' \subseteq Users \X RequestType
  <2>1. h[p].at \in {"slug", "insert"} /\ UNCHANGED orgs
    BY <1>1 DEF CheckSlug, InsertOrganization, At
  <2>2. h[p].user \in Users /\ h[p].request \in RequestType
    BY <1>0, <2>1 DEF HandlerInv, Creating, HandlerType
  <2>3. \/ UNCHANGED refused
        \/ /\ SlugTaken(h[p].slug) /\ h[p].request # Default
           /\ refused' = refused \cup {<<h[p].user, h[p].request>>}
    BY <1>1 DEF CheckSlug, InsertOrganization, Refuse
  <2> QED BY <1>0, <2>1, <2>2, <2>3
<1>2. UNCHANGED refused \/ \E p \in Handlers : CheckSlug(p) \/ InsertOrganization(p)
  BY Steps DEF vars, WebStart, CliStart, CliPoll, CliGivesUp, Logout, RevokeToken, ExpireLogin,
       ExpireFlow, ChangeAccess, ConsumeFlow, Identify, List, Create, InsertSession,
       CompleteCliLogin, CheckMembership, ChooseSlug, Commit, Abort
<1> QED BY <1>0, <1>1, <1>2

\* A flow once gone stays so, and the token of a login is the one it holds.
LEMMA TokenChange ==
  ASSUME TypeOK, HandlerInv, FlowInv, [Next]_vars
  PROVE  /\ token' \in [Flows -> TokenType]
         /\ login' \in [Flows -> LoginType]
         /\ flow' \in [Flows -> FlowType]
         /\ \A f \in Flows :
              /\ token'[f].count = login'[f].token
              /\ flow[f].status = "gone" => flow'[f].status = "gone"
              /\ \/ token'[f].count = token[f].count
                 \/ /\ flow[f].status = "gone"
                    /\ \E p \in Handlers : CompleteCliLogin(p) /\ h[p].flow = f
<1>0. /\ token \in [Flows -> TokenType] /\ login \in [Flows -> LoginType]
      /\ flow \in [Flows -> FlowType]
      /\ h \in [Handlers -> HandlerType]
      /\ \A f \in Flows : token[f].count = login[f].token
  BY DEF TypeOK, TokenType, LoginType, FlowType, HandlerType, FlowInv
<1> DEFINE Kept == /\ token' \in [Flows -> TokenType] /\ login' \in [Flows -> LoginType]
                   /\ \A f \in Flows : /\ token'[f].count = login'[f].token
                                       /\ token'[f].count = token[f].count
<1>1. ASSUME NEW p \in Handlers, CompleteCliLogin(p)
      PROVE  /\ token' \in [Flows -> TokenType] /\ login' \in [Flows -> LoginType]
             /\ UNCHANGED flow /\ h[p].flow \in Flows /\ flow[h[p].flow].status = "gone"
             /\ \A f \in Flows : /\ token'[f].count = login'[f].token
                                 /\ f # h[p].flow => token'[f].count = token[f].count
  <2> DEFINE f == h[p].flow
  <2>1. /\ f \in Flows /\ flow[f].status = "gone" /\ token[f].count = 0 /\ login[f].token = 0
        /\ h[p].user \in Users \cup {None}
    BY <1>0, <1>1 DEF CompleteCliLogin, At, HandlerInv, FlowInv, HandlerType
  <2>2. \/ UNCHANGED <<token, login>>
        \/ /\ token' = [token EXCEPT ![f] = [count |-> token[f].count + 1, user |-> h[p].user,
                                             live |-> TRUE]]
           /\ login' = [login EXCEPT ![f].token = token[f].count + 1]
    BY <1>0, <1>1, <2>1 DEF CompleteCliLogin, Committed, MintedFor
  <2>3. [count |-> 1, user |-> h[p].user, live |-> TRUE] \in TokenType
    BY <2>1 DEF TokenType
  <2>4. [login[f] EXCEPT !.token = 1] \in LoginType
    BY <1>0, <2>1 DEF LoginType
  <2>5. CASE UNCHANGED <<token, login>>
    BY <1>0, <1>1, <2>1, <2>5 DEF CompleteCliLogin
  <2>6. CASE /\ token' = [token EXCEPT ![f] = [count |-> 1, user |-> h[p].user, live |-> TRUE]]
             /\ login' = [login EXCEPT ![f] = [login[f] EXCEPT !.token = 1]]
    <3>1. token' \in [Flows -> TokenType] /\ login' \in [Flows -> LoginType]
      BY <1>0, <2>3, <2>4, <2>6
    <3>2. token'[f].count = 1 /\ login'[f].token = 1
      BY <1>0, <2>1, <2>6 DEF LoginType
    <3>3. \A g \in Flows \ {f} : token'[g] = token[g] /\ login'[g] = login[g]
      BY <1>0, <2>6
    <3>4. \A g \in Flows : /\ token'[g].count = login'[g].token
                           /\ g # f => token'[g].count = token[g].count
      BY <1>0, <3>2, <3>3
    <3> QED BY <1>1, <2>1, <3>1, <3>4 DEF CompleteCliLogin
  <2>7. token[f].count + 1 = 1
    BY <2>1
  <2>8. [login EXCEPT ![f].token = 1] = [login EXCEPT ![f] = [login[f] EXCEPT !.token = 1]]
    BY <1>0
  <2> QED BY <2>2, <2>5, <2>6, <2>7, <2>8
<1>2. ASSUME NEW f \in Flows, CliStart(f)
      PROVE  Kept /\ flow' = Opened(f, "cli") /\ flow[f].status = "none"
  <2>1. token[f].count = 0
    BY <1>2 DEF CliStart, FlowInv
  <2>2. [status |-> "open", token |-> 0, cli |-> "polling"] \in LoginType
    BY DEF LoginType
  <2>3. login' \in [Flows -> LoginType]
    BY <1>0, <1>2, <2>2 DEF CliStart
  <2> QED BY <1>0, <1>2, <2>1, <2>3 DEF CliStart
<1>3. ASSUME NEW f \in Flows, CliPoll(f) \/ CliGivesUp(f) \/ ExpireLogin(f)
      PROVE  Kept /\ UNCHANGED flow
  <2>1. \/ \E cli \in {"saved", "failed"} : login' = [login EXCEPT ![f].cli = cli]
        \/ login' = [login EXCEPT ![f].status = "expired"]
    BY <1>3 DEF CliPoll, CliGivesUp, ExpireLogin
  <2>3. ASSUME NEW r \in LoginType, r.token = login[f].token, login' = [login EXCEPT ![f] = r]
        PROVE  login' \in [Flows -> LoginType] /\ \A g \in Flows : login'[g].token = login[g].token
    BY <1>0, <2>3
  <2>4. \A cli \in {"saved", "failed"} :
          /\ [login[f] EXCEPT !.cli = cli] \in LoginType
          /\ [login[f] EXCEPT !.cli = cli].token = login[f].token
    BY <1>0 DEF LoginType
  <2>5. /\ [login[f] EXCEPT !.status = "expired"] \in LoginType
        /\ [login[f] EXCEPT !.status = "expired"].token = login[f].token
    BY <1>0 DEF LoginType
  <2>6. \/ \E cli \in {"saved", "failed"} :
             login' = [login EXCEPT ![f] = [login[f] EXCEPT !.cli = cli]]
        \/ login' = [login EXCEPT ![f] = [login[f] EXCEPT !.status = "expired"]]
    BY <1>0, <2>1
  <2>2. login' \in [Flows -> LoginType] /\ \A g \in Flows : login'[g].token = login[g].token
    BY <2>3, <2>4, <2>5, <2>6
  <2> QED BY <1>0, <1>3, <2>2 DEF CliPoll, CliGivesUp, ExpireLogin
<1>4. ASSUME NEW f \in Flows, RevokeToken(f)
      PROVE  Kept /\ UNCHANGED flow
  <2>1. token' = [token EXCEPT ![f] = [token[f] EXCEPT !.live = FALSE]] /\ UNCHANGED <<login, flow>>
    BY <1>0, <1>4 DEF RevokeToken
  <2>2. [token[f] EXCEPT !.live = FALSE] \in TokenType
    BY <1>0 DEF TokenType
  <2>3. [token[f] EXCEPT !.live = FALSE].count = token[f].count
    BY <1>0 DEF TokenType
  <2>4. token' \in [Flows -> TokenType]
    BY <1>0, <2>1, <2>2
  <2>5. \A g \in Flows : token'[g].count = token[g].count
    BY <1>0, <2>1, <2>3
  <2> QED BY <1>0, <2>1, <2>4, <2>5
<1>5. ASSUME UNCHANGED <<token, login>>
      PROVE  Kept
  BY <1>0, <1>5
<1>6. \/ UNCHANGED <<token, login>>
      \/ \E p \in Handlers : CompleteCliLogin(p)
      \/ \E f \in Flows :
           CliStart(f) \/ CliPoll(f) \/ CliGivesUp(f) \/ ExpireLogin(f) \/ RevokeToken(f)
  BY Steps DEF vars, WebStart, Logout, ExpireFlow, ChangeAccess, ConsumeFlow, Identify, List,
       Create, InsertSession, CheckMembership, ChooseSlug, CheckSlug, InsertOrganization, Commit,
       Abort
<1>7. /\ flow' \in [Flows -> FlowType]
      /\ \A f \in Flows : flow[f].status = "gone" => flow'[f].status = "gone"
  <2>1. \/ UNCHANGED flow
        \/ \E f \in Flows, kind \in {"web", "cli"} :
             /\ flow[f].status = "none"
             /\ flow' = [flow EXCEPT ![f] = [kind |-> kind, status |-> "open"]]
        \/ \E f \in Flows : flow' = [flow EXCEPT ![f].status = "gone"]
    BY Steps DEF vars, WebStart, CliStart, CliPoll, CliGivesUp, Logout, RevokeToken, ExpireLogin,
         ExpireFlow, ChangeAccess, ConsumeFlow, Identify, List, Create, InsertSession,
         CompleteCliLogin, CheckMembership, ChooseSlug, CheckSlug, InsertOrganization, Commit,
         Abort, Opened, Consumed, Gone
  <2>2. ASSUME NEW f \in Flows, NEW kind \in {"web", "cli"}, flow[f].status = "none",
               flow' = [flow EXCEPT ![f] = [kind |-> kind, status |-> "open"]]
        PROVE  /\ flow' \in [Flows -> FlowType]
               /\ \A g \in Flows : flow[g].status = "gone" => flow'[g].status = "gone"
    <3>1. [kind |-> kind, status |-> "open"] \in FlowType
      BY DEF FlowType
    <3> QED BY <1>0, <2>2, <3>1
  <2>3. ASSUME NEW f \in Flows, flow' = [flow EXCEPT ![f].status = "gone"]
        PROVE  /\ flow' \in [Flows -> FlowType]
               /\ \A g \in Flows : flow[g].status = "gone" => flow'[g].status = "gone"
    <3>1. /\ [flow[f] EXCEPT !.status = "gone"] \in FlowType
          /\ [flow[f] EXCEPT !.status = "gone"].status = "gone"
      BY <1>0 DEF FlowType
    <3> QED BY <1>0, <2>3, <3>1
  <2> QED BY <1>0, <2>1, <2>2, <2>3
<1>8. CASE Kept
  BY <1>7, <1>8
<1>9. CASE \E p \in Handlers : CompleteCliLogin(p)
  BY <1>1, <1>7, <1>9
<1> QED BY <1>2, <1>3, <1>4, <1>5, <1>6, <1>8, <1>9

\* Only the handler that consumed a flow starts its session.
LEMMA SessionChange ==
  ASSUME TypeOK, HandlerInv, FlowInv, [Next]_vars
  PROVE  /\ session' \in [Flows -> SessionType]
         /\ \A f \in Flows : \/ session'[f].count = session[f].count
                            \/ \E p \in Handlers : InsertSession(p) /\ h[p].flow = f
<1>0. session \in [Flows -> SessionType]
  BY DEF TypeOK, SessionType
<1>1. ASSUME NEW p \in Handlers, InsertSession(p)
      PROVE  /\ session' \in [Flows -> SessionType]
             /\ \A f \in Flows : f # h[p].flow => session'[f].count = session[f].count
  <2> DEFINE f == h[p].flow
  <2>1. f \in Flows /\ h[p].user \in Users /\ session[f].count = 0
    BY <1>1 DEF InsertSession, At, HandlerInv, FlowInv
  <2>2. session' = [session EXCEPT ![f] = [count |-> session[f].count + 1,
                                           user |-> h[p].user]]
    BY <1>0, <1>1 DEF InsertSession
  <2>3. session[f].count + 1 = 1
    BY <2>1
  <2>4. [count |-> session[f].count + 1, user |-> h[p].user] \in SessionType
    BY <2>1, <2>3 DEF SessionType
  <2> HIDE DEF f
  <2> QED BY <1>0, <2>1, <2>2, <2>4 DEF f
<1>2. ASSUME NEW f \in Flows, Logout(f)
      PROVE  /\ session' \in [Flows -> SessionType]
             /\ \A g \in Flows : session'[g].count = session[g].count
  <2>1. session' = [session EXCEPT ![f] = [session[f] EXCEPT !.user = None]]
    BY <1>0, <1>2 DEF Logout
  <2>2. /\ [session[f] EXCEPT !.user = None] \in SessionType
        /\ [session[f] EXCEPT !.user = None].count = session[f].count
    BY <1>0 DEF SessionType
  <2> QED BY <1>0, <2>1, <2>2
<1>3. \/ UNCHANGED session
      \/ \E p \in Handlers : InsertSession(p)
      \/ \E f \in Flows : Logout(f)
  BY Steps DEF vars, WebStart, CliStart, CliPoll, CliGivesUp, RevokeToken, ExpireLogin,
       ExpireFlow, ChangeAccess, ConsumeFlow, Identify, List, Create,
       CompleteCliLogin, CheckMembership, ChooseSlug, CheckSlug, InsertOrganization, Commit, Abort
<1>4. CASE UNCHANGED session
  BY <1>0, <1>4
<1>5. CASE \E p \in Handlers : InsertSession(p)
  BY <1>1, <1>5
<1>6. CASE \E f \in Flows : Logout(f)
  BY <1>2, <1>6
<1> QED BY <1>3, <1>4, <1>5, <1>6

-----------------------------------------------------------------------------
(* The conjuncts                                                           *)

LEMMA FlowStep ==
  ASSUME TypeOK, HandlerInv, FlowInv, [Next]_vars
  PROVE  FlowInv'
<1>1. /\ \A f \in Flows : token'[f].count = login'[f].token
      /\ \A f \in Flows : flow[f].status = "gone" => flow'[f].status = "gone"
      /\ \A f \in Flows : \/ token'[f].count = token[f].count
                          \/ /\ flow[f].status = "gone"
                             /\ \E p \in Handlers : CompleteCliLogin(p) /\ h[p].flow = f
  BY TokenChange
<1>2. \A f \in Flows : \/ session'[f].count = session[f].count
                      \/ \E p \in Handlers : InsertSession(p) /\ h[p].flow = f
  BY SessionChange
<1>3. \A f \in Flows : flow'[f].status # "gone" => session'[f].count = 0 /\ token'[f].count = 0
  BY <1>1, <1>2 DEF FlowInv
<1>4. None \notin Flows
  BY AccountsAssumption
<1>5. h \in [Handlers -> HandlerType] /\ flow \in [Flows -> FlowType]
  BY DEF TypeOK, HandlerType, FlowType
<1>6. ASSUME NEW p \in Handlers, NEW f \in Flows, ConsumeFlow(p, f)
      PROVE  /\ flow[f].status = "open" /\ flow'[f].status = "gone"
             /\ \A q \in Handlers \ {p} : h'[q] = h[q]
  BY <1>5, <1>6 DEF ConsumeFlow, Consumed, Gone
<1>7. ASSUME NEW p \in Handlers, CompleteCliLogin(p) \/ InsertSession(p)
      PROVE  h'[p].flow = None
  BY <1>5, <1>7, IdleFields DEF CompleteCliLogin, InsertSession, End
<1>8. ASSUME NEW p \in Handlers, NEW f \in Flows, h'[p].flow = f
      PROVE  \/ h[p].flow = f
             \/ ConsumeFlow(p, f)
  BY <1>4, <1>8, Before
<1>9. ASSUME NEW p \in Handlers, NEW f \in Flows, h'[p].flow = f
      PROVE  /\ flow'[f].status = "gone" /\ session'[f].count = 0 /\ token'[f].count = 0
             /\ \A q \in Handlers \ {p} : h'[q].flow # f
  <2>1. CASE h[p].flow = f
    <3>1. /\ flow[f].status = "gone" /\ session[f].count = 0 /\ token[f].count = 0
          /\ \A q \in Handlers \ {p} : h[q].flow # f
      BY <2>1 DEF FlowInv
    <3>2. session'[f].count = 0 /\ token'[f].count = 0
      BY <1>1, <1>2, <1>4, <1>7, <1>9, <3>1
    <3>3. ASSUME NEW q \in Handlers \ {p}
          PROVE  h'[q].flow # f
      BY <1>6, <1>8, <3>1
    <3> QED BY <1>1, <3>1, <3>2, <3>3
  <2>2. CASE ConsumeFlow(p, f)
    <3>1. flow[f].status = "open" /\ flow'[f].status = "gone"
      BY <1>6, <2>2
    <3>2. session'[f].count = 0 /\ token'[f].count = 0
      BY <1>1, <1>2, <3>1 DEF FlowInv
    <3>3. ASSUME NEW q \in Handlers \ {p}
          PROVE  h'[q].flow # f
      <4>1. h'[q] = h[q]
        BY <1>6, <2>2
      <4>2. h[q].flow = f => flow[f].status = "gone"
        BY DEF FlowInv
      <4> QED BY <3>1, <4>1, <4>2
    <3> QED BY <3>1, <3>2, <3>3
  <2> QED BY <1>8, <1>9, <2>1, <2>2
<1>10. ASSUME NEW f \in Flows
       PROVE  session'[f].count + token'[f].count <= 1
  <2>1. session'[f].count \in 0 .. 1 /\ token'[f].count \in 0 .. 1
    BY TokenChange, SessionChange DEF SessionType, TokenType
  <2>2. CASE session'[f].count = session[f].count /\ token'[f].count = token[f].count
    BY <2>2 DEF FlowInv
  <2>3. ASSUME NEW p \in Handlers, CompleteCliLogin(p), h[p].flow = f
        PROVE  session'[f].count = 0
    BY <2>3 DEF FlowInv, CompleteCliLogin
  <2>4. ASSUME NEW p \in Handlers, InsertSession(p), h[p].flow = f
        PROVE  token'[f].count = 0
    BY <2>4 DEF FlowInv, InsertSession
  <2> QED BY <1>1, <1>2, <2>1, <2>2, <2>3, <2>4
<1> QED BY <1>1, <1>3, <1>9, <1>10 DEF FlowInv

LEMMA LockStep ==
  ASSUME TypeOK, HandlerInv, LockInv, [Next]_vars
  PROVE  LockInv'
<1>0. h \in [Handlers -> HandlerType]
  BY DEF TypeOK, HandlerType
<1> DEFINE In(v) == v.at \in Creating
<1>1. /\ \A p \in Handlers : InTransaction(p) <=> In(h[p])
      /\ \A p \in Handlers : InTransaction(p)' <=> In(h'[p])
  BY DEF InTransaction, Creating
<1>a. /\ \A p, q \in Handlers :
           p # q /\ In(h[p]) /\ In(h[q]) /\ h[p].user = h[q].user
             => h[p].request.key # h[q].request.key
      /\ \A p \in Handlers, o \in orgs :
           In(h[p]) /\ o.user = h[p].user => o.request.key # h[p].request.key
      /\ \A o, x \in orgs : o.user = x.user /\ o.request.key = x.request.key => o = x
  BY <1>1 DEF LockInv
<1> DEFINE Started(p) ==
      /\ In(h'[p])
      /\ \A q \in Handlers \ {p} :
           In(h[q]) /\ h[q].user = h'[p].user => h[q].request.key # h'[p].request.key
      /\ \A o \in orgs : o.user = h'[p].user => o.request.key # h'[p].request.key
<1>2. ASSUME NEW p \in Handlers, In(h'[p])
      PROVE  Started(p)
  <2>1. CASE /\ h'[p].user = h[p].user /\ h'[p].request = h[p].request
             /\ h[p].at \in Creating
    BY <1>a, <1>2, <2>1
  <2>2. CASE /\ CheckMembership(p) /\ ~IsMember(h[p].user)
             /\ h'[p] = [h[p] EXCEPT !.at = "slug"]
    <3>1. h'[p].user = h[p].user /\ h'[p].request = h[p].request
      BY <1>0, <2>2 DEF HandlerType
    <3>2. h[p].request = Default
      BY <2>2 DEF CheckMembership, At, HandlerInv
    <3>3. \A o \in orgs : o.user # h[p].user
      BY <2>2 DEF IsMember, Owned
    <3>4. ASSUME NEW q \in Handlers \ {p}, In(h[q]), h[q].user = h[p].user
          PROVE  h[q].request.key # h[p].request.key
      <4>1. h[q].request # Default
        BY <1>1, <2>2, <3>2, <3>4 DEF CheckMembership, OnboardingFree
      <4>2. h[q].request \in RequestType
        BY <1>0 DEF HandlerType
      <4> QED BY <3>2, <4>1, <4>2, Types
    <3> QED BY <1>2, <3>1, <3>3, <3>4
  <2>3. ASSUME NEW u \in Users, NEW key \in Keys, NEW name \in Names, Create(p, u, key, name),
               h'[p].user = u, h'[p].request = [key |-> key, name |-> name]
        PROVE  Started(p)
    <3>1. h'[p].request.key = key
      BY <2>3
    <3>2. \A o \in orgs : o.user = u => o.request.key # key
      BY <2>3 DEF Create, CreatedBy, Owned
    <3>3. \A q \in Handlers \ {p} : In(h[q]) /\ h[q].user = u => h[q].request.key # key
      BY <1>1, <2>3 DEF Create, CreateFree
    <3> QED BY <1>2, <2>3, <3>1, <3>2, <3>3
  <2> HIDE DEF Started
  <2> QED BY <1>2, <2>1, <2>2, <2>3, Before
<1>3. ASSUME NEW p \in Handlers, NEW q \in Handlers, p # q, h'[q] = h[q],
             In(h'[p]), In(h'[q]), h'[p].user = h'[q].user
      PROVE  h'[p].request.key # h'[q].request.key
  BY <1>2, <1>3
<1>4. ASSUME NEW p \in Handlers, NEW q \in Handlers, p # q
      PROVE  h'[p] = h[p] \/ h'[q] = h[q]
  BY <1>4, Moves
<1>5. ASSUME NEW p \in Handlers, NEW q \in Handlers, p # q,
             In(h'[p]), In(h'[q]), h'[p].user = h'[q].user
      PROVE  h'[p].request.key # h'[q].request.key
  <2>1. CASE h'[q] = h[q]
    BY <1>3, <1>5, <2>1
  <2>2. CASE h'[p] = h[p]
    <3>1. h'[q].request.key # h'[p].request.key
      BY <1>3, <1>5, <2>2
    <3> QED BY <3>1
  <2> QED BY <1>4, <1>5, <2>1, <2>2
<1> DEFINE Made(p) == [slug |-> h[p].slug, user |-> h[p].user, request |-> h[p].request]
<1>6. \/ UNCHANGED orgs
      \/ \E p \in Handlers : /\ Commit(p) /\ ~In(h'[p])
                             /\ orgs' = orgs \cup {Made(p)}
  BY OrgsChange
<1>7. ASSUME NEW p \in Handlers, Commit(p)
      PROVE  In(h[p]) /\ \A q \in Handlers \ {p} : h'[q] = h[q]
  BY <1>0, <1>7 DEF Commit, At, Creating, Continue, End
<1>8. \A p \in Handlers : Made(p).user = h[p].user /\ Made(p).request = h[p].request
  OBVIOUS
<1> HIDE DEF Started, In, Made
<1>9. ASSUME NEW p \in Handlers, NEW o \in orgs', In(h'[p]), o.user = h'[p].user
      PROVE  o.request.key # h'[p].request.key
  <2>1. CASE o \in orgs
    BY <1>2, <1>9, <2>1 DEF Started
  <2>2. ASSUME NEW q \in Handlers, Commit(q), ~In(h'[q]), o = Made(q)
        PROVE  o.request.key # h'[p].request.key
    <3>1. p # q
      BY <1>9, <2>2
    <3>2. h'[p] = h[p] /\ In(h[q])
      BY <1>7, <2>2, <3>1
    <3> QED BY <1>a, <1>8, <1>9, <2>2, <3>1, <3>2
  <2> QED BY <1>6, <2>1, <2>2
<1>10. ASSUME NEW o \in orgs', NEW x \in orgs', o.user = x.user, o.request.key = x.request.key
       PROVE  o = x
  <2>1. ASSUME NEW p \in Handlers, Commit(p), NEW y \in orgs, y.user = Made(p).user
        PROVE  y.request.key # Made(p).request.key
    BY <1>a, <1>7, <1>8, <2>1
  <2> QED BY <1>a, <1>6, <1>10, <2>1
<1> QED BY <1>1, <1>5, <1>9, <1>10 DEF LockInv

LEMMA SlugStep ==
  ASSUME TypeOK, HandlerInv, SlugInv, [Next]_vars
  PROVE  SlugInv'
<1>0. h \in [Handlers -> HandlerType]
  BY DEF TypeOK, HandlerType
<1> USE DEF At
<1>1. ASSUME NEW p \in Handlers, h'[p].at = "commit"
      PROVE  \/ h'[p] = h[p]
             \/ InsertOrganization(p) /\ ~SlugTaken(h[p].slug) /\ h'[p].slug = h[p].slug
  BY <1>1, Before
<1>2. ASSUME NEW p \in Handlers, InsertOrganization(p)
      PROVE  /\ h[p].at = "insert" /\ UNCHANGED orgs
             /\ \A q \in Handlers \ {p} :
                  h'[q] = h[q] /\ ~(h[q].at = "commit" /\ h[q].slug = h[p].slug)
  BY <1>0, <1>2 DEF InsertOrganization, Inserting, Refuse, Goto, End
<1>3. \/ UNCHANGED orgs
      \/ \E p \in Handlers :
           /\ Commit(p) /\ h'[p].at # "commit"
           /\ orgs' = orgs \cup {[slug |-> h[p].slug, user |-> h[p].user,
                                  request |-> h[p].request]}
  BY OrgsChange
<1>4. ASSUME NEW p \in Handlers, h'[p].at = "commit", NEW o \in orgs'
      PROVE  o.slug # h'[p].slug
  <2>1. CASE InsertOrganization(p) /\ ~SlugTaken(h[p].slug) /\ h'[p].slug = h[p].slug
    BY <1>2, <2>1 DEF SlugTaken
  <2>2. CASE h'[p] = h[p]
    <3>1. CASE o \in orgs
      BY <1>4, <2>2, <3>1 DEF SlugInv, SlugTaken
    <3>2. ASSUME NEW q \in Handlers, Commit(q), h'[q].at # "commit", o.slug = h[q].slug
          PROVE  o.slug # h'[p].slug
      <4>1. p # q /\ h[q].at = "commit" /\ h[p].at = "commit"
        BY <1>4, <2>2, <3>2 DEF Commit
      <4> QED BY <2>2, <3>2, <4>1 DEF SlugInv
    <3> QED BY <1>3, <3>1, <3>2
  <2> QED BY <1>1, <1>4, <2>1, <2>2
<1>5. ASSUME NEW p \in Handlers, NEW q \in Handlers, p # q, InsertOrganization(p),
             h'[p].slug = h[p].slug, h'[q].at = "commit"
      PROVE  h'[p].slug # h'[q].slug
  BY <1>2, <1>5
<1>6. ASSUME NEW p \in Handlers, NEW q \in Handlers, p # q, h'[p].at = "commit", h'[q].at = "commit"
      PROVE  h'[p].slug # h'[q].slug
  <2>1. CASE h'[p] = h[p] /\ h'[q] = h[q]
    BY <1>6, <2>1 DEF SlugInv
  <2>2. CASE InsertOrganization(p) /\ h'[p].slug = h[p].slug
    BY <1>5, <1>6, <2>2
  <2>3. CASE InsertOrganization(q) /\ h'[q].slug = h[q].slug
    <3>1. h'[q].slug # h'[p].slug
      BY <1>5, <1>6, <2>3
    <3> QED BY <3>1
  <2> QED BY <1>1, <1>6, <2>1, <2>2, <2>3
<1> QED BY <1>4, <1>6 DEF SlugInv, SlugTaken

LEMMA RefusedStep ==
  ASSUME TypeOK, HandlerInv, LockInv, SlugInv, RefusedInv, RetriesAreNotRefused, [Next]_vars
  PROVE  RefusedInv' /\ RetriesAreNotRefused'
<1>1. orgs \subseteq orgs'
  BY OrgsChange
<1>2. ASSUME NEW p \in Handlers, h[p].at \in Creating, h[p].request # Default
      PROVE  h[p].slug = SlugOf[h[p].request.name]
  BY <1>2 DEF HandlerInv
<1>3. \/ UNCHANGED refused
      \/ \E p \in Handlers :
           /\ h[p].at \in {"slug", "insert"} /\ SlugTaken(h[p].slug)
           /\ h[p].request # Default /\ UNCHANGED orgs
           /\ refused' = refused \cup {<<h[p].user, h[p].request>>}
  BY RefusedChange
<1>4. \/ UNCHANGED orgs
      \/ \E p \in Handlers :
           /\ Commit(p) /\ UNCHANGED refused
           /\ orgs' = orgs \cup {[slug |-> h[p].slug, user |-> h[p].user,
                                  request |-> h[p].request]}
  BY OrgsChange
<1>5. ASSUME NEW x \in refused'
      PROVE  x[2] # Default /\ \E o \in orgs' : o.slug = SlugOf[x[2].name]
  <2>1. CASE x \in refused
    BY <1>1, <2>1 DEF RefusedInv, SlugTaken
  <2>2. ASSUME NEW p \in Handlers, h[p].at \in {"slug", "insert"}, SlugTaken(h[p].slug),
               h[p].request # Default, x = <<h[p].user, h[p].request>>
        PROVE  x[2] # Default /\ \E o \in orgs' : o.slug = SlugOf[x[2].name]
    <3>1. h[p].slug = SlugOf[h[p].request.name]
      BY <1>2, <2>2 DEF Creating
    <3>2. x[2] = h[p].request
      BY <2>2
    <3> QED BY <1>1, <2>2, <3>1, <3>2 DEF SlugTaken
  <2> QED BY <1>3, <2>1, <2>2
<1>6. RetriesAreNotRefused'
  <2>1. CASE UNCHANGED <<orgs, refused>>
    BY <2>1 DEF RetriesAreNotRefused
  <2>2. ASSUME NEW p \in Handlers, h[p].at \in {"slug", "insert"}, UNCHANGED orgs,
               refused' = refused \cup {<<h[p].user, h[p].request>>}
        PROVE  RetriesAreNotRefused'
    <3>1. \A o \in orgs : o.user = h[p].user => o.request.key # h[p].request.key
      BY <2>2 DEF LockInv, InTransaction
    <3>2. \A o \in orgs : <<o.user, o.request>> # <<h[p].user, h[p].request>>
      BY <3>1
    <3> QED BY <2>2, <3>2 DEF RetriesAreNotRefused
  <2>3. ASSUME NEW p \in Handlers, Commit(p), UNCHANGED refused,
               orgs' = orgs \cup {[slug |-> h[p].slug, user |-> h[p].user,
                                   request |-> h[p].request]}
        PROVE  RetriesAreNotRefused'
    <3>1. h[p].at = "commit"
      BY <2>3 DEF Commit, At
    <3>2. ~SlugTaken(h[p].slug)
      BY <3>1 DEF SlugInv, At
    <3>3. <<h[p].user, h[p].request>> \notin refused
      <4>1. ASSUME NEW x \in refused, x = <<h[p].user, h[p].request>>
            PROVE  h[p].request # Default /\ SlugTaken(SlugOf[h[p].request.name])
        <5>1. x[2] = h[p].request
          BY <4>1
        <5> QED BY <5>1 DEF RefusedInv
      <4> QED BY <1>2, <3>1, <3>2, <4>1 DEF Creating
    <3> DEFINE made == [slug |-> h[p].slug, user |-> h[p].user, request |-> h[p].request]
    <3>4. made.user = h[p].user /\ made.request = h[p].request
      OBVIOUS
    <3>5. <<made.user, made.request>> \notin refused
      BY <3>3, <3>4
    <3>6. orgs' = orgs \cup {made}
      BY <2>3
    <3> HIDE DEF made
    <3> QED BY <2>3, <3>5, <3>6 DEF RetriesAreNotRefused
  <2> QED BY <1>3, <1>4, <2>1, <2>2, <2>3
<1> QED BY <1>5, <1>6 DEF RefusedInv, SlugTaken

LEMMA TypeStep ==
  ASSUME TypeOK, HandlerInv, FlowInv, [Next]_vars
  PROVE  TypeOK'
<1>0. h \in [Handlers -> HandlerType]
  BY DEF TypeOK, HandlerType
<1>1. session' \in [Flows -> SessionType]
  BY SessionChange
<1>2. access' \in [Users -> {"none", "invited", "member"}]
  <2>1. \/ UNCHANGED access
        \/ \E u \in Users, a \in {"none", "invited", "member"} : access' = [access EXCEPT ![u] = a]
    BY Steps DEF vars, WebStart, CliStart, CliPoll, CliGivesUp, Logout, RevokeToken, ExpireLogin,
         ExpireFlow, ChangeAccess, ConsumeFlow, Identify, List, Create, InsertSession,
         CompleteCliLogin, CheckMembership, ChooseSlug, CheckSlug, InsertOrganization, Commit, Abort
  <2> QED BY <2>1 DEF TypeOK
<1> QED BY <1>1, <1>2, HandlerTypeStep, OrgsChange, RefusedChange, TokenChange
        DEF TypeOK, HandlerType, OrgType, LoginType, SessionType, TokenType, FlowType

-----------------------------------------------------------------------------
(* Theorems                                                                *)

\* The inductive invariant: what handlers know, whose a sign-in is, what the two
\* advisory locks and the unique slug keep apart, and why a request is refused.
THEOREM Invariance == Spec => []IInv
<1>1. Init => IInv
  BY InitIInv
<1>2. IInv /\ [Next]_vars => IInv'
  <2> SUFFICES ASSUME IInv, [Next]_vars
               PROVE  IInv'
    OBVIOUS
  <2>1. TypeOK /\ HandlerInv /\ FlowInv /\ LockInv /\ SlugInv /\ RefusedInv /\ RetriesAreNotRefused
    BY DEF IInv
  <2>2. TypeOK' /\ HandlerInv' /\ FlowInv' /\ LockInv' /\ SlugInv'
    BY <2>1, TypeStep, HandlerStep, FlowStep, LockStep, SlugStep
  <2>3. RefusedInv' /\ RetriesAreNotRefused'
    BY <2>1, RefusedStep
  <2> QED BY <2>2, <2>3 DEF IInv
<1> QED BY <1>1, <1>2, PTL DEF Spec

\* Every variable has its type, whatever handlers run and whatever aborts: in
\* particular a flow never has two tokens (auth.rs).
THEOREM TypeCorrect == Spec => []TypeOK
<1>1. IInv => TypeOK
  BY DEF IInv
<1> QED BY <1>1, Invariance, PTL

\* ensure_default_organization makes at most one organization for a user, however
\* many sign-ins and lists run at once (organizations.rs): its lock keeps two
\* transactions apart, and the membership check under it finds the first one's.
THEOREM OneDefault == Spec => []OneDefaultOrganization
<1>1. ASSUME IInv, NEW u \in Users
      PROVE  Cardinality({o \in Owned(u) : o.request = Default}) <= 1
  <2> DEFINE S == {o \in Owned(u) : o.request = Default}
  <2>1. \A o, x \in S : o = x
    BY <1>1 DEF IInv, LockInv, Owned
  <2>2. CASE S = {}
    BY <2>2, FS_EmptySet
  <2>3. CASE S # {}
    <3>1. PICK o \in S : TRUE
      BY <2>3
    <3>2. S = {o}
      BY <2>1, <3>1
    <3>3. Cardinality({o}) = 1
      BY FS_Singleton
    <3> QED BY <3>2, <3>3
  <2> QED BY <2>2, <2>3
<1>2. IInv => OneDefaultOrganization
  BY <1>1 DEF OneDefaultOrganization
<1> QED BY <1>2, Invariance, PTL

\* A repeated create request is never refused for the slug of the organization it
\* made (create of organizations.rs): under the lock of its key the search for that
\* organization comes first, and a refused request meets a slug that stays taken.
THEOREM RetriesSucceed == Spec => []RetriesAreNotRefused
<1>1. IInv => RetriesAreNotRefused
  BY DEF IInv
<1> QED BY <1>1, Invariance, PTL

\* A sign-in gives one session or one token (callback of auth.rs): the delete that
\* consumes its flow leaves one handler that can, and that only once; and the
\* token of a request that is over is rolled back with its transaction.
THEOREM OneSignIn == Spec => []SignInsServeOnce
<1>1. IInv => SignInsServeOnce
  BY DEF IInv, FlowInv, SignInsServeOnce
<1> QED BY <1>1, Invariance, PTL
=============================================================================
