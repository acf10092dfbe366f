----------------------- MODULE SlackInstallationProofs -----------------------
(***************************************************************************)
(* Proofs about SlackInstallation, for any organizations, workspaces,      *)
(* names, handlers and numbers of events and installations.                *)
(***************************************************************************)
EXTENDS SlackInstallation, TLAPS

Installing == {"exchange", "ensure", "integration", "installation"}
Recording == {"record", "apply", "mark"}
Delivering == {"post", "refused"}

HandlerType ==
  [at : {"idle", "exchange", "ensure", "integration", "installation", "record",
         "apply", "mark", "post", "refused"},
   org : Orgs \cup {None}, team : Teams, gen : Gens, name : Names,
   locked : BOOLEAN, event : Events \cup {None}]
RowType ==
  [name : Names, status : {"absent", "connected", "needs_attention", "uninstalled"},
   late : BOOLEAN, misjudged : BOOLEAN]
EventType ==
  [kind : Revoking \cup Joining \cup {"other"}, team : Teams, gen : Gens,
   sent : BOOLEAN, row : {"none", "received", "done"}]

\* What a handler at work knows: its organization, and the event it was sent.
HandlerInv ==
  /\ \A f \in Flows : flow[f].status = "open" => flow[f].org \in Orgs
  /\ \A p \in Handlers :
    /\ h[p].at \in Installing \cup {"apply"} \cup Delivering => h[p].org \in Orgs
    /\ h[p].at \in Recording => /\ h[p].event \in Events
                                /\ event[h[p].event].sent
                                /\ h[p].team = event[h[p].event].team
    /\ At(p, "apply") => event[h[p].event].kind \in Revoking \cup {"bot_joined"}

\* What a handler found is still there: rows of slack_installations are not deleted.
SeenInv ==
  \A p \in Handlers :
    h[p].at \in Recording \cup Delivering /\ h[p].org # None => Exists(h[p].org, h[p].team)

\* Nobody holds a token of an installation that Slack has not seen.
GenInv ==
  /\ \A o \in Orgs, n \in Names : token[o][n].gen <= slack[token[o][n].team].gen
  /\ \A p \in Handlers : h[p].gen <= slack[h[p].team].gen
  /\ \A e \in Events : event[e].gen <= slack[event[e].team].gen

\* An event not yet sent is nothing to anyone; one that reports a revocation is
\* right, and so is a worker that was refused.
SentInv ==
  /\ \A e \in Events : ~event[e].sent => event[e].kind = "other" /\ event[e].row = "none"
  /\ \A e \in Events :
       event[e].kind \in Revoking => ~Accepts([team |-> event[e].team, gen |-> event[e].gen])
  /\ \A p \in Handlers :
       At(p, "refused") => ~Accepts([team |-> h[p].team, gen |-> h[p].gen])

\* The installation of t at o looks well and was given in time the token whose
\* end event e reports.
Unaware(o, t, e) ==
  /\ event[e].kind \in Revoking /\ event[e].team = t
  /\ inst[o][t].status = "connected" /\ ~inst[o][t].late
  /\ Stored(o, t).gen = event[e].gen

\* Whoever handles such an event found that installation, and is not done with
\* the event before it has told it.
ToldInv ==
  \A o \in Orgs, t \in Teams, e \in Events :
    Unaware(o, t, e) =>
      /\ event[e].row # "done"
      /\ \A p \in Handlers :
           h[p].at \in Recording /\ h[p].event = e => ~At(p, "mark") /\ h[p].org = o

\* A token that was accepted when it was stored ends with an event.
EndInv ==
  \A o \in Orgs, t \in Teams :
    Exists(o, t) /\ ~Usable(o, t) /\ ~inst[o][t].late =>
      \E e \in Events : /\ event[e].kind \in Revoking /\ event[e].team = t
                        /\ event[e].gen = Stored(o, t).gen

IInv ==
  /\ TypeOK /\ HandlerInv /\ SeenInv /\ GenInv /\ SentInv
  /\ WorkspaceHasOneHome /\ ToldInv /\ EndInv /\ BlameHasACause

-----------------------------------------------------------------------------
(* What a step changes                                                     *)

\* A token a handler stored, in its place.
Storing(p) ==
  LET o == h[p].org  t == h[p].team  n == h[p].name IN
  /\ At(p, "installation") /\ ~TakenByOther(o, t) /\ ~NameTaken(o, t, n)
  /\ token' = [token EXCEPT ![o][n] = [team |-> t, gen |-> h[p].gen]]
  /\ inst' = [inst EXCEPT ![o][t] =
       [name |-> n, status |-> "connected",
        late |-> ~Accepts([team |-> t, gen |-> h[p].gen]), misjudged |-> FALSE]]
  /\ UNCHANGED <<slack, event>>

\* A handler that marks an installation broken on the word of token gen.
Marking(p, gen) ==
  LET o == h[p].org  t == h[p].team IN
  /\ \E status \in {"uninstalled", "needs_attention"} :
       inst' = [inst EXCEPT ![o][t] = Marked(@, status, gen = Stored(o, t).gen)]
  /\ UNCHANGED <<slack, token, event>>

LEMMA InitIInv ==
  ASSUME Init
  PROVE  IInv
<1> USE SlackAssumption DEF Init, Idle, NoToken, NoRow
<1>1. Teams # {} /\ Names # {}
  OBVIOUS
<1>2. /\ (CHOOSE t \in Teams : TRUE) \in Teams
      /\ (CHOOSE n \in Names : TRUE) \in Names
  BY <1>1
<1>3. 0 \in Gens /\ 1 \in Gens
  BY DEF Gens
<1>4. TypeOK
  <2>1. slack \in [Teams -> [installed : BOOLEAN, gen : Gens, name : Names]]
    BY <1>3
  <2>2. /\ token \in [Orgs -> [Names -> [team : Teams, gen : Gens]]]
        /\ flow \in [Flows -> [org : Orgs \cup {None}, status : {"none", "open", "consumed"}]]
        /\ target \in SUBSET (Orgs \X Teams)
    BY <1>2, <1>3
  <2>3. inst \in [Orgs -> [Teams -> RowType]]
    BY <1>2 DEF RowType
  <2>4. event \in [Events -> EventType]
    BY <1>2, <1>3 DEF EventType
  <2>5. h \in [Handlers -> HandlerType]
    BY <1>2, <1>3 DEF HandlerType
  <2> QED BY <2>1, <2>2, <2>3, <2>4, <2>5 DEF TypeOK, HandlerType, RowType, EventType
<1>5. HandlerInv /\ SeenInv /\ GenInv /\ SentInv
  BY <1>2 DEF HandlerInv, SeenInv, GenInv, SentInv, Installing, Recording, Delivering, Revoking, At
<1>6. \A o \in Orgs, t \in Teams : ~Exists(o, t) /\ inst[o][t].status = "absent"
  BY DEF Exists
<1>7. WorkspaceHasOneHome /\ ToldInv /\ EndInv /\ BlameHasACause
  BY <1>6 DEF WorkspaceHasOneHome, ToldInv, Unaware, EndInv, BlameHasACause
<1> QED BY <1>4, <1>5, <1>7 DEF IInv

\* Every step is one of these.
LEMMA Steps ==
  ASSUME [Next]_vars
  PROVE  \/ UNCHANGED vars
         \/ \E f \in Flows, o \in Orgs : InstallUrl(f, o)
         \/ \E t \in Teams, e \in Events : Uninstall(t, e) \/ JoinChannel(t, e)
         \/ \E t \in Teams, n \in Names : Rename(t, n)
         \/ \E p \in Handlers :
              \/ \E f \in Flows : ConsumeState(p, f)
              \/ \E e \in Events : FindInstallation(p, e)
              \/ \E o \in Orgs, t \in Teams : LoadTarget(p, o, t)
              \/ \E t \in Teams : ExchangeCode(p, t)
              \/ EnsureAvailable(p) \/ UpsertIntegration(p) \/ StoreInstallation(p)
              \/ RecordEvent(p) \/ ApplyEvent(p) \/ MarkEventProcessed(p)
              \/ PostMessage(p) \/ MarkNeedsAttention(p) \/ Abort(p)
BY DEF Next, Environment, Begin, Continue

LEMMA HandlerTypeStep ==
  ASSUME TypeOK, [Next]_vars
  PROVE  h' \in [Handlers -> HandlerType]
<1> USE DEF At, Goto, End
<1>0. /\ h \in [Handlers -> HandlerType] /\ slack \in [Teams -> [installed : BOOLEAN, gen : Gens, name : Names]]
      /\ flow \in [Flows -> [org : Orgs \cup {None}, status : {"none", "open", "consumed"}]]
  BY DEF TypeOK, HandlerType
<1>1. Idle \in HandlerType
  <2>1. Names # {} /\ Teams # {} /\ 0 \in Gens
    BY SlackAssumption DEF Gens
  <2> QED BY <2>1 DEF Idle, HandlerType
<1>2. ASSUME NEW p \in Handlers, NEW v \in HandlerType, h' = [h EXCEPT ![p] = v]
      PROVE  h' \in [Handlers -> HandlerType]
  BY <1>0, <1>2
<1>3. CASE UNCHANGED h
  BY <1>0, <1>3
<1>4. ASSUME NEW p \in Handlers, NEW f \in Flows, ConsumeState(p, f)
      PROVE  h' \in [Handlers -> HandlerType]
  <2>1. [Idle EXCEPT !.at = "exchange", !.org = flow[f].org] \in HandlerType
    BY <1>0, <1>1 DEF HandlerType
  <2> QED BY <1>2, <1>3, <1>4, <2>1 DEF ConsumeState
<1>5. ASSUME NEW p \in Handlers, NEW e \in Events, FindInstallation(p, e)
      PROVE  h' \in [Handlers -> HandlerType]
  <2>1. ASSUME NEW o \in Orgs \cup {None}
        PROVE  [Idle EXCEPT !.at = "record", !.org = o, !.team = event[e].team, !.event = e]
                 \in HandlerType
    BY <1>1 DEF HandlerType, TypeOK
  <2> QED BY <1>2, <1>5, <2>1 DEF FindInstallation
<1>6. ASSUME NEW p \in Handlers, NEW o \in Orgs, NEW t \in Teams, LoadTarget(p, o, t)
      PROVE  h' \in [Handlers -> HandlerType]
  <2>1. Stored(o, t).gen \in Gens
    BY DEF TypeOK, Stored
  <2>2. [Idle EXCEPT !.at = "post", !.org = o, !.team = t, !.gen = Stored(o, t).gen]
          \in HandlerType
    BY <1>1, <2>1 DEF HandlerType
  <2> QED BY <1>2, <1>6, <2>2 DEF LoadTarget
<1>7. ASSUME NEW p \in Handlers, NEW t \in Teams, ExchangeCode(p, t)
      PROVE  h' \in [Handlers -> HandlerType]
  <2>0. h[p] \in HandlerType /\ slack[t].name \in Names
    BY <1>0
  <2>1. ASSUME NEW gen \in Gens
        PROVE  [h[p] EXCEPT !.at = "ensure", !.team = t, !.gen = gen, !.name = slack[t].name]
                 \in HandlerType
    BY <2>0 DEF HandlerType
  <2>2. \E gen \in Gens :
          h' = [h EXCEPT ![p] = [@ EXCEPT !.at = "ensure", !.team = t, !.gen = gen,
                                          !.name = slack[t].name]]
    BY <1>7 DEF ExchangeCode
  <2>3. \E gen \in Gens :
          h' = [h EXCEPT ![p] = [h[p] EXCEPT !.at = "ensure", !.team = t, !.gen = gen,
                                             !.name = slack[t].name]]
    BY <1>0, <2>2
  <2> QED BY <1>2, <2>1, <2>3
<1>8. ASSUME NEW p \in Handlers,
             NEW at \in {"installation", "apply", "mark", "refused"}, h' = [h EXCEPT ![p].at = at]
      PROVE  h' \in [Handlers -> HandlerType]
  BY <1>0, <1>8 DEF HandlerType
<1>9. ASSUME NEW p \in Handlers, EnsureAvailable(p)
      PROVE  h' \in [Handlers -> HandlerType]
  <2> DEFINE locked == Exists(h[p].org, h[p].team)
  <2>1. h[p] \in HandlerType /\ locked \in BOOLEAN
    BY <1>0 DEF Exists
  <2>2. [h[p] EXCEPT !.at = "integration", !.locked = locked] \in HandlerType
    <3> HIDE DEF locked
    <3> QED BY <2>1 DEF HandlerType
  <2>3. \/ h' = [h EXCEPT ![p] = Idle]
        \/ h' = [h EXCEPT ![p] = [h[p] EXCEPT !.at = "integration", !.locked = locked]]
    BY <1>0, <1>9 DEF EnsureAvailable
  <2> QED BY <1>1, <1>2, <2>2, <2>3
<1>10. ASSUME NEW p \in Handlers,
              \/ UpsertIntegration(p) \/ StoreInstallation(p) \/ RecordEvent(p) \/ ApplyEvent(p)
              \/ MarkEventProcessed(p) \/ PostMessage(p) \/ MarkNeedsAttention(p) \/ Abort(p)
       PROVE  h' \in [Handlers -> HandlerType]
  <2>1. \/ h' = [h EXCEPT ![p] = Idle]
        \/ \E at \in {"installation", "apply", "mark", "refused"} : h' = [h EXCEPT ![p].at = at]
    BY <1>10 DEF UpsertIntegration, StoreInstallation, RecordEvent, ApplyEvent,
                 MarkEventProcessed, PostMessage, MarkNeedsAttention, Abort
  <2> QED BY <1>1, <1>2, <1>8, <2>1
<1>11. CASE \/ UNCHANGED vars
            \/ \E f \in Flows, o \in Orgs : InstallUrl(f, o)
            \/ \E t \in Teams, e \in Events : Uninstall(t, e) \/ JoinChannel(t, e)
            \/ \E t \in Teams, n \in Names : Rename(t, n)
  BY <1>3, <1>11 DEF vars, InstallUrl, Uninstall, JoinChannel, Rename
<1> QED BY <1>4, <1>5, <1>6, <1>7, <1>9, <1>10, <1>11, Steps

\* Rows of slack_installations and their tokens change in three ways.
LEMMA RowSteps ==
  ASSUME TypeOK, HandlerInv, [Next]_vars
  PROVE  \/ UNCHANGED <<inst, token>>
         \/ \E p \in Handlers : Storing(p)
         \/ \E p \in Handlers : /\ At(p, "apply") /\ event[h[p].event].kind \in Revoking
                                /\ Marking(p, event[h[p].event].gen)
         \/ \E p \in Handlers : At(p, "refused") /\ Marking(p, h[p].gen)
<1>1. ASSUME NEW p \in Handlers, StoreInstallation(p)
      PROVE  UNCHANGED <<inst, token>> \/ Storing(p)
  BY <1>1 DEF StoreInstallation, Storing, Connected
<1>2. ASSUME NEW p \in Handlers, ApplyEvent(p)
      PROVE  \/ UNCHANGED <<inst, token>>
             \/ /\ At(p, "apply") /\ event[h[p].event].kind \in Revoking
                /\ Marking(p, event[h[p].event].gen)
  <2>1. CASE event[h[p].event].kind = "bot_joined"
    BY <1>2, <2>1 DEF ApplyEvent
  <2>2. CASE event[h[p].event].kind # "bot_joined"
    <3>1. At(p, "apply") /\ event[h[p].event].kind \in Revoking
      BY <1>2, <2>2 DEF ApplyEvent, HandlerInv
    <3>2. Marking(p, event[h[p].event].gen)
      BY <1>2, <2>2 DEF ApplyEvent, Marking
    <3> QED BY <3>1, <3>2
  <2> QED BY <2>1, <2>2
<1>3. ASSUME NEW p \in Handlers, MarkNeedsAttention(p)
      PROVE  At(p, "refused") /\ Marking(p, h[p].gen)
  BY <1>3 DEF MarkNeedsAttention, Marking
<1>4. CASE \/ UNCHANGED vars
           \/ \E f \in Flows, o \in Orgs : InstallUrl(f, o)
           \/ \E t \in Teams, e \in Events : Uninstall(t, e) \/ JoinChannel(t, e)
           \/ \E t \in Teams, n \in Names : Rename(t, n)
           \/ \E p \in Handlers :
                \/ \E f \in Flows : ConsumeState(p, f)
                \/ \E e \in Events : FindInstallation(p, e)
                \/ \E o \in Orgs, t \in Teams : LoadTarget(p, o, t)
                \/ \E t \in Teams : ExchangeCode(p, t)
                \/ EnsureAvailable(p) \/ UpsertIntegration(p) \/ RecordEvent(p)
                \/ MarkEventProcessed(p) \/ PostMessage(p) \/ Abort(p)
  BY <1>4 DEF vars, InstallUrl, Uninstall, JoinChannel, Rename, ConsumeState, FindInstallation,
              LoadTarget, ExchangeCode, EnsureAvailable, UpsertIntegration, RecordEvent,
              MarkEventProcessed, PostMessage, Abort
<1> QED BY <1>1, <1>2, <1>3, <1>4, Steps

\* Slack's side of a workspace never goes back.
LEMMA SlackSteps ==
  ASSUME TypeOK, [Next]_vars, NEW t \in Teams
  PROVE  /\ slack[t].gen \in Nat /\ slack'[t].gen \in Nat /\ slack[t].gen <= slack'[t].gen
         /\ slack'[t].installed => slack[t].installed \/ slack[t].gen < slack'[t].gen
         /\ slack' \in [Teams -> [installed : BOOLEAN, gen : Gens, name : Names]]
<1> USE SlackAssumption DEF Gens
<1>0. slack \in [Teams -> [installed : BOOLEAN, gen : Gens, name : Names]]
  BY DEF TypeOK
<1>1. ASSUME NEW p \in Handlers, NEW u \in Teams, ExchangeCode(p, u)
      PROVE  /\ slack[t].gen <= slack'[t].gen
             /\ slack'[t].installed => slack[t].installed \/ slack[t].gen < slack'[t].gen
             /\ slack' \in [Teams -> [installed : BOOLEAN, gen : Gens, name : Names]]
  <2>1. PICK gen \in Gens : /\ gen = IF slack[u].installed THEN slack[u].gen ELSE slack[u].gen + 1
                           /\ slack' = [slack EXCEPT ![u].installed = TRUE, ![u].gen = gen]
    BY <1>1 DEF ExchangeCode
  <2>2. slack[u] \in [installed : BOOLEAN, gen : Gens, name : Names]
    BY <1>0
  <2>3. /\ \A x \in Teams \ {u} : slack'[x] = slack[x]
        /\ slack'[u] = [slack[u] EXCEPT !.installed = TRUE, !.gen = gen]
        /\ slack' = [slack EXCEPT ![u] = [slack[u] EXCEPT !.installed = TRUE, !.gen = gen]]
    BY <1>0, <2>1
  <2>4. [slack[u] EXCEPT !.installed = TRUE, !.gen = gen]
          \in [installed : BOOLEAN, gen : Gens, name : Names]
    BY <2>2
  <2>5. slack'[u].gen = gen
    BY <2>2, <2>3
  <2>6. slack[u].gen <= gen /\ (slack[u].installed \/ slack[u].gen < gen)
    <3>1. slack[u].gen \in Nat
      BY <2>2
    <3>2. CASE slack[u].installed
      BY <2>1, <3>1, <3>2
    <3>3. CASE ~slack[u].installed
      BY <2>1, <3>1, <3>3
    <3> QED BY <3>2, <3>3
  <2> QED BY <1>0, <2>3, <2>4, <2>5, <2>6
<1>2. ASSUME NEW u \in Teams, NEW e \in Events, Uninstall(u, e)
      PROVE  /\ slack[t].gen <= slack'[t].gen
             /\ slack'[t].installed => slack[t].installed \/ slack[t].gen < slack'[t].gen
             /\ slack' \in [Teams -> [installed : BOOLEAN, gen : Gens, name : Names]]
  <2>1. slack[u] \in [installed : BOOLEAN, gen : Gens, name : Names]
    BY <1>0
  <2>2. [slack[u] EXCEPT !.installed = FALSE] \in [installed : BOOLEAN, gen : Gens, name : Names]
    BY <2>1
  <2>3. slack' = [slack EXCEPT ![u] = [slack[u] EXCEPT !.installed = FALSE]]
    BY <1>0, <1>2 DEF Uninstall
  <2>4. slack'[u].gen = slack[u].gen /\ ~slack'[u].installed
    BY <1>0, <2>1, <2>3
  <2> QED BY <1>0, <2>2, <2>3, <2>4
<1>3. ASSUME NEW u \in Teams, NEW n \in Names, Rename(u, n)
      PROVE  /\ slack[t].gen <= slack'[t].gen
             /\ slack'[t].installed => slack[t].installed \/ slack[t].gen < slack'[t].gen
             /\ slack' \in [Teams -> [installed : BOOLEAN, gen : Gens, name : Names]]
  BY <1>0, <1>3 DEF Rename
<1>4. CASE UNCHANGED slack
  BY <1>0, <1>4
<1>5. \/ UNCHANGED slack
      \/ \E p \in Handlers, u \in Teams : ExchangeCode(p, u)
      \/ \E u \in Teams, e \in Events : Uninstall(u, e)
      \/ \E u \in Teams, n \in Names : Rename(u, n)
  BY Steps DEF vars, InstallUrl, JoinChannel, ConsumeState, FindInstallation, LoadTarget,
               EnsureAvailable, UpsertIntegration, StoreInstallation, RecordEvent, ApplyEvent,
               MarkEventProcessed, PostMessage, MarkNeedsAttention, Abort
<1>6. slack[t].gen \in Nat /\ slack'[t].gen \in Nat
  BY <1>0, <1>1, <1>2, <1>3, <1>4, <1>5
<1> QED BY <1>1, <1>2, <1>3, <1>4, <1>5, <1>6

\* A token that is not accepted, of an installation that Slack has seen, never
\* is again.
LEMMA EndedForGood ==
  ASSUME TypeOK, [Next]_vars, NEW t \in Teams, NEW gen \in Gens, gen <= slack[t].gen
  PROVE  /\ gen <= slack'[t].gen
         /\ ~Accepts([team |-> t, gen |-> gen]) => ~Accepts([team |-> t, gen |-> gen])'
<1> gen \in Nat
  BY SlackAssumption DEF Gens
<1> QED BY SlackSteps DEF Accepts

\* An event is what it was when Slack sent it; its row only goes forward.
LEMMA EventSteps ==
  ASSUME TypeOK, HandlerInv, SentInv, [Next]_vars
  PROVE  /\ event' \in [Events -> EventType]
         /\ \A e \in Events :
              event[e].sent => /\ event'[e].kind = event[e].kind
                               /\ event'[e].team = event[e].team
                               /\ event'[e].gen = event[e].gen
                               /\ event'[e].sent
<1>0. event \in [Events -> EventType] /\ slack \in [Teams -> [installed : BOOLEAN, gen : Gens, name : Names]]
  BY DEF TypeOK, EventType
<1>1. ASSUME NEW t \in Teams, NEW e \in Events, NEW kind \in Revoking \cup Joining, Send(e, kind, t)
      PROVE  /\ event' \in [Events -> EventType]
             /\ ~event[e].sent
             /\ \A x \in Events \ {e} : event'[x] = event[x]
  <2>1. event[e] \in EventType /\ slack[t].gen \in Gens
    BY <1>0
  <2>2. [event[e] EXCEPT !.kind = kind, !.team = t, !.gen = slack[t].gen, !.sent = TRUE] \in EventType
    BY <2>1 DEF EventType
  <2>3. event' = [event EXCEPT ![e] =
          [event[e] EXCEPT !.kind = kind, !.team = t, !.gen = slack[t].gen, !.sent = TRUE]]
    BY <1>0, <1>1 DEF Send
  <2> QED BY <1>0, <1>1, <2>2, <2>3 DEF Send
<1>2. ASSUME NEW e \in Events, NEW row \in {"received", "done"}, event' = [event EXCEPT ![e].row = row]
      PROVE  /\ event' \in [Events -> EventType]
             /\ \A x \in Events : /\ event'[x].kind = event[x].kind /\ event'[x].gen = event[x].gen
                                  /\ event'[x].team = event[x].team /\ event'[x].sent = event[x].sent
  BY <1>0, <1>2 DEF EventType
<1>3. \/ UNCHANGED event
      \/ \E t \in Teams, e \in Events, kind \in Revoking \cup Joining : Send(e, kind, t)
      \/ \E e \in Events, row \in {"received", "done"} : event' = [event EXCEPT ![e].row = row]
  BY Steps DEF HandlerInv, Recording, Received,
               vars, InstallUrl, Uninstall, JoinChannel, Rename, ConsumeState, FindInstallation,
               LoadTarget, ExchangeCode, EnsureAvailable, UpsertIntegration, StoreInstallation,
               RecordEvent, ApplyEvent, MarkEventProcessed, PostMessage, MarkNeedsAttention,
               Abort, At
<1> QED BY <1>0, <1>1, <1>2, <1>3

LEMMA TypeStep ==
  ASSUME TypeOK, HandlerInv, SentInv, [Next]_vars
  PROVE  TypeOK'
<1>1. slack' \in [Teams -> [installed : BOOLEAN, gen : Gens, name : Names]]
  BY SlackSteps, SlackAssumption
<1>2. flow' \in [Flows -> [org : Orgs \cup {None}, status : {"none", "open", "consumed"}]]
  <2>0. flow \in [Flows -> [org : Orgs \cup {None}, status : {"none", "open", "consumed"}]]
    BY DEF TypeOK
  <2>1. \/ UNCHANGED flow
        \/ \E f \in Flows, o \in Orgs : InstallUrl(f, o)
        \/ \E p \in Handlers, f \in Flows : ConsumeState(p, f)
    BY Steps DEF vars, Uninstall, JoinChannel, Rename, FindInstallation, LoadTarget, ExchangeCode,
                 EnsureAvailable, UpsertIntegration, StoreInstallation, RecordEvent, ApplyEvent,
                 MarkEventProcessed, PostMessage, MarkNeedsAttention, Abort
  <2>2. ASSUME NEW f \in Flows, NEW o \in Orgs, InstallUrl(f, o)
        PROVE  flow' \in [Flows -> [org : Orgs \cup {None}, status : {"none", "open", "consumed"}]]
    BY <2>0, <2>2 DEF InstallUrl
  <2>3. ASSUME NEW p \in Handlers, NEW f \in Flows, ConsumeState(p, f)
        PROVE  flow' \in [Flows -> [org : Orgs \cup {None}, status : {"none", "open", "consumed"}]]
    BY <2>0, <2>3 DEF ConsumeState
  <2> QED BY <2>0, <2>1, <2>2, <2>3
<1>3. target' \in SUBSET (Orgs \X Teams)
  <2>1. \/ UNCHANGED target
        \/ \E p \in Handlers : At(p, "apply") /\ target' = Registered(h[p].org, h[p].team)
    BY Steps DEF vars, InstallUrl, Uninstall, JoinChannel, Rename, ConsumeState, FindInstallation,
                 LoadTarget, ExchangeCode, EnsureAvailable, UpsertIntegration, StoreInstallation,
                 RecordEvent, ApplyEvent, MarkEventProcessed, PostMessage, MarkNeedsAttention,
                 Abort
  <2> QED BY <2>1 DEF TypeOK, Registered, HandlerInv, At
<1>4. /\ token' \in [Orgs -> [Names -> [team : Teams, gen : Gens]]]
      /\ inst' \in [Orgs -> [Teams -> RowType]]
  <2>0. /\ token \in [Orgs -> [Names -> [team : Teams, gen : Gens]]]
        /\ inst \in [Orgs -> [Teams -> RowType]]
        /\ \A p \in Handlers : h[p].team \in Teams /\ h[p].name \in Names /\ h[p].gen \in Gens
    BY DEF TypeOK, RowType
  <2>1. ASSUME NEW p \in Handlers, Storing(p)
        PROVE  /\ token' \in [Orgs -> [Names -> [team : Teams, gen : Gens]]]
               /\ inst' \in [Orgs -> [Teams -> RowType]]
    <3> DEFINE late == ~Accepts([team |-> h[p].team, gen |-> h[p].gen])
               new == [name |-> h[p].name, status |-> "connected", late |-> late,
                       misjudged |-> FALSE]
    <3>1. new \in RowType
      <4>1. ASSUME NEW n \in Names, NEW b \in BOOLEAN
            PROVE  [name |-> n, status |-> "connected", late |-> b, misjudged |-> FALSE] \in RowType
        BY DEF RowType
      <4>2. late \in BOOLEAN
        OBVIOUS
      <4>3. h[p].name \in Names
        BY <2>0
      <4> HIDE DEF late
      <4> QED BY <4>1, <4>2, <4>3
    <3>2. inst' = [inst EXCEPT ![h[p].org][h[p].team] = new]
      BY <2>1 DEF Storing
    <3>3. inst' \in [Orgs -> [Teams -> RowType]]
      <4> HIDE DEF new
      <4> QED BY <2>0, <3>1, <3>2
    <3> QED BY <2>0, <2>1, <3>3 DEF Storing
  <2>2. ASSUME NEW p \in Handlers, NEW gen, Marking(p, gen), h[p].org \in Orgs
        PROVE  /\ token' \in [Orgs -> [Names -> [team : Teams, gen : Gens]]]
               /\ inst' \in [Orgs -> [Teams -> RowType]]
    <3>1. PICK status \in {"uninstalled", "needs_attention"} :
            inst' = [inst EXCEPT ![h[p].org][h[p].team] =
                       Marked(@, status, gen = Stored(h[p].org, h[p].team).gen)]
      BY <2>2 DEF Marking
    <3> DEFINE fresh == gen = Stored(h[p].org, h[p].team).gen
               new == Marked(inst[h[p].org][h[p].team], status, fresh)
    <3>2. inst[h[p].org][h[p].team] \in RowType
      BY <2>0, <2>2
    <3>3. new \in RowType
      <4> HIDE DEF fresh
      <4> QED BY <3>2 DEF RowType, Marked
    <3>4. inst' = [inst EXCEPT ![h[p].org][h[p].team] = new]
      BY <2>0, <2>2, <3>1
    <3>5. inst' \in [Orgs -> [Teams -> RowType]]
      <4> HIDE DEF new
      <4> QED BY <2>0, <3>3, <3>4
    <3> QED BY <2>0, <2>2, <3>5 DEF Marking
  <2>3. \A p \in Handlers : At(p, "apply") \/ At(p, "refused") => h[p].org \in Orgs
    BY DEF HandlerInv, At, Delivering
  <2> QED BY <2>0, <2>1, <2>2, <2>3, RowSteps
<1>5. event' \in [Events -> EventType] /\ h' \in [Handlers -> HandlerType]
  BY EventSteps, HandlerTypeStep
<1> QED BY <1>1, <1>2, <1>3, <1>4, <1>5 DEF TypeOK, HandlerType, RowType, EventType

\* A handler stays where it is, is idle again, or takes one of these steps.
LEMMA Acts ==
  ASSUME TypeOK, [Next]_vars, NEW p \in Handlers
  PROVE  \/ UNCHANGED h[p]
         \/ h'[p] = Idle
         \/ \E f \in Flows : ConsumeState(p, f)
         \/ \E e \in Events : FindInstallation(p, e)
         \/ \E o \in Orgs, t \in Teams : LoadTarget(p, o, t)
         \/ \E t \in Teams : ExchangeCode(p, t)
         \/ EnsureAvailable(p) \/ UpsertIntegration(p)
         \/ RecordEvent(p) \/ ApplyEvent(p) \/ PostMessage(p)
<1> USE DEF Goto, End
<1>0. h \in [Handlers -> HandlerType]
  BY DEF TypeOK, HandlerType
<1>1. ASSUME \/ UNCHANGED vars
             \/ \E f \in Flows, o \in Orgs : InstallUrl(f, o)
             \/ \E t \in Teams, e \in Events : Uninstall(t, e) \/ JoinChannel(t, e)
             \/ \E t \in Teams, n \in Names : Rename(t, n)
      PROVE  UNCHANGED h[p]
  BY <1>1 DEF vars, InstallUrl, Uninstall, JoinChannel, Rename
<1>2. ASSUME NEW q \in Handlers,
             StoreInstallation(q) \/ MarkEventProcessed(q) \/ MarkNeedsAttention(q) \/ Abort(q)
      PROVE  UNCHANGED h[p] \/ h'[p] = Idle
  BY <1>0, <1>2 DEF StoreInstallation, MarkEventProcessed, MarkNeedsAttention, Abort
<1>3. ASSUME NEW q \in Handlers \ {p},
             \/ \E f \in Flows : ConsumeState(q, f)
             \/ \E e \in Events : FindInstallation(q, e)
             \/ \E o \in Orgs, t \in Teams : LoadTarget(q, o, t)
             \/ \E t \in Teams : ExchangeCode(q, t)
             \/ EnsureAvailable(q) \/ UpsertIntegration(q)
             \/ RecordEvent(q) \/ ApplyEvent(q) \/ PostMessage(q)
      PROVE  UNCHANGED h[p]
  <2>1. ASSUME NEW v, h' = [h EXCEPT ![q] = v]
        PROVE  UNCHANGED h[p]
    BY <1>0, <2>1
  <2>2. ASSUME NEW at, h' = [h EXCEPT ![q].at = at]
        PROVE  UNCHANGED h[p]
    BY <1>0, <2>2
  <2>3. ASSUME \/ \E f \in Flows : ConsumeState(q, f)
               \/ \E e \in Events : FindInstallation(q, e)
               \/ \E o \in Orgs, t \in Teams : LoadTarget(q, o, t)
        PROVE  UNCHANGED h[p]
    BY <1>0, <2>3 DEF ConsumeState, FindInstallation, LoadTarget
  <2>4. ASSUME NEW t \in Teams, ExchangeCode(q, t)
        PROVE  UNCHANGED h[p]
    BY <1>0, <2>4 DEF ExchangeCode
  <2>5. ASSUME EnsureAvailable(q)
        PROVE  UNCHANGED h[p]
    BY <1>0, <2>5 DEF EnsureAvailable
  <2>6. ASSUME UpsertIntegration(q) \/ RecordEvent(q) \/ ApplyEvent(q) \/ PostMessage(q)
        PROVE  UNCHANGED h[p]
    BY <1>0, <2>6 DEF UpsertIntegration, RecordEvent, ApplyEvent, PostMessage
  <2> QED BY <1>3, <2>3, <2>4, <2>5, <2>6
<1> QED BY <1>1, <1>2, <1>3, Steps

LEMMA HandlerStep ==
  ASSUME TypeOK, HandlerInv, SentInv, [Next]_vars
  PROVE  HandlerInv'
<1> DEFINE Fine(p) ==
      /\ h[p].at \in Installing \cup {"apply"} \cup Delivering => h[p].org \in Orgs
      /\ h[p].at \in Recording => /\ h[p].event \in Events
                                  /\ event[h[p].event].sent
                                  /\ h[p].team = event[h[p].event].team
      /\ At(p, "apply") => event[h[p].event].kind \in Revoking \cup {"bot_joined"}
<1>a. \A f \in Flows : flow'[f].status = "open" => flow'[f].org \in Orgs
  <2>1. \/ UNCHANGED flow
        \/ \E f \in Flows, o \in Orgs : InstallUrl(f, o)
        \/ \E p \in Handlers, f \in Flows : ConsumeState(p, f)
    BY Steps DEF vars, Uninstall, JoinChannel, Rename, FindInstallation, LoadTarget, ExchangeCode,
                 EnsureAvailable, UpsertIntegration, StoreInstallation, RecordEvent, ApplyEvent,
                 MarkEventProcessed, PostMessage, MarkNeedsAttention, Abort
  <2>0. /\ flow \in [Flows -> [org : Orgs \cup {None}, status : {"none", "open", "consumed"}]]
        /\ \A f \in Flows : flow[f].status = "open" => flow[f].org \in Orgs
    BY DEF TypeOK, HandlerInv
  <2>2. ASSUME NEW f \in Flows, NEW o \in Orgs, InstallUrl(f, o), NEW g \in Flows
        PROVE  flow'[g].status = "open" => flow'[g].org \in Orgs
    BY <2>0, <2>2 DEF InstallUrl
  <2>3. ASSUME NEW p \in Handlers, NEW f \in Flows, ConsumeState(p, f), NEW g \in Flows
        PROVE  flow'[g].status = "open" => flow'[g].org \in Orgs
    BY <2>0, <2>3 DEF ConsumeState
  <2> QED BY <2>0, <2>1, <2>2, <2>3
<1> SUFFICES ASSUME NEW p \in Handlers
             PROVE  Fine(p)'
  BY <1>a DEF HandlerInv
<1> USE DEF Installing, Recording, Delivering, At, Goto, End
<1>0. h \in [Handlers -> HandlerType] /\ h[p] \in HandlerType /\ Fine(p)
  BY DEF TypeOK, HandlerType, HandlerInv
<1>1. CASE UNCHANGED h[p]
  BY <1>0, <1>1, EventSteps DEF Revoking
<1>2. CASE h'[p] = Idle
  BY <1>2 DEF Idle
<1>3. ASSUME NEW f \in Flows, ConsumeState(p, f)
      PROVE  Fine(p)'
  BY <1>0, <1>3 DEF ConsumeState, Idle, HandlerInv
<1>4. ASSUME NEW e \in Events, FindInstallation(p, e)
      PROVE  Fine(p)'
  BY <1>0, <1>4 DEF FindInstallation, Idle
<1>5. ASSUME NEW o \in Orgs, NEW t \in Teams, LoadTarget(p, o, t)
      PROVE  Fine(p)'
  BY <1>0, <1>5 DEF LoadTarget, Idle
<1>6. ASSUME NEW t \in Teams, ExchangeCode(p, t)
      PROVE  Fine(p)'
  BY <1>0, <1>6 DEF ExchangeCode, HandlerType
<1>7. ASSUME EnsureAvailable(p)
      PROVE  Fine(p)'
  <2>1. \/ h'[p] = Idle
        \/ h'[p].at = "integration" /\ h'[p].org = h[p].org /\ h[p].at = "ensure"
    BY <1>0, <1>7 DEF EnsureAvailable, HandlerType
  <2> QED BY <1>0, <1>2, <2>1
<1>8. ASSUME UpsertIntegration(p)
      PROVE  Fine(p)'
  BY <1>0, <1>8 DEF UpsertIntegration, HandlerType
<1>9. ASSUME RecordEvent(p)
      PROVE  Fine(p)'
  <2>1. \/ h'[p] = Idle
        \/ /\ h'[p] = [h[p] EXCEPT !.at = h'[p].at] /\ h'[p].at \in {"apply", "mark"}
           /\ h[p].at = "record"
           /\ h'[p].at = "apply" => /\ h[p].org # None
                                    /\ event[h[p].event].kind \in Revoking \cup {"bot_joined"}
    BY <1>0, <1>9 DEF RecordEvent, HandlerType
  <2> QED BY <1>0, <1>2, <2>1, EventSteps DEF HandlerType
<1>10. ASSUME ApplyEvent(p)
       PROVE  Fine(p)'
  BY <1>0, <1>10, EventSteps DEF ApplyEvent, HandlerType
<1>11. ASSUME PostMessage(p)
       PROVE  Fine(p)'
  BY <1>0, <1>11 DEF PostMessage, HandlerType, Idle
<1> QED BY <1>1, <1>2, <1>3, <1>4, <1>5, <1>6, <1>7, <1>8, <1>9, <1>10, <1>11, Acts

-----------------------------------------------------------------------------
(* The rows a callback stores and a mark changes, one by one               *)

LEMMA StoredRows ==
  ASSUME TypeOK, HandlerInv, NEW p \in Handlers, Storing(p), NEW o \in Orgs, NEW t \in Teams
  PROVE  \/ /\ o = h[p].org /\ t = h[p].team
            /\ inst'[o][t].status = "connected"
            /\ ~inst'[o][t].late => Accepts([team |-> t, gen |-> h[p].gen])
            /\ Stored(o, t)' = [team |-> t, gen |-> h[p].gen]
            /\ ~TakenByOther(o, t)
         \/ /\ ~(o = h[p].org /\ t = h[p].team)
            /\ inst'[o][t] = inst[o][t]
            /\ Exists(o, t) => Stored(o, t)' = Stored(o, t)
<1> DEFINE late == ~Accepts([team |-> h[p].team, gen |-> h[p].gen])
           new == [name |-> h[p].name, status |-> "connected", late |-> late, misjudged |-> FALSE]
           tk == [team |-> h[p].team, gen |-> h[p].gen]
<1>1. /\ h[p].org \in Orgs /\ h[p].team \in Teams /\ h[p].name \in Names
      /\ token \in [Orgs -> [Names -> [team : Teams, gen : Gens]]]
      /\ inst \in [Orgs -> [Teams -> RowType]]
  BY DEF TypeOK, RowType, HandlerInv, Storing, At, Installing
<1>2. /\ inst' = [inst EXCEPT ![h[p].org][h[p].team] = new]
      /\ token' = [token EXCEPT ![h[p].org][h[p].name] = tk]
  BY DEF Storing
<1>3. CASE o = h[p].org /\ t = h[p].team
  <2>1. inst'[o][t] = new /\ token'[o][h[p].name] = tk
    <3> HIDE DEF new, tk
    <3> QED BY <1>1, <1>2, <1>3
  <2>2. ~late => Accepts([team |-> t, gen |-> h[p].gen])
    BY <1>3
  <2>3. inst'[o][t].name = h[p].name /\ inst'[o][t].status = "connected" /\ inst'[o][t].late = late
    <3> HIDE DEF late
    <3> QED BY <2>1
  <2> HIDE DEF late
  <2> QED BY <1>3, <2>1, <2>2, <2>3 DEF Stored, Storing
<1>4. CASE ~(o = h[p].org /\ t = h[p].team)
  <2>1. inst'[o][t] = inst[o][t]
    <3> HIDE DEF new
    <3> QED BY <1>1, <1>2, <1>4
  <2>2. ASSUME Exists(o, t)
        PROVE  o # h[p].org \/ inst[o][t].name # h[p].name
    BY <1>4, <2>2 DEF Storing, NameTaken
  <2>3. inst[o][t].name \in Names
    BY <1>1 DEF RowType
  <2>4. ASSUME Exists(o, t)
        PROVE  token'[o][inst[o][t].name] = token[o][inst[o][t].name]
    <3> HIDE DEF tk
    <3> QED BY <1>1, <1>2, <2>2, <2>3, <2>4
  <2> QED BY <1>4, <2>1, <2>4 DEF Stored
<1> QED BY <1>3, <1>4

LEMMA MarkedRows ==
  ASSUME TypeOK, NEW p \in Handlers, h[p].org \in Orgs, NEW gen, Marking(p, gen),
         NEW o \in Orgs, NEW t \in Teams
  PROVE  /\ Stored(o, t)' = Stored(o, t)
         /\ inst'[o][t].late = inst[o][t].late
         /\ \/ /\ o = h[p].org /\ t = h[p].team
               /\ inst'[o][t].status \in {"uninstalled", "needs_attention"}
               /\ gen = Stored(o, t).gen \/ inst'[o][t].misjudged
            \/ /\ ~(o = h[p].org /\ t = h[p].team)
               /\ inst'[o][t] = inst[o][t]
<1>0. h[p].team \in Teams /\ inst \in [Orgs -> [Teams -> RowType]] /\ token' = token
  BY DEF TypeOK, RowType, Marking
<1>1. PICK status \in {"uninstalled", "needs_attention"} :
        inst' = [inst EXCEPT ![h[p].org][h[p].team] =
                   Marked(@, status, gen = Stored(h[p].org, h[p].team).gen)]
  BY DEF Marking
<1> DEFINE fresh == gen = Stored(h[p].org, h[p].team).gen
           new == Marked(inst[h[p].org][h[p].team], status, fresh)
<1>2. inst' = [inst EXCEPT ![h[p].org][h[p].team] = new]
  BY <1>0, <1>1
<1>3. inst[o][t] \in RowType /\ inst[h[p].org][h[p].team] \in RowType
  BY <1>0
<1>4. CASE o = h[p].org /\ t = h[p].team
  <2>1. inst'[o][t] = new
    <3> HIDE DEF new
    <3> QED BY <1>0, <1>2, <1>4
  <2>2. /\ new.name = inst[o][t].name /\ new.late = inst[o][t].late /\ new.status = status
        /\ new.misjudged = ~fresh
    <3> HIDE DEF fresh
    <3> QED BY <1>3, <1>4 DEF Marked, RowType
  <2>3. fresh \/ inst'[o][t].misjudged
    BY <2>1, <2>2
  <2> HIDE DEF new
  <2> QED BY <1>0, <1>4, <2>1, <2>2, <2>3 DEF Stored
<1>5. CASE ~(o = h[p].org /\ t = h[p].team)
  <2>1. inst'[o][t] = inst[o][t]
    <3> HIDE DEF new
    <3> QED BY <1>0, <1>2, <1>5
  <2> QED BY <1>0, <1>5, <2>1 DEF Stored
<1> QED BY <1>4, <1>5

\* What happens to the row of one workspace: it is stored, marked, or left alone.
LEMMA RowChange ==
  ASSUME TypeOK, HandlerInv, SentInv, SeenInv, [Next]_vars, NEW o \in Orgs, NEW t \in Teams
  PROVE  /\ Exists(o, t) => Exists(o, t)'
         /\ \/ /\ inst'[o][t] = inst[o][t]
               /\ Exists(o, t) => Stored(o, t)' = Stored(o, t)
            \/ \E p \in Handlers :
                 /\ Storing(p) /\ o = h[p].org /\ t = h[p].team
                 /\ inst'[o][t].status = "connected"
                 /\ ~inst'[o][t].late => Accepts([team |-> t, gen |-> h[p].gen])
                 /\ Stored(o, t)' = [team |-> t, gen |-> h[p].gen]
                 /\ ~TakenByOther(o, t)
            \/ /\ Exists(o, t) /\ Stored(o, t)' = Stored(o, t)
               /\ inst'[o][t].late = inst[o][t].late
               /\ inst'[o][t].status \in {"uninstalled", "needs_attention"}
               /\ \/ inst'[o][t].misjudged
                  \/ ~Accepts([team |-> t, gen |-> Stored(o, t).gen])
               /\ UNCHANGED <<slack, event>>
<1>1. CASE UNCHANGED <<inst, token>>
  BY <1>1 DEF Exists, Stored
<1>2. ASSUME NEW p \in Handlers, Storing(p)
      PROVE  /\ Exists(o, t) => Exists(o, t)'
             /\ \/ /\ inst'[o][t] = inst[o][t]
                   /\ Exists(o, t) => Stored(o, t)' = Stored(o, t)
                \/ /\ o = h[p].org /\ t = h[p].team
                   /\ inst'[o][t].status = "connected"
                   /\ ~inst'[o][t].late => Accepts([team |-> t, gen |-> h[p].gen])
                   /\ Stored(o, t)' = [team |-> t, gen |-> h[p].gen]
                   /\ ~TakenByOther(o, t)
  BY <1>2, StoredRows DEF Exists
<1>3. ASSUME NEW p \in Handlers, NEW gen, Marking(p, gen), h[p].org \in Orgs,
             Exists(h[p].org, h[p].team), ~Accepts([team |-> h[p].team, gen |-> gen])
      PROVE  /\ Exists(o, t) => Exists(o, t)'
             /\ \/ /\ inst'[o][t] = inst[o][t]
                   /\ Exists(o, t) => Stored(o, t)' = Stored(o, t)
                \/ /\ Exists(o, t) /\ Stored(o, t)' = Stored(o, t)
                   /\ inst'[o][t].late = inst[o][t].late
                   /\ inst'[o][t].status \in {"uninstalled", "needs_attention"}
                   /\ \/ inst'[o][t].misjudged
                      \/ ~Accepts([team |-> t, gen |-> Stored(o, t).gen])
                   /\ UNCHANGED <<slack, event>>
  <2>1. UNCHANGED <<slack, event>>
    BY <1>3 DEF Marking
  <2> QED BY <1>3, <2>1, MarkedRows DEF Exists
<1>4. ASSUME NEW p \in Handlers, At(p, "apply"), event[h[p].event].kind \in Revoking
      PROVE  /\ h[p].org \in Orgs /\ Exists(h[p].org, h[p].team)
             /\ ~Accepts([team |-> h[p].team, gen |-> event[h[p].event].gen])
  <2>1. h[p].org \in Orgs /\ h[p].event \in Events /\ h[p].team = event[h[p].event].team
    BY <1>4 DEF HandlerInv, At, Recording
  <2> QED BY <1>4, <2>1, SlackAssumption DEF SeenInv, SentInv, At, Recording
<1>5. ASSUME NEW p \in Handlers, At(p, "refused")
      PROVE  /\ h[p].org \in Orgs /\ Exists(h[p].org, h[p].team)
             /\ ~Accepts([team |-> h[p].team, gen |-> h[p].gen])
  BY <1>5, SlackAssumption DEF HandlerInv, SeenInv, SentInv, At, Delivering
<1>6. CASE \E p \in Handlers : Storing(p)
  BY <1>2, <1>6
<1>7. CASE \E p \in Handlers : /\ At(p, "apply") /\ event[h[p].event].kind \in Revoking
                               /\ Marking(p, event[h[p].event].gen)
  BY <1>3, <1>4, <1>7
<1>8. CASE \E p \in Handlers : At(p, "refused") /\ Marking(p, h[p].gen)
  BY <1>3, <1>5, <1>8
<1> QED BY <1>1, <1>6, <1>7, <1>8, RowSteps

\* What happens to one event: Slack sends it, its row is written, or nothing.
LEMMA EventChange ==
  ASSUME TypeOK, HandlerInv, SentInv, [Next]_vars, NEW e \in Events
  PROVE  \/ UNCHANGED event[e]
         \/ /\ ~event[e].sent /\ event'[e].sent /\ event'[e].row = "none"
            /\ UNCHANGED <<inst, token, h>>
            /\ \E t \in Teams : /\ event'[e].team = t /\ event'[e].gen = slack[t].gen
                                /\ event'[e].kind \in Revoking => Uninstall(t, e)
         \/ /\ event[e].sent /\ event'[e].sent
            /\ event'[e].kind = event[e].kind
            /\ event'[e].team = event[e].team
            /\ event'[e].gen = event[e].gen
            /\ UNCHANGED <<inst, token>>
            /\ \E p \in Handlers :
                 /\ h[p].event = e
                 /\ \/ RecordEvent(p) /\ event'[e].row = "received"
                    \/ MarkEventProcessed(p)
<1>0. event \in [Events -> EventType]
  BY DEF TypeOK, EventType
<1>1. ASSUME NEW t \in Teams, NEW x \in Events, Uninstall(t, x) \/ JoinChannel(t, x)
      PROVE  \/ UNCHANGED event[e]
             \/ /\ ~event[e].sent /\ event'[e].sent /\ event'[e].row = "none"
                /\ UNCHANGED <<inst, token, h>>
                /\ event'[e].team = t /\ event'[e].gen = slack[t].gen
                /\ event'[e].kind \in Revoking => Uninstall(t, e)
  <2>1. PICK kind \in Revoking \cup Joining :
          Send(x, kind, t) /\ (kind \in Revoking => Uninstall(t, x))
    BY <1>1 DEF Uninstall, JoinChannel, Revoking, Joining
  <2>2. ~event[x].sent
    BY <2>1 DEF Send
  <2>3. event' = [event EXCEPT ![x] = [event[x] EXCEPT !.kind = kind, !.team = t,
                                                       !.gen = slack[t].gen, !.sent = TRUE]]
    BY <1>0, <2>1 DEF Send
  <2>4. CASE x # e
    BY <1>0, <2>3, <2>4
  <2>5. CASE x = e
    <3>1. event[e] \in EventType
      BY <1>0
    <3>2. event'[e] = [event[e] EXCEPT !.kind = kind, !.team = t,
                                       !.gen = slack[t].gen, !.sent = TRUE]
      BY <1>0, <2>3, <2>5
    <3>3. /\ event'[e].kind = kind /\ event'[e].team = t /\ event'[e].gen = slack[t].gen
          /\ event'[e].sent /\ event'[e].row = event[e].row
      BY <3>1, <3>2 DEF EventType
    <3>4. event[e].row = "none"
      BY <2>2, <2>5 DEF SentInv
    <3>5. UNCHANGED <<inst, token, h>>
      BY <1>1 DEF Uninstall, JoinChannel
    <3> QED BY <2>1, <2>2, <2>5, <3>3, <3>4, <3>5
  <2> QED BY <2>4, <2>5
<1>2. ASSUME NEW p \in Handlers, RecordEvent(p) \/ MarkEventProcessed(p)
      PROVE  \/ UNCHANGED event[e]
             \/ /\ event[e].sent /\ event'[e].sent
                /\ event'[e].kind = event[e].kind
                /\ event'[e].team = event[e].team
                /\ event'[e].gen = event[e].gen
                /\ UNCHANGED <<inst, token>>
                /\ h[p].event = e
                /\ \/ RecordEvent(p) /\ event'[e].row = "received"
                   \/ MarkEventProcessed(p)
  <2>1. h[p].event \in Events /\ event[h[p].event].sent /\ UNCHANGED <<inst, token>>
    BY <1>2 DEF RecordEvent, MarkEventProcessed, HandlerInv, At, Recording
  <2>2. CASE UNCHANGED event
    BY <2>2
  <2>3. CASE RecordEvent(p) /\ event' = [event EXCEPT ![h[p].event].row = "received"]
    BY <1>0, <2>1, <2>3 DEF EventType
  <2>4. CASE MarkEventProcessed(p) /\ event' = [event EXCEPT ![h[p].event].row = "done"]
    BY <1>0, <2>1, <2>4 DEF EventType
  <2> QED BY <1>2, <2>2, <2>3, <2>4 DEF RecordEvent, MarkEventProcessed, Received
<1>3. CASE UNCHANGED event
  BY <1>3
<1>4. \/ UNCHANGED event
      \/ \E t \in Teams, x \in Events : Uninstall(t, x) \/ JoinChannel(t, x)
      \/ \E p \in Handlers : RecordEvent(p) \/ MarkEventProcessed(p)
  BY Steps DEF vars, InstallUrl, Rename, ConsumeState, FindInstallation, LoadTarget, ExchangeCode,
               EnsureAvailable, UpsertIntegration, StoreInstallation, ApplyEvent, PostMessage,
               MarkNeedsAttention, Abort
<1>5. CASE \E t \in Teams, x \in Events : Uninstall(t, x) \/ JoinChannel(t, x)
  BY <1>1, <1>5
<1>6. CASE \E p \in Handlers : RecordEvent(p) \/ MarkEventProcessed(p)
  BY <1>2, <1>6
<1> QED BY <1>3, <1>4, <1>5, <1>6

LEMMA SeenStep ==
  ASSUME TypeOK, HandlerInv, SentInv, SeenInv, [Next]_vars
  PROVE  SeenInv'
<1> DEFINE Busy(p) == h[p].at \in Recording \cup Delivering /\ h[p].org # None
<1> SUFFICES ASSUME NEW p \in Handlers, Busy(p)'
             PROVE  Exists(h[p].org, h[p].team)'
  BY DEF SeenInv
<1> USE DEF Recording, Delivering, At, Goto, End
<1>0. /\ h \in [Handlers -> HandlerType] /\ h[p] \in HandlerType
      /\ Busy(p) => Exists(h[p].org, h[p].team)
      /\ \A o \in Orgs, t \in Teams : Exists(o, t) => Exists(o, t)'
  BY RowChange DEF TypeOK, HandlerType, SeenInv
<1>1. \/ /\ Busy(p) /\ h'[p].org = h[p].org /\ h'[p].team = h[p].team
      \/ \E o \in Orgs, t \in Teams : Exists(o, t) /\ h'[p].org = o /\ h'[p].team = t
  <2>1. CASE UNCHANGED h[p]
    BY <2>1
  <2>2. h'[p] # Idle
    BY DEF Idle
  <2>3. ASSUME NEW f \in Flows, ConsumeState(p, f)
        PROVE  UNCHANGED h[p]
    BY <1>0, <2>3 DEF ConsumeState, Idle
  <2>4. ASSUME NEW e \in Events, FindInstallation(p, e)
        PROVE  \E o \in Orgs, t \in Teams : Exists(o, t) /\ h'[p].org = o /\ h'[p].team = t
    <3>1. event[e].team \in Teams
      BY DEF TypeOK
    <3>2. PICK o \in Orgs \cup {None} :
            /\ Found(o, event[e].team)
            /\ h' = [h EXCEPT ![p] = [Idle EXCEPT !.at = "record", !.org = o,
                                                  !.team = event[e].team, !.event = e]]
      BY <2>4 DEF FindInstallation
    <3>3. h'[p].org = o /\ h'[p].team = event[e].team
      BY <1>0, <3>2 DEF Idle
    <3> QED BY <3>1, <3>2, <3>3 DEF Found
  <2>5. ASSUME NEW o \in Orgs, NEW t \in Teams, LoadTarget(p, o, t)
        PROVE  Exists(o, t) /\ h'[p].org = o /\ h'[p].team = t
    BY <1>0, <2>5 DEF LoadTarget, Idle, Exists
  <2>6. ASSUME (\E t \in Teams : ExchangeCode(p, t)) \/ EnsureAvailable(p) \/ UpsertIntegration(p)
        PROVE  FALSE
    <3>1. ASSUME NEW t \in Teams, ExchangeCode(p, t)
          PROVE  FALSE
      BY <1>0, <3>1 DEF ExchangeCode, HandlerType
    <3>2. ASSUME EnsureAvailable(p)
          PROVE  FALSE
      <4>1. h'[p] = Idle \/ h'[p].at = "integration"
        BY <1>0, <3>2 DEF EnsureAvailable, HandlerType
      <4> QED BY <2>2, <4>1
    <3>3. ASSUME UpsertIntegration(p)
          PROVE  FALSE
      BY <1>0, <3>3 DEF UpsertIntegration, HandlerType
    <3> QED BY <2>6, <3>1, <3>2, <3>3
  <2>7. ASSUME RecordEvent(p) \/ ApplyEvent(p) \/ PostMessage(p)
        PROVE  Busy(p) /\ h'[p].org = h[p].org /\ h'[p].team = h[p].team
    <3>1. h'[p] = Idle \/ \E at \in {"apply", "mark", "refused"} : h' = [h EXCEPT ![p].at = at]
      BY <1>0, <2>7 DEF RecordEvent, ApplyEvent, PostMessage
    <3>2. h'[p].org = h[p].org /\ h'[p].team = h[p].team
      BY <1>0, <2>2, <3>1 DEF HandlerType
    <3> QED BY <2>7, <3>2 DEF RecordEvent, ApplyEvent, PostMessage
  <2> QED BY <2>1, <2>2, <2>3, <2>4, <2>5, <2>6, <2>7, Acts
<1>2. CASE Busy(p) /\ h'[p].org = h[p].org /\ h'[p].team = h[p].team
  <2>1. h[p].org \in Orgs /\ h[p].team \in Teams
    BY <1>0, <1>2 DEF HandlerType
  <2>2. Exists(h[p].org, h[p].team)'
    <3>1. Exists(h[p].org, h[p].team)
      BY <1>0, <1>2
    <3> QED BY <1>0, <1>2, <2>1, <3>1 DEF Exists
  <2> QED BY <2>2
<1>3. ASSUME NEW o \in Orgs, NEW t \in Teams, Exists(o, t), h'[p].org = o, h'[p].team = t
      PROVE  Exists(h[p].org, h[p].team)'
  BY <1>0, <1>3 DEF Exists
<1> QED BY <1>1, <1>2, <1>3

LEMMA HomeStep ==
  ASSUME TypeOK, HandlerInv, SentInv, SeenInv, WorkspaceHasOneHome, [Next]_vars
  PROVE  WorkspaceHasOneHome'
<1> SUFFICES ASSUME NEW o \in Orgs, NEW t \in Teams, Exists(o, t)'
             PROVE  /\ \A x \in Orgs \ {o} : ~Exists(x, t)'
                    /\ Stored(o, t)'.team = t
  BY DEF WorkspaceHasOneHome
\* An installation that was there is there; one that was not is stored now.
<1>1. ASSUME NEW x \in Orgs, Exists(x, t)', ~Exists(x, t)
      PROVE  ~TakenByOther(x, t) /\ \A y \in Orgs : Exists(y, t)' => Exists(y, t) \/ y = x
  <2>1. PICK p \in Handlers : Storing(p) /\ x = h[p].org /\ t = h[p].team /\ ~TakenByOther(x, t)
    BY <1>1, RowChange DEF Exists
  <2>2. ASSUME NEW y \in Orgs, Exists(y, t)', y # x
        PROVE  Exists(y, t)
    BY <2>1, <2>2, StoredRows DEF Exists
  <2> QED BY <2>1, <2>2
<1>2. \A x \in Orgs \ {o} : ~Exists(x, t)'
  BY <1>1 DEF WorkspaceHasOneHome, TakenByOther
<1>3. Stored(o, t)'.team = t
  <2>1. Exists(o, t) => Stored(o, t).team = t
    BY DEF WorkspaceHasOneHome
  <2>2. ASSUME NEW p \in Handlers, Stored(o, t)' = [team |-> t, gen |-> h[p].gen]
        PROVE  Stored(o, t)'.team = t
    BY <2>2
  <2>3. CASE Exists(o, t) /\ Stored(o, t)' = Stored(o, t)
    BY <2>1, <2>3
  <2>4. inst'[o][t] = inst[o][t] => Exists(o, t)
    BY DEF Exists
  <2> QED BY <2>2, <2>3, <2>4, RowChange
<1> QED BY <1>2, <1>3

LEMMA GenStep ==
  ASSUME TypeOK, HandlerInv, SentInv, WorkspaceHasOneHome, GenInv, [Next]_vars
  PROVE  GenInv'
<1> USE DEF Goto, End
<1>0. /\ slack \in [Teams -> [installed : BOOLEAN, gen : Gens, name : Names]]
      /\ \A t \in Teams : /\ slack[t].gen \in Nat /\ slack'[t].gen \in Nat
                          /\ slack[t].gen <= slack'[t].gen
      /\ h \in [Handlers -> HandlerType] /\ h' \in [Handlers -> HandlerType]
      /\ Gens \subseteq Nat
  <2>1. Gens \subseteq Nat
    BY SlackAssumption DEF Gens
  <2>2. /\ slack \in [Teams -> [installed : BOOLEAN, gen : Gens, name : Names]]
        /\ h \in [Handlers -> HandlerType] /\ h' \in [Handlers -> HandlerType]
    BY HandlerTypeStep DEF TypeOK, HandlerType
  <2> QED BY <2>1, <2>2, SlackSteps
<1>1. ASSUME NEW t \in Teams, NEW gen \in Nat, gen <= slack[t].gen
      PROVE  gen <= slack'[t].gen
  BY <1>0, <1>1
<1>2. ASSUME NEW o \in Orgs, NEW n \in Names
      PROVE  token'[o][n].gen <= slack'[token'[o][n].team].gen
  <2>0. /\ token \in [Orgs -> [Names -> [team : Teams, gen : Gens]]]
        /\ \A p \in Handlers : h[p].gen \in Gens /\ h[p].team \in Teams
        /\ token[o][n].gen <= slack[token[o][n].team].gen
    BY <1>0 DEF TypeOK, GenInv, HandlerType
  <2>1. ASSUME NEW p \in Handlers, Storing(p)
        PROVE  token'[o][n] = token[o][n] \/ token'[o][n] = [team |-> h[p].team, gen |-> h[p].gen]
    <3> DEFINE tk == [team |-> h[p].team, gen |-> h[p].gen]
    <3>1. token' = [token EXCEPT ![h[p].org][h[p].name] = tk]
      BY <2>1 DEF Storing
    <3> HIDE DEF tk
    <3>2. token'[o][n] = token[o][n] \/ token'[o][n] = tk
      BY <2>0, <3>1
    <3> QED BY <3>2 DEF tk
  <2>2. UNCHANGED token \/ \E p \in Handlers : Storing(p)
    BY RowSteps DEF Marking
  <2>3. CASE token'[o][n] = token[o][n]
    <3>1. token[o][n].gen \in Nat /\ token[o][n].team \in Teams
      BY <1>0, <2>0
    <3> QED BY <1>1, <2>0, <2>3, <3>1
  <2>4. ASSUME NEW p \in Handlers, token'[o][n] = [team |-> h[p].team, gen |-> h[p].gen]
        PROVE  token'[o][n].gen <= slack'[token'[o][n].team].gen
    <3>1. h[p].gen \in Nat /\ h[p].team \in Teams /\ h[p].gen <= slack[h[p].team].gen
      BY <1>0, <2>0 DEF GenInv
    <3> QED BY <1>1, <2>4, <3>1
  <2> QED BY <2>1, <2>2, <2>3, <2>4
<1>3. ASSUME NEW p \in Handlers
      PROVE  h'[p].gen <= slack'[h'[p].team].gen
  <2>0. /\ h[p] \in HandlerType /\ h'[p] \in HandlerType
        /\ h[p].gen \in Nat /\ h[p].team \in Teams /\ h[p].gen <= slack[h[p].team].gen
        /\ h'[p].team \in Teams
    BY <1>0 DEF GenInv, HandlerType
  <2>1. CASE h'[p].gen = h[p].gen /\ h'[p].team = h[p].team
    BY <1>1, <2>0, <2>1
  <2>2. CASE h'[p].gen = 0
    BY <1>0, <2>0, <2>2
  <2>3. ASSUME NEW f \in Flows, ConsumeState(p, f)
        PROVE  UNCHANGED h[p] \/ h'[p].gen = 0
    BY <1>0, <2>3 DEF ConsumeState, Idle
  <2>4. ASSUME NEW e \in Events, FindInstallation(p, e)
        PROVE  h'[p].gen = 0
    BY <1>0, <2>4 DEF FindInstallation, Idle
  <2>5. ASSUME NEW o \in Orgs, NEW t \in Teams, LoadTarget(p, o, t)
        PROVE  h'[p].gen <= slack'[h'[p].team].gen
    <3>1. Stored(o, t).team = t /\ h'[p].gen = Stored(o, t).gen /\ h'[p].team = t
      BY <1>0, <2>5 DEF LoadTarget, Idle, WorkspaceHasOneHome, Exists
    <3>2. inst[o][t].name \in Names
      BY DEF TypeOK
    <3>3. Stored(o, t).gen <= slack[t].gen /\ Stored(o, t).gen \in Nat
      <4>1. token[o][inst[o][t].name].gen \in Gens
        BY <3>2 DEF TypeOK
      <4>2. token[o][inst[o][t].name].gen <= slack[token[o][inst[o][t].name].team].gen
        BY <3>2 DEF GenInv
      <4> QED BY <1>0, <3>1, <4>1, <4>2 DEF Stored
    <3> QED BY <1>1, <3>1, <3>3
  <2>6. ASSUME NEW t \in Teams, ExchangeCode(p, t)
        PROVE  h'[p].gen <= slack'[h'[p].team].gen
    <3>1. PICK gen \in Gens :
            /\ slack' = [slack EXCEPT ![t].installed = TRUE, ![t].gen = gen]
            /\ h' = [h EXCEPT ![p] = [@ EXCEPT !.at = "ensure", !.team = t, !.gen = gen,
                                               !.name = slack[t].name]]
      BY <2>6 DEF ExchangeCode
    <3>2. h'[p].gen = gen /\ h'[p].team = t
      BY <1>0, <2>0, <3>1 DEF HandlerType
    <3>3. slack'[t].gen = gen
      BY <1>0, <3>1
    <3> QED BY <1>0, <3>2, <3>3
  <2>7. ASSUME EnsureAvailable(p)
        PROVE  h'[p] = Idle \/ (h'[p].gen = h[p].gen /\ h'[p].team = h[p].team)
    <3> DEFINE locked == Exists(h[p].org, h[p].team)
    <3>1. \/ h' = [h EXCEPT ![p] = Idle]
          \/ h' = [h EXCEPT ![p].at = "integration", ![p].locked = locked]
      BY <2>7 DEF EnsureAvailable
    <3> HIDE DEF locked
    <3> QED BY <1>0, <2>0, <3>1 DEF HandlerType
  <2>8. ASSUME UpsertIntegration(p) \/ RecordEvent(p) \/ ApplyEvent(p) \/ PostMessage(p)
        PROVE  h'[p] = Idle \/ (h'[p].gen = h[p].gen /\ h'[p].team = h[p].team)
    <3>1. \/ h' = [h EXCEPT ![p] = Idle]
          \/ \E at \in {"installation", "apply", "mark", "refused"} : h' = [h EXCEPT ![p].at = at]
          \/ UNCHANGED h
      BY <2>8 DEF UpsertIntegration, RecordEvent, ApplyEvent, PostMessage
    <3>2. ASSUME NEW at, h' = [h EXCEPT ![p].at = at]
          PROVE  h'[p].gen = h[p].gen /\ h'[p].team = h[p].team
      BY <1>0, <2>0, <3>2 DEF HandlerType
    <3>3. ASSUME h' = [h EXCEPT ![p] = Idle]
          PROVE  h'[p] = Idle
      BY <1>0, <3>3
    <3> QED BY <3>1, <3>2, <3>3
  <2>9. h'[p] = Idle => h'[p].gen = 0
    BY DEF Idle
  <2> QED BY <2>1, <2>2, <2>3, <2>4, <2>5, <2>6, <2>7, <2>8, <2>9, Acts
<1>4. ASSUME NEW e \in Events
      PROVE  event'[e].gen <= slack'[event'[e].team].gen
  <2>0. event[e].gen \in Nat /\ event[e].team \in Teams /\ event[e].gen <= slack[event[e].team].gen
    BY <1>0 DEF GenInv, TypeOK
  <2>1. CASE event'[e].gen = event[e].gen /\ event'[e].team = event[e].team
    BY <1>1, <2>0, <2>1
  <2>2. ASSUME NEW t \in Teams, event'[e].team = t, event'[e].gen = slack[t].gen
        PROVE  event'[e].gen <= slack'[event'[e].team].gen
    BY <1>0, <2>2
  <2> QED BY <2>1, <2>2, EventChange
<1> QED BY <1>2, <1>3, <1>4 DEF GenInv

LEMMA SentStep ==
  ASSUME TypeOK, HandlerInv, SentInv, GenInv, [Next]_vars
  PROVE  SentInv'
<1> USE DEF At, Goto, End
<1>0. /\ h \in [Handlers -> HandlerType]
      /\ slack \in [Teams -> [installed : BOOLEAN, gen : Gens, name : Names]]
      /\ event \in [Events -> EventType] /\ event' \in [Events -> EventType]
  BY EventSteps DEF TypeOK, HandlerType, EventType
<1>1. ASSUME NEW e \in Events, ~event'[e].sent
      PROVE  event'[e].kind = "other" /\ event'[e].row = "none"
  BY <1>1, EventChange DEF SentInv
<1>2. ASSUME NEW e \in Events, event'[e].kind \in Revoking
      PROVE  ~Accepts([team |-> event[e].team, gen |-> event[e].gen])'
  <2>0. event[e].team \in Teams /\ event[e].gen \in Gens
    BY <1>0 DEF EventType
  <2>1. CASE /\ event'[e].kind = event[e].kind /\ event'[e].team = event[e].team
             /\ event'[e].gen = event[e].gen
    <3>1. /\ event[e].gen <= slack[event[e].team].gen
          /\ ~Accepts([team |-> event[e].team, gen |-> event[e].gen])
      BY <1>2, <2>1 DEF GenInv, SentInv
    <3>2. ~Accepts([team |-> event[e].team, gen |-> event[e].gen]) =>
             ~(slack'[event[e].team].installed /\ slack'[event[e].team].gen = event[e].gen)
      BY <2>0, <3>1, EndedForGood DEF Accepts
    <3> QED BY <2>1, <3>1, <3>2 DEF Accepts
  <2>2. ASSUME NEW t \in Teams, event'[e].team = t, Uninstall(t, e)
        PROVE  ~Accepts([team |-> event[e].team, gen |-> event[e].gen])'
    <3>1. ~slack'[t].installed
      BY <1>0, <2>2 DEF Uninstall
    <3> QED BY <2>2, <3>1 DEF Accepts
  <2> QED BY <1>2, <2>1, <2>2, EventChange
<1>3. ASSUME NEW p \in Handlers, h'[p].at = "refused"
      PROVE  ~Accepts([team |-> h[p].team, gen |-> h[p].gen])'
  <2>0. h[p] \in HandlerType /\ h[p].team \in Teams /\ h[p].gen \in Gens
    BY <1>0 DEF HandlerType
  <2>1. CASE UNCHANGED h[p]
    <3>1. /\ h[p].gen <= slack[h[p].team].gen
          /\ ~Accepts([team |-> h[p].team, gen |-> h[p].gen])
      BY <1>3, <2>1 DEF GenInv, SentInv
    <3>2. ~(slack'[h[p].team].installed /\ slack'[h[p].team].gen = h[p].gen)
      BY <2>0, <3>1, EndedForGood DEF Accepts
    <3> QED BY <2>1, <3>2 DEF Accepts
  <2>2. h'[p] # Idle
    BY <1>3 DEF Idle
  <2>3. ASSUME \/ \E f \in Flows : ConsumeState(p, f)
               \/ \E e \in Events : FindInstallation(p, e)
               \/ \E o \in Orgs, t \in Teams : LoadTarget(p, o, t)
        PROVE  UNCHANGED h[p] \/ h'[p].at # "refused"
    <3>1. ASSUME NEW f \in Flows, ConsumeState(p, f)
          PROVE  UNCHANGED h[p] \/ h'[p].at # "refused"
      BY <1>0, <3>1 DEF ConsumeState, Idle
    <3>2. ASSUME NEW e \in Events, FindInstallation(p, e)
          PROVE  h'[p].at # "refused"
      BY <1>0, <3>2 DEF FindInstallation, Idle
    <3>3. ASSUME NEW o \in Orgs, NEW t \in Teams, LoadTarget(p, o, t)
          PROVE  h'[p].at # "refused"
      BY <1>0, <3>3 DEF LoadTarget, Idle
    <3> QED BY <2>3, <3>1, <3>2, <3>3
  <2>4. ASSUME (\E t \in Teams : ExchangeCode(p, t))
        PROVE  h'[p].at # "refused"
    BY <1>0, <2>0, <2>4 DEF ExchangeCode, HandlerType
  <2>5. ASSUME EnsureAvailable(p)
        PROVE  h'[p].at # "refused"
    BY <1>0, <2>0, <2>5 DEF EnsureAvailable, HandlerType, Idle
  <2>6. ASSUME UpsertIntegration(p) \/ RecordEvent(p) \/ ApplyEvent(p)
        PROVE  h'[p].at # "refused"
    <3>1. \/ h' = [h EXCEPT ![p] = Idle]
          \/ \E at \in {"installation", "apply", "mark"} : h' = [h EXCEPT ![p].at = at]
      BY <2>6 DEF UpsertIntegration, RecordEvent, ApplyEvent
    <3> QED BY <1>0, <2>0, <3>1 DEF HandlerType, Idle
  <2>7. ASSUME PostMessage(p)
        PROVE  ~Accepts([team |-> h[p].team, gen |-> h[p].gen])'
    <3>1. /\ ~Accepts([team |-> h[p].team, gen |-> h[p].gen])
          /\ h'[p].team = h[p].team /\ h'[p].gen = h[p].gen /\ slack' = slack
      BY <1>0, <1>3, <2>0, <2>2, <2>7 DEF PostMessage, HandlerType
    <3> QED BY <3>1 DEF Accepts
  <2> QED BY <1>3, <2>1, <2>2, <2>3, <2>4, <2>5, <2>6, <2>7, Acts
<1> QED BY <1>1, <1>2, <1>3 DEF SentInv

\* An accepted token ends when its workspace uninstalls the app or revokes it.
LEMMA EndsWithAnEvent ==
  ASSUME TypeOK, [Next]_vars, NEW t \in Teams, NEW gen \in Gens,
         Accepts([team |-> t, gen |-> gen]), ~Accepts([team |-> t, gen |-> gen])'
  PROVE  \E e \in Events : Uninstall(t, e) /\ slack[t].gen = gen
<1>0. /\ slack \in [Teams -> [installed : BOOLEAN, gen : Gens, name : Names]]
      /\ slack[t].installed /\ slack[t].gen = gen
      /\ ~(slack'[t].installed /\ slack'[t].gen = gen)
  BY DEF TypeOK, Accepts
<1>1. ASSUME NEW p \in Handlers, NEW u \in Teams, ExchangeCode(p, u)
      PROVE  FALSE
  BY <1>0, <1>1 DEF ExchangeCode
<1>2. ASSUME NEW u \in Teams, NEW n \in Names, Rename(u, n)
      PROVE  FALSE
  BY <1>0, <1>2 DEF Rename
<1>3. ASSUME NEW u \in Teams, NEW e \in Events, Uninstall(u, e)
      PROVE  u = t
  BY <1>0, <1>3 DEF Uninstall
<1>4. CASE UNCHANGED slack
  BY <1>0, <1>4
<1>5. \/ UNCHANGED slack
      \/ \E p \in Handlers, u \in Teams : ExchangeCode(p, u)
      \/ \E u \in Teams, e \in Events : Uninstall(u, e)
      \/ \E u \in Teams, n \in Names : Rename(u, n)
  BY Steps DEF vars, InstallUrl, JoinChannel, ConsumeState, FindInstallation, LoadTarget,
               EnsureAvailable, UpsertIntegration, StoreInstallation, RecordEvent, ApplyEvent,
               MarkEventProcessed, PostMessage, MarkNeedsAttention, Abort
<1> QED BY <1>0, <1>1, <1>2, <1>3, <1>4, <1>5

LEMMA EndStep ==
  ASSUME TypeOK, HandlerInv, SentInv, SeenInv, WorkspaceHasOneHome, EndInv, [Next]_vars
  PROVE  EndInv'
<1> DEFINE Witness(o, t, e) == /\ event[e].kind \in Revoking /\ event[e].team = t
                               /\ event[e].gen = Stored(o, t).gen
<1> SUFFICES ASSUME NEW o \in Orgs, NEW t \in Teams,
                    Exists(o, t)', ~Usable(o, t)', ~inst'[o][t].late
             PROVE  \E e \in Events : /\ event'[e].kind \in Revoking /\ event'[e].team = t
                                      /\ event'[e].gen = Stored(o, t)'.gen
  BY DEF EndInv
<1>1. ASSUME NEW e \in Events, event[e].kind \in Revoking
      PROVE  /\ event'[e].kind = event[e].kind /\ event'[e].team = event[e].team
             /\ event'[e].gen = event[e].gen
  BY <1>1, EventSteps DEF SentInv, Revoking
<1>2. CASE Exists(o, t) /\ Stored(o, t)' = Stored(o, t) /\ inst'[o][t].late = inst[o][t].late
  <2>1. CASE ~Usable(o, t)
    <3>1. \E e \in Events : Witness(o, t, e)
      BY <1>2, <2>1 DEF EndInv
    <3> QED BY <1>1, <1>2, <3>1
  <2>2. CASE Usable(o, t)
    <3>1. /\ Stored(o, t).team = t /\ Stored(o, t).gen \in Gens
          /\ Stored(o, t) = [team |-> t, gen |-> Stored(o, t).gen]
      <4>1. inst[o][t].name \in Names
        BY DEF TypeOK
      <4>2. Stored(o, t) \in [team : Teams, gen : Gens]
        BY <4>1 DEF TypeOK, Stored
      <4>3. Stored(o, t).team = t
        BY <1>2 DEF WorkspaceHasOneHome
      <4> QED BY <4>2, <4>3
    <3>2. PICK e \in Events : Uninstall(t, e) /\ slack[t].gen = Stored(o, t).gen
      <4>1. Accepts([team |-> t, gen |-> Stored(o, t).gen])
        BY <2>2, <3>1 DEF Usable
      <4>2. ~(slack'[t].installed /\ slack'[t].gen = Stored(o, t).gen)
        BY <1>2, <3>1 DEF Usable, Accepts
      <4> DEFINE gen == Stored(o, t).gen
      <4>3. \A g \in Gens : /\ Accepts([team |-> t, gen |-> g])
                            /\ ~(slack'[t].installed /\ slack'[t].gen = g)
                            => \E e \in Events : Uninstall(t, e) /\ slack[t].gen = g
        BY EndsWithAnEvent DEF Accepts
      <4> QED BY <3>1, <4>1, <4>2, <4>3
    <3>3. /\ event'[e].kind \in Revoking /\ event'[e].team = t
          /\ event'[e].gen = slack[t].gen
      <4>1. event \in [Events -> EventType]
        BY DEF TypeOK, EventType
      <4> QED BY <3>2, <4>1 DEF Uninstall, Send, EventType
    <3> QED BY <1>2, <3>2, <3>3
  <2> QED BY <2>1, <2>2
<1>3. ASSUME NEW p \in Handlers, Storing(p), Accepts([team |-> t, gen |-> h[p].gen]),
             Stored(o, t)' = [team |-> t, gen |-> h[p].gen]
      PROVE  FALSE
  BY <1>3 DEF Storing, Usable, Accepts
<1>4. inst'[o][t] = inst[o][t] => Exists(o, t) /\ inst'[o][t].late = inst[o][t].late
  BY DEF Exists
<1> QED BY <1>2, <1>3, <1>4, RowChange

LEMMA BlameStep ==
  ASSUME TypeOK, HandlerInv, SentInv, SeenInv, GenInv, WorkspaceHasOneHome, BlameHasACause,
         [Next]_vars
  PROVE  BlameHasACause'
<1> SUFFICES ASSUME NEW o \in Orgs, NEW t \in Teams,
                    inst'[o][t].status \in {"needs_attention", "uninstalled"},
                    Usable(o, t)'
             PROVE  inst'[o][t].misjudged
  BY DEF BlameHasACause
<1>1. Exists(o, t) => /\ Stored(o, t) = [team |-> t, gen |-> Stored(o, t).gen]
                      /\ Stored(o, t).gen \in Gens
                      /\ Stored(o, t).gen <= slack[t].gen
  <2>1. inst[o][t].name \in Names
    BY DEF TypeOK
  <2>2. Stored(o, t) \in [team : Teams, gen : Gens]
    BY <2>1 DEF TypeOK, Stored
  <2>3. Exists(o, t) => Stored(o, t).team = t
    BY DEF WorkspaceHasOneHome
  <2>4. Stored(o, t).gen <= slack[Stored(o, t).team].gen
    BY <2>1 DEF GenInv, Stored
  <2> QED BY <2>2, <2>3, <2>4
\* A token that is accepted after a step was accepted before it.
<1>2. ASSUME Exists(o, t), Stored(o, t)' = Stored(o, t)
      PROVE  Accepts([team |-> t, gen |-> Stored(o, t).gen])
  <2>1. \A g \in Gens : /\ g <= slack[t].gen /\ slack'[t].installed /\ slack'[t].gen = g
                        => Accepts([team |-> t, gen |-> g])
    BY EndedForGood DEF Accepts
  <2>2. slack'[t].installed /\ slack'[t].gen = Stored(o, t).gen
    BY <1>1, <1>2 DEF Usable, Accepts
  <2> QED BY <1>1, <1>2, <2>1, <2>2
<1>3. CASE inst'[o][t] = inst[o][t] /\ (Exists(o, t) => Stored(o, t)' = Stored(o, t))
  <2>1. Exists(o, t)
    BY <1>3 DEF Exists
  <2>2. Usable(o, t)
    BY <1>1, <1>2, <1>3, <2>1 DEF Usable
  <2> QED BY <1>3, <2>2 DEF BlameHasACause
<1> QED BY <1>2, <1>3, RowChange

LEMMA ToldStep ==
  ASSUME TypeOK, HandlerInv, SentInv, SeenInv, WorkspaceHasOneHome, ToldInv, [Next]_vars
  PROVE  ToldInv'
<1> SUFFICES ASSUME NEW o \in Orgs, NEW t \in Teams, NEW e \in Events, Unaware(o, t, e)'
             PROVE  /\ event'[e].row # "done"
                    /\ \A p \in Handlers :
                         h'[p].at \in Recording /\ h'[p].event = e
                           => h'[p].at # "mark" /\ h'[p].org = o
  BY DEF ToldInv, At
<1> USE DEF Goto, End, At
<1>0. /\ h \in [Handlers -> HandlerType] /\ event \in [Events -> EventType]
      /\ event'[e].kind \in Revoking /\ event'[e].team = t
      /\ inst'[o][t].status = "connected" /\ ~inst'[o][t].late
      /\ event'[e].gen = Stored(o, t)'.gen
  BY DEF TypeOK, HandlerType, EventType, Unaware
\* The event reports the end of a token that was in its place before this step.
<1>1. inst'[o][t] = inst[o][t] /\ Exists(o, t) /\ Stored(o, t)' = Stored(o, t)
  <2>1. ASSUME NEW p \in Handlers, Storing(p), Accepts([team |-> t, gen |-> h[p].gen]),
               Stored(o, t)' = [team |-> t, gen |-> h[p].gen]
        PROVE  FALSE
    BY <1>0, <2>1 DEF Storing, SentInv
  <2> QED BY <1>0, <2>1, RowChange DEF Exists
<1>2. CASE ~event[e].sent
  <2>1. /\ event'[e].row = "none" /\ UNCHANGED h
    BY <1>0, <1>2, EventChange DEF SentInv, Revoking
  <2>2. ASSUME NEW p \in Handlers, h[p].at \in Recording, h[p].event = e
        PROVE  FALSE
    BY <1>2, <2>2 DEF HandlerInv
  <2> QED BY <2>1, <2>2
<1>3. CASE event[e].sent
  <2>1. /\ event[e].kind = event'[e].kind /\ event[e].team = t /\ Unaware(o, t, e)
    BY <1>0, <1>1, <1>3, EventSteps DEF Unaware
  <2>2. /\ event[e].row # "done"
        /\ \A p \in Handlers : h[p].at \in Recording /\ h[p].event = e
                                 => h[p].at # "mark" /\ h[p].org = o
    BY <2>1 DEF ToldInv
  <2>3. event'[e].row # "done"
    <3>1. ASSUME NEW p \in Handlers, h[p].event = e, MarkEventProcessed(p)
          PROVE  FALSE
      BY <2>2, <3>1 DEF MarkEventProcessed, Recording
    <3> QED BY <1>3, <2>2, <3>1, EventChange
  <2>4. ASSUME NEW p \in Handlers, h'[p].at \in Recording, h'[p].event = e
        PROVE  h'[p].at # "mark" /\ h'[p].org = o
    <3>0. h[p] \in HandlerType
      BY <1>0
    <3>1. CASE UNCHANGED h[p]
      BY <2>2, <2>4, <3>1
    <3>2. h'[p] # Idle
      BY <2>4 DEF Idle, Recording
    <3>3. ASSUME NEW f \in Flows, ConsumeState(p, f)
          PROVE  UNCHANGED h[p]
      BY <1>0, <2>4, <3>3 DEF ConsumeState, Idle, Recording
    <3>4. ASSUME NEW x \in Events, FindInstallation(p, x)
          PROVE  h'[p].at # "mark" /\ h'[p].org = o
      <4>1. PICK y \in Orgs \cup {None} :
              /\ Found(y, event[x].team)
              /\ h' = [h EXCEPT ![p] = [Idle EXCEPT !.at = "record", !.org = y,
                                                    !.team = event[x].team, !.event = x]]
        BY <3>4 DEF FindInstallation
      <4>2. h'[p].at = "record" /\ h'[p].org = y /\ x = e
        BY <1>0, <2>4, <4>1 DEF Idle
      <4>3. Found(y, t)
        BY <2>1, <4>1, <4>2
      <4>4. y # None /\ y \in Orgs
        BY <1>1, <4>3 DEF Found
      <4>5. y = o
        BY <1>1, <4>3, <4>4 DEF Found, WorkspaceHasOneHome
      <4> QED BY <4>2, <4>5
    <3>5. ASSUME NEW x \in Orgs, NEW y \in Teams, LoadTarget(p, x, y)
          PROVE  FALSE
      BY <1>0, <2>4, <3>5 DEF LoadTarget, Idle, Recording
    <3>6. ASSUME NEW y \in Teams, ExchangeCode(p, y)
          PROVE  FALSE
      BY <1>0, <2>4, <3>0, <3>6 DEF ExchangeCode, HandlerType, Recording
    <3>7. ASSUME EnsureAvailable(p) \/ UpsertIntegration(p)
          PROVE  FALSE
      BY <1>0, <2>4, <3>0, <3>2, <3>7 DEF EnsureAvailable, UpsertIntegration, HandlerType, Recording
    <3>8. ASSUME RecordEvent(p)
          PROVE  h'[p].at # "mark" /\ h'[p].org = o
      <4>1. h[p].event = e => h[p].org = o /\ h[p].org # None
        BY <2>2, <3>8, SlackAssumption DEF RecordEvent, Recording
      <4> QED BY <1>0, <2>1, <2>4, <3>0, <3>2, <3>8, <4>1 DEF RecordEvent, HandlerType
    <3>9. ASSUME ApplyEvent(p)
          PROVE  FALSE
      <4>1. h[p].event = e /\ h[p].at = "apply" /\ h[p].org = o /\ h[p].team = t
        BY <1>0, <2>1, <2>2, <2>4, <3>0, <3>9 DEF ApplyEvent, HandlerType, HandlerInv, Recording
      <4>2. event[h[p].event].kind # "bot_joined"
        BY <2>1, <1>0, <4>1 DEF Revoking
      <4>3. Marking(p, event[e].gen)
        BY <3>9, <4>1, <4>2 DEF ApplyEvent, Marking
      <4> QED BY <1>0, <4>1, <4>3, MarkedRows
    <3>10. ASSUME PostMessage(p)
           PROVE  FALSE
      BY <1>0, <2>4, <3>0, <3>2, <3>10 DEF PostMessage, HandlerType, Recording
    <3> QED BY <3>1, <3>2, <3>3, <3>4, <3>5, <3>6, <3>7, <3>8, <3>9, <3>10, Acts
  <2> QED BY <2>3, <2>4
<1> QED BY <1>2, <1>3

-----------------------------------------------------------------------------
(* The theorems                                                            *)

\* The inductive invariant holds of every behaviour of handlers, deliveries and
\* Slack.
THEOREM Invariance == Spec => []IInv
<1>1. Init => IInv
  BY InitIInv
<1>2. IInv /\ [Next]_vars => IInv'
  BY TypeStep, HandlerStep, SeenStep, GenStep, SentStep, HomeStep, ToldStep, EndStep, BlameStep
     DEF IInv
<1> QED BY <1>1, <1>2, PTL DEF Spec

\* Every variable keeps its type.
THEOREM TypeCorrect == Spec => []TypeOK
<1>1. IInv => TypeOK
  BY DEF IInv
<1> QED BY <1>1, Invariance, PTL

\* However callbacks race and workspaces are renamed, a workspace is installed
\* at one organization, and its installation reads its own token.
THEOREM OneHome == Spec => []WorkspaceHasOneHome
<1>1. IInv => WorkspaceHasOneHome
  BY DEF IInv
<1> QED BY <1>1, Invariance, PTL

\* An installation that looks connected with a token Slack refuses was stored too
\* late, or an event that says so is still to be handled.
THEOREM RevocationsAreNoticed == Spec => []RevocationIsNoticed
<1>1. ASSUME IInv
      PROVE  RevocationIsNoticed
  <2> SUFFICES ASSUME NEW o \in Orgs, NEW t \in Teams, inst[o][t].status = "connected",
                      ~Usable(o, t), ~inst[o][t].late
               PROVE  \E e \in Events :
                        /\ event[e].kind \in Revoking /\ event[e].team = t
                        /\ event[e].gen = Stored(o, t).gen
                        /\ event[e].row # "done"
    BY DEF RevocationIsNoticed
  <2>1. PICK e \in Events : /\ event[e].kind \in Revoking /\ event[e].team = t
                            /\ event[e].gen = Stored(o, t).gen
    BY <1>1 DEF IInv, EndInv, Exists
  <2>2. event[e].row # "done"
    BY <1>1, <2>1 DEF IInv, ToldInv, Unaware
  <2> QED BY <2>1, <2>2
<1>2. IInv => RevocationIsNoticed
  BY <1>1
<1> QED BY <1>2, Invariance, PTL

\* An installation whose token works is marked broken only by what concerns an
\* older token.
THEOREM BlamesHaveACause == Spec => []BlameHasACause
<1>1. IInv => BlameHasACause
  BY DEF IInv
<1> QED BY <1>1, Invariance, PTL

=============================================================================
