-------------------------- MODULE SlackInstallation --------------------------
(***************************************************************************)
(* How an organization's Slack installation is connected, marked broken    *)
(* and used: api/src/slack.rs, and the part of the delivery worker that    *)
(* reads an installation and reports a refused token.                      *)
(*                                                                         *)
(* Three kinds of handlers race: OAuth callbacks that store a token, event *)
(* callbacks that mark installations and register channels, and worker     *)
(* deliveries.  Slack itself is external: its workspaces (teams) install   *)
(* and uninstall the app and are renamed, and it sends events that arrive  *)
(* in any order, any number of times or never.                             *)
(*                                                                         *)
(* A token stands for the workspace and the number of the installation at  *)
(* Slack it was issued for.  Bella has one Slack app.  Rows are named by   *)
(* their unique keys: an integration by its organization and display name, *)
(* an installation by its organization and team.                           *)
(***************************************************************************)
EXTENDS Naturals

CONSTANTS
  Orgs,          \* organizations
  Teams,         \* Slack workspaces
  Names,         \* names workspaces can have
  Renamed,       \* workspaces whose name changes (bound)
  FirstName,     \* the name of each workspace at the beginning
  Flows,         \* slack_oauth_states rows a behaviour can use
  Events,        \* events Slack can send in a behaviour
  Handlers,      \* requests and deliveries served at once
  MaxGen,        \* how often a workspace can install the app
  None           \* no organization, no event

ASSUME SlackAssumption ==
  /\ Teams # {}
  /\ FirstName \in [Teams -> Names]
  /\ Renamed \subseteq Teams
  /\ MaxGen \in Nat \ {0}
  /\ None \notin Orgs \cup Events

VARIABLES
  slack,         \* external: [installed, gen, name] of each workspace
  flow,          \* slack_oauth_states
  token,         \* the bot token stored with integration "Slack - name"
  inst,          \* slack_installations
  target,        \* <<org, team>> with an active delivery target
  event,         \* what Slack sends, and its row in slack_events
  h              \* where each handler is, and what it has read

vars == <<slack, flow, token, inst, target, event, h>>

Gens == 0 .. MaxGen
NoToken == [team |-> CHOOSE t \in Teams : TRUE, gen |-> 0]
NoRow == [name |-> CHOOSE n \in Names : TRUE, status |-> "absent",
          late |-> FALSE, misjudged |-> FALSE]
Idle == [at |-> "idle", org |-> None, team |-> CHOOSE t \in Teams : TRUE, gen |-> 0,
         name |-> CHOOSE n \in Names : TRUE, locked |-> FALSE,
         event |-> None]

Init ==
  /\ slack = [t \in Teams |-> [installed |-> FALSE, gen |-> 0, name |-> FirstName[t]]]
  /\ flow = [f \in Flows |-> [org |-> None, status |-> "none"]]
  /\ token = [o \in Orgs |-> [n \in Names |-> NoToken]]
  /\ inst = [o \in Orgs |-> [t \in Teams |-> NoRow]]
  /\ target = {}
  /\ event = [e \in Events |-> [kind |-> "other", team |-> CHOOSE t \in Teams : TRUE,
                                gen |-> 0, sent |-> FALSE, row |-> "none"]]
  /\ h = [p \in Handlers |-> Idle]

-----------------------------------------------------------------------------
At(p, at) == h[p].at = at
Goto(p, at) == h' = [h EXCEPT ![p].at = at]
End(p) == h' = [h EXCEPT ![p] = Idle]

Exists(o, t) == inst[o][t].status # "absent"
Stored(o, t) == token[o][inst[o][t].name]
Accepts(tk) == slack[tk.team].installed /\ slack[tk.team].gen = tk.gen
Usable(o, t) == Accepts(Stored(o, t))

\* Rows that uncommitted callbacks have locked.
InstallationFree(p, o, t) ==
  \A q \in Handlers \ {p} :
    ~(h[q].at \in {"integration", "installation"} /\ h[q].locked
      /\ h[q].org = o /\ h[q].team = t)
IntegrationFree(p, o, n) ==
  \A q \in Handlers \ {p} : ~(At(q, "installation") /\ h[q].org = o /\ h[q].name = n)

-----------------------------------------------------------------------------
(* install_url and the OAuth callback                                      *)

InstallUrl(f, o) ==
  /\ flow[f].status = "none"
  /\ flow' = [flow EXCEPT ![f] = [org |-> o, status |-> "open"]]
  /\ UNCHANGED <<slack, token, inst, target, event, h>>

\* A flow that expires is one that is never consumed.  The state is consumed
\* before anything else is checked: a callback from another browser, or one that
\* reports a refusal, ends here and the flow is gone.
ConsumeState(p, f) ==
  /\ At(p, "idle") /\ flow[f].status = "open"
  /\ flow' = [flow EXCEPT ![f].status = "consumed"]
  /\ \/ UNCHANGED h
     \/ h' = [h EXCEPT ![p] = [Idle EXCEPT !.at = "exchange", !.org = flow[f].org]]
  /\ UNCHANGED <<slack, token, inst, target, event>>

\* exchange_slack_oauth_code: installing again what is installed keeps the token.
ExchangeCode(p, t) ==
  LET gen == IF slack[t].installed THEN slack[t].gen ELSE slack[t].gen + 1 IN
  /\ At(p, "exchange") /\ gen \in Gens
  /\ slack' = [slack EXCEPT ![t].installed = TRUE, ![t].gen = gen]
  /\ h' = [h EXCEPT ![p] = [@ EXCEPT !.at = "ensure", !.team = t, !.gen = gen,
                                     !.name = slack[t].name]]
  /\ UNCHANGED <<flow, token, inst, target, event>>

\* ensure_slack_workspace_available: select ... for update
EnsureAvailable(p) ==
  LET t == h[p].team IN
  /\ At(p, "ensure")
  /\ \A o \in Orgs : InstallationFree(p, o, t)
  /\ IF \E o \in Orgs \ {h[p].org} : Exists(o, t)
       THEN End(p)
       ELSE h' = [h EXCEPT ![p].at = "integration", ![p].locked = Exists(h[p].org, t)]
  /\ UNCHANGED <<slack, flow, token, inst, target, event>>

\* upsert_slack_integration takes the row of the display name; what it writes
\* shows at the commit.
UpsertIntegration(p) ==
  /\ At(p, "integration")
  /\ IntegrationFree(p, h[p].org, h[p].name)
  /\ Goto(p, "installation")
  /\ UNCHANGED <<slack, flow, token, inst, target, event>>

\* unique (slack_team_id, slack_app_id)
NeverTaken(o, t) == FALSE
TakenByOther(o, t) == \E x \in Orgs \ {o} : Exists(x, t)
\* unique (integration_id)
NameTaken(o, t, n) == \E x \in Teams \ {t} : Exists(o, x) /\ inst[o][x].name = n
\* on conflict ... status = 'connected', status_reason = null, revoked_at = null
StatusKept(row) == IF row.status = "absent" THEN "connected" ELSE row.status
Connected(row) == "connected"

\* upsert_slack_installation and the commit; a violated constraint rolls the
\* credential back with it.
StoreInstallation(p) ==
  LET o == h[p].org  t == h[p].team  n == h[p].name
      tk == [team |-> t, gen |-> h[p].gen]
  IN
  /\ At(p, "installation") /\ InstallationFree(p, o, t)
  /\ IF TakenByOther(o, t) \/ NameTaken(o, t, n)
       THEN UNCHANGED <<token, inst>>
       ELSE /\ token' = [token EXCEPT ![o][n] = tk]
            /\ inst' = [inst EXCEPT ![o][t] =
                 [name |-> n, status |-> Connected(@), late |-> ~Accepts(tk),
                  misjudged |-> FALSE]]
  /\ End(p)
  /\ UNCHANGED <<slack, flow, target, event>>

-----------------------------------------------------------------------------
(* handle_slack_event_callback                                             *)

Revoking == {"app_uninstalled", "tokens_revoked"}
\* target_from_slack_event tells a bot that joins from another user.
Joining == {"bot_joined", "other_joined"}

\* find_slack_installation: the organization of the row, or none
Found(o, t) == IF o = None THEN \A x \in Orgs : ~Exists(x, t) ELSE Exists(o, t)

FindInstallation(p, e) ==
  LET t == event[e].team IN
  /\ At(p, "idle") /\ event[e].sent
  /\ \E o \in Orgs \cup {None} :
       /\ Found(o, t)
       /\ h' = [h EXCEPT ![p] = [Idle EXCEPT !.at = "record", !.org = o, !.team = t,
                                             !.event = e]]
  /\ UNCHANGED <<slack, flow, token, inst, target, event>>

\* on conflict (slack_event_id) do nothing
Known(e) == event[e].row # "none"
ProcessedAtOnce == "done"
\* the default of slack_events.status, until the handler's last statement
Received == "received"

\* What applies to an installation goes on to it; the rest is marked ignored.
RecordEvent(p) ==
  LET e == h[p].event IN
  /\ At(p, "record")
  /\ IF Known(e)
       THEN End(p) /\ UNCHANGED event
       ELSE /\ event' = [event EXCEPT ![e].row = Received]
            /\ Goto(p, IF h[p].org # None /\ event[e].kind \in Revoking \cup {"bot_joined"}
                         THEN "apply" ELSE "mark")
  /\ UNCHANGED <<slack, flow, token, inst, target>>

\* misjudged: the mark is about a token that is no longer the stored one.
Marked(row, status, current) ==
  [row EXCEPT !.status = status, !.misjudged = ~current]

\* upsert_slack_delivery_target
Registered(o, t) == target \cup {<<o, t>>}

ApplyEvent(p) ==
  LET e == h[p].event  o == h[p].org  t == h[p].team IN
  /\ At(p, "apply") /\ InstallationFree(p, o, t)
  /\ IF event[e].kind = "bot_joined"
       THEN target' = Registered(o, t) /\ UNCHANGED inst
       ELSE /\ inst' = [inst EXCEPT ![o][t] =
                 Marked(@, IF event[e].kind = "app_uninstalled" THEN "uninstalled"
                                                                ELSE "needs_attention",
                        event[e].gen = Stored(o, t).gen)]
            /\ UNCHANGED target
  /\ Goto(p, "mark")
  /\ UNCHANGED <<slack, flow, token, event>>

MarkEventProcessed(p) ==
  /\ At(p, "mark")
  /\ event' = [event EXCEPT ![h[p].event].row = "done"]
  /\ End(p)
  /\ UNCHANGED <<slack, flow, token, inst, target>>

-----------------------------------------------------------------------------
(* A delivery of the worker                                                *)

LoadTarget(p, o, t) ==
  /\ At(p, "idle")
  /\ inst[o][t].status = "connected" /\ <<o, t>> \in target
  /\ h' = [h EXCEPT ![p] = [Idle EXCEPT !.at = "post", !.org = o, !.team = t,
                                        !.gen = Stored(o, t).gen]]
  /\ UNCHANGED <<slack, flow, token, inst, target, event>>

PostMessage(p) ==
  /\ At(p, "post")
  /\ IF Accepts([team |-> h[p].team, gen |-> h[p].gen])
       THEN End(p) ELSE Goto(p, "refused")
  /\ UNCHANGED <<slack, flow, token, inst, target, event>>

MarkNeedsAttention(p) ==
  LET o == h[p].org  t == h[p].team IN
  /\ At(p, "refused") /\ InstallationFree(p, o, t)
  /\ inst' = [inst EXCEPT ![o][t] =
       Marked(@, "needs_attention", h[p].gen = Stored(o, t).gen)]
  /\ End(p)
  /\ UNCHANGED <<slack, flow, token, target, event>>

-----------------------------------------------------------------------------
(* Slack, and the death of handlers                                        *)

Send(e, kind, t) ==
  /\ ~event[e].sent
  /\ event' = [event EXCEPT ![e] = [@ EXCEPT !.kind = kind, !.team = t,
                                             !.gen = slack[t].gen, !.sent = TRUE]]

\* The app is uninstalled, or its tokens revoked: either ends the token.
Uninstall(t, e) ==
  /\ slack[t].installed
  /\ \E kind \in Revoking : Send(e, kind, t)
  /\ slack' = [slack EXCEPT ![t].installed = FALSE]
  /\ UNCHANGED <<flow, token, inst, target, h>>

JoinChannel(t, e) ==
  /\ slack[t].installed
  /\ \E kind \in Joining : Send(e, kind, t)
  /\ UNCHANGED <<slack, flow, token, inst, target, h>>

Rename(t, n) ==
  /\ t \in Renamed /\ n # slack[t].name
  /\ slack' = [slack EXCEPT ![t].name = n]
  /\ UNCHANGED <<flow, token, inst, target, event, h>>

\* The process dies, a statement fails, or PostgreSQL aborts the transaction.
Abort(p) ==
  /\ ~At(p, "idle") /\ End(p)
  /\ UNCHANGED <<slack, flow, token, inst, target, event>>

Continue(p) ==
  \/ EnsureAvailable(p) \/ UpsertIntegration(p) \/ StoreInstallation(p)
  \/ (\E t \in Teams : ExchangeCode(p, t))
  \/ RecordEvent(p) \/ ApplyEvent(p) \/ MarkEventProcessed(p)
  \/ PostMessage(p) \/ MarkNeedsAttention(p)

Begin(p) ==
  \/ \E f \in Flows : ConsumeState(p, f)
  \/ \E e \in Events : FindInstallation(p, e)
  \/ \E o \in Orgs, t \in Teams : LoadTarget(p, o, t)

Environment ==
  \/ \E f \in Flows, o \in Orgs : InstallUrl(f, o)
  \/ \E t \in Teams : \/ \E e \in Events : Uninstall(t, e) \/ JoinChannel(t, e)
                      \/ \E n \in Names : Rename(t, n)

Next == Environment \/ \E p \in Handlers : Begin(p) \/ Continue(p) \/ Abort(p)

Spec == Init /\ [][Next]_vars

-----------------------------------------------------------------------------
(* Properties                                                              *)

TypeOK ==
  /\ slack \in [Teams -> [installed : BOOLEAN, gen : Gens, name : Names]]
  /\ flow \in [Flows -> [org : Orgs \cup {None},
                         status : {"none", "open", "consumed"}]]
  /\ token \in [Orgs -> [Names -> [team : Teams, gen : Gens]]]
  /\ inst \in [Orgs -> [Teams ->
       [name : Names, status : {"absent", "connected", "needs_attention", "uninstalled"},
        late : BOOLEAN, misjudged : BOOLEAN]]]
  /\ target \in SUBSET (Orgs \X Teams)
  /\ event \in [Events ->
       [kind : Revoking \cup Joining \cup {"other"}, team : Teams, gen : Gens,
        sent : BOOLEAN, row : {"none", "received", "done"}]]
  /\ h \in [Handlers ->
       [at : {"idle", "exchange", "ensure", "integration", "installation", "record",
              "apply", "mark", "post", "refused"},
        org : Orgs \cup {None}, team : Teams, gen : Gens, name : Names,
        locked : BOOLEAN, event : Events \cup {None}]]

\* A workspace belongs to at most one organization, and the token a delivery
\* reads for it is that workspace's: however callbacks race, and although the
\* credentials are filed under a name that workspaces can share or change.
WorkspaceHasOneHome ==
  \A o \in Orgs, t \in Teams : Exists(o, t) =>
    /\ \A x \in Orgs \ {o} : ~Exists(x, t)
    /\ Stored(o, t).team = t

\* An installation is shown as connected with a token Slack no longer accepts
\* only while Slack's notice of it is not delivered, or its handler is at work or
\* died before it applied the notice, or if the callback that stored the token was
\* itself overtaken by the revocation.
RevocationIsNoticed ==
  \A o \in Orgs, t \in Teams :
    inst[o][t].status = "connected" /\ ~Usable(o, t) =>
      \/ inst[o][t].late
      \/ \E e \in Events :
           /\ event[e].kind \in Revoking /\ event[e].team = t
           /\ event[e].gen = Stored(o, t).gen
           /\ event[e].row # "done"

\* An installation whose token works is marked broken only on the word of an
\* older token: an event about it, or a delivery begun with it, that ended
\* after the reinstallation.
BlameHasACause ==
  \A o \in Orgs, t \in Teams :
    inst[o][t].status \in {"needs_attention", "uninstalled"} /\ Usable(o, t) =>
      inst[o][t].misjudged
=============================================================================
