----------------------------- MODULE Connections -----------------------------
(***************************************************************************)
(* How an organization connects PostHog and GitHub: the rows of            *)
(* integrations that api/src/integrations.rs and                           *)
(* api/src/github_integration.rs keep, and the webhook secrets             *)
(* api/src/posthog_ingestion.rs accepts.                                   *)
(*                                                                         *)
(* Both select the oldest integration of their type and update it, or      *)
(* insert one when there is none, without a lock between; PostHog's        *)
(* handlers do so in a transaction, GitHub's callback does not.  One       *)
(* organization.  What a PostHog handler writes carries the number it took *)
(* when its transaction began, which is created_at of the row it inserts;  *)
(* a row of GitHub's callback has the number of its insert.  PostHog's API *)
(* key and GitHub's repositories are left out.                             *)
(***************************************************************************)
EXTENDS Naturals, FiniteSets, FiniteSetsExt

CONSTANTS
  Handlers,      \* requests served at once
  Names,         \* display names
  DefaultName,   \* "PostHog", which rotate_posthog_secret gives
  Installations, \* GitHub installations, each of an account with a name of its own
  NoInstallation,
  MaxNumber      \* PostHog handlers and GitHub inserts of a behaviour (bound)

ASSUME ConnectionsAssumption ==
  /\ DefaultName \in Names
  /\ NoInstallation \notin Installations
  /\ MaxNumber \in Nat

VARIABLES
  next,          \* the next number
  row,           \* integrations and their integration_credentials
  h,             \* of each handler: where it is and what it selected
  github,        \* external: what GitHub did to each installation
  sent,          \* external: installation events GitHub sent, delivered any time
  lastSecret,    \* history: the secret of the last committed rotation, 0 for none
  crossed        \* history: an integration was inserted by a request that had found
                 \* none, while another such was at work or had finished since

vars == <<next, row, h, github, sent, lastSecret, crossed>>

Numbers == 1 .. MaxNumber
Types == {"posthog", "github"}
NoRow == [status |-> "none", type |-> "posthog", name |-> DefaultName,
          secret |-> 0, installation |-> NoInstallation]
Idle == [at |-> "idle", op |-> "save", type |-> "posthog", number |-> 0, target |-> 0,
         name |-> DefaultName, installation |-> NoInstallation, none |-> FALSE]

Init ==
  /\ next = 1
  /\ row = [n \in Numbers |-> NoRow]
  /\ h = [p \in Handlers |-> Idle]
  /\ github = [i \in Installations |-> "none"]
  /\ sent = {}
  /\ lastSecret = 0
  /\ crossed = FALSE

-----------------------------------------------------------------------------
At(p, at) == h[p].at = at
End(p) == h' = [h EXCEPT ![p] = Idle]
Exists(n) == row[n].status # "none"
RowsOf(type) == {n \in Numbers : Exists(n) /\ row[n].type = type}

\* A transaction that wrote row n, or inserts one with this name, has not committed.
RowFree(p, n) == \A q \in Handlers \ {p} : ~(At(q, "commit") /\ h[q].target = n)
NameFree(p, type, name) ==
  \A q \in Handlers \ {p} : ~(At(q, "commit") /\ h[q].type = type /\ h[q].name = name)

\* unique (organization_id, integration_type, display_name)
NameTaken(p, type, name) ==
  \E n \in RowsOf(type) \ {h[p].target} : row[n].name = name

Begin(p, op, name) ==
  /\ At(p, "idle") /\ next <= MaxNumber
  /\ next' = next + 1
  /\ h' = [h EXCEPT ![p] = [Idle EXCEPT !.at = "select", !.op = op, !.number = next,
                                        !.name = name]]
  /\ UNCHANGED <<row, github, sent, lastSecret, crossed>>

\* A plausible mistake.
SameName(p) == {n \in RowsOf(h[p].type) : row[n].name = h[p].name}

Candidates(p) == RowsOf(h[p].type)

\* select id ... order by created_at limit 1
SelectOldest(p) ==
  /\ At(p, "select")
  /\ h' = [h EXCEPT ![p].at = "write",
                    ![p].none = (RowsOf(h[p].type) = {}),
                    ![p].target = IF Candidates(p) = {} THEN 0 ELSE Min(Candidates(p))]
  /\ UNCHANGED <<next, row, github, sent, lastSecret, crossed>>

\* Both p and another request of its type found none.
Crossing(p) ==
  /\ h[p].none
  /\ \/ RowsOf(h[p].type) # {}
     \/ \E q \in Handlers \ {p} : h[q].none /\ h[q].type = h[p].type

-----------------------------------------------------------------------------
(* integrations.rs                                                         *)

SavePosthogSettings(p, name) == Begin(p, "save", name)
RotatePosthogSecret(p) == Begin(p, "rotate", DefaultName)

\* The update or the insert.  A row that is gone cannot be given credentials or
\* read back: the request fails.
WritePosthog(p) ==
  LET t == h[p].target  n == h[p].number
      name == IF t # 0 /\ h[p].op = "rotate" THEN row[t].name ELSE h[p].name
  IN
  /\ At(p, "write") /\ h[p].type = "posthog"
  /\ t # 0 => RowFree(p, t)
  /\ NameFree(p, "posthog", name)
  /\ IF NameTaken(p, "posthog", name) \/ (t # 0 /\ ~Exists(t))
       THEN End(p) /\ UNCHANGED crossed
       ELSE /\ h' = [h EXCEPT ![p].at = "commit", ![p].name = name,
                              ![p].target = IF t = 0 THEN n ELSE t]
            /\ crossed' = (crossed \/ (t = 0 /\ Crossing(p)))
  /\ UNCHANGED <<next, row, github, sent, lastSecret>>

\* A plausible mistake.
SecretKept(p) == IF row[h[p].target].secret = 0 THEN h[p].number ELSE row[h[p].target].secret

\* on conflict (integration_id, kind) do update
Secret(p) == h[p].number

CommitPosthog(p) ==
  LET t == h[p].target  n == h[p].number IN
  /\ At(p, "commit")
  /\ row' = [row EXCEPT ![t].status = "connected", ![t].name = h[p].name,
                        ![t].secret = IF h[p].op = "rotate" THEN Secret(p) ELSE @]
  /\ lastSecret' = IF h[p].op = "rotate" THEN n ELSE lastSecret
  /\ End(p)
  /\ UNCHANGED <<next, github, sent, crossed>>

\* One statement; it waits for rows that are written and does not see those that
\* are being inserted.
DeletePosthog ==
  /\ RowsOf("posthog") # {}
  /\ \A q \in Handlers : ~(At(q, "commit") /\ h[q].target \in RowsOf("posthog"))
  /\ row' = [n \in Numbers |-> IF n \in RowsOf("posthog") THEN NoRow ELSE row[n]]
  /\ lastSecret' = 0
  /\ UNCHANGED <<next, h, github, sent, crossed>>

\* verify_secret: any stored secret will do
Accepted == {row[n].secret : n \in {m \in RowsOf("posthog") : row[m].status # "disabled"}} \ {0}

-----------------------------------------------------------------------------
(* github_integration.rs                                                   *)

\* start, GitHub's page and the callback: the flow is consumed, the installation
\* is read from GitHub, and must be there then.
GithubCallback(p, i) ==
  /\ github[i] \in {"active", "suspended"}
  /\ At(p, "idle")
  /\ h' = [h EXCEPT ![p] = [Idle EXCEPT !.at = "select", !.op = "callback", !.type = "github",
                                        !.name = i, !.installation = i]]
  /\ UNCHANGED <<next, row, github, sent, lastSecret, crossed>>

\* upsert_github_integration: each statement by itself.  An update of a row that
\* is gone changes nothing, and the callback goes on.
WriteGithub(p) ==
  LET t == h[p].target  n == IF t = 0 THEN next ELSE t  i == h[p].installation IN
  /\ At(p, "write") /\ h[p].type = "github"
  /\ t = 0 => next <= MaxNumber
  /\ IF NameTaken(p, "github", i) \/ (t # 0 /\ ~Exists(t))
       THEN UNCHANGED <<next, row, crossed>>
       ELSE /\ next' = IF t = 0 THEN next + 1 ELSE next
            /\ row' = [row EXCEPT ![n] = [NoRow EXCEPT !.status = "connected",
                         !.type = "github", !.name = i, !.installation = i]]
            /\ crossed' = (crossed \/ (t = 0 /\ Crossing(p)))
  /\ End(p)
  /\ UNCHANGED <<github, sent, lastSecret>>

Disconnect ==
  /\ RowsOf("github") # {}
  /\ row' = [n \in Numbers |-> IF n \in RowsOf("github") THEN NoRow ELSE row[n]]
  /\ UNCHANGED <<next, h, github, sent, lastSecret, crossed>>

\* A plausible mistake.
AnyGithub(n, i) == n \in RowsOf("github")

\* metadata->>'installation_id' = $2
Concerns(n, i) == n \in RowsOf("github") /\ row[n].installation = i

StatusOf(action) == IF action \in {"deleted", "suspend"} THEN "disabled" ELSE "connected"

\* Events come in any order, again and late; one of an installation that is not
\* stored yet changes nothing.
Webhook(event) ==
  LET i == event[1]  action == event[2] IN
  /\ row' = [n \in Numbers |-> IF Concerns(n, i)
                               THEN [row[n] EXCEPT !.status = StatusOf(action)] ELSE row[n]]
  /\ UNCHANGED <<next, h, github, sent, lastSecret, crossed>>

Becomes(i, state) == github' = [github EXCEPT ![i] = state]
Send(i, action) == sent' = sent \cup {<<i, action>>}

\* A user installs the app, suspends, resumes and deletes the installation.
GithubAct(i) ==
  /\ \/ github[i] = "none" /\ Becomes(i, "active") /\ UNCHANGED sent
     \/ github[i] = "active" /\ Becomes(i, "suspended") /\ Send(i, "suspend")
     \/ github[i] = "suspended" /\ Becomes(i, "active") /\ Send(i, "unsuspend")
     \/ github[i] \in {"active", "suspended"} /\ Becomes(i, "deleted") /\ Send(i, "deleted")
  /\ UNCHANGED <<next, row, h, lastSecret, crossed>>

-----------------------------------------------------------------------------
\* A request fails at any statement, and its transaction is rolled back.
Abort(p) ==
  /\ ~At(p, "idle") /\ End(p)
  /\ UNCHANGED <<next, row, github, sent, lastSecret, crossed>>

Handle(p) ==
  \/ \E name \in Names : SavePosthogSettings(p, name)
  \/ RotatePosthogSecret(p) \/ SelectOldest(p) \/ WritePosthog(p) \/ CommitPosthog(p)
  \/ \E i \in Installations : GithubCallback(p, i)
  \/ WriteGithub(p) \/ Abort(p)

Next ==
  \/ \E p \in Handlers : Handle(p)
  \/ DeletePosthog \/ Disconnect
  \/ \E event \in sent : Webhook(event)
  \/ \E i \in Installations : GithubAct(i)

Spec == Init /\ [][Next]_vars

-----------------------------------------------------------------------------
(* Properties                                                              *)

TypeOK ==
  /\ next \in 1 .. MaxNumber + 1 /\ lastSecret \in 0 .. MaxNumber /\ crossed \in BOOLEAN
  /\ row \in [Numbers -> [status : {"none", "connected", "disabled"}, type : Types,
                          name : Names \cup Installations,
                          secret : 0 .. MaxNumber,
                          installation : Installations \cup {NoInstallation}]]
  /\ h \in [Handlers -> [at : {"idle", "select", "write", "commit"},
                         op : {"save", "rotate", "callback"}, type : Types,
                         number : 0 .. MaxNumber, target : 0 .. MaxNumber,
                         name : Names \cup Installations, none : BOOLEAN,
                         installation : Installations \cup {NoInstallation}]]
  /\ github \in [Installations -> {"none", "active", "suspended", "deleted"}]
  /\ sent \subseteq Installations \X {"suspend", "unsuspend", "deleted"}

\* The secret of the last rotation is accepted, whatever is saved, rotated and
\* connected meanwhile, and no earlier one is, as long as PostHog has one
\* integration.
LastSecretOnly ==
  /\ lastSecret # 0 => lastSecret \in Accepted
  /\ Cardinality(RowsOf("posthog")) <= 1 => Accepted \subseteq {lastSecret}

\* An organization has two integrations of a type only after two requests that
\* found none ran at once: saving, rotating or connecting under another name, one
\* after the other, never makes a second.
SecondNeedsACrossing ==
  \A type \in Types : Cardinality(RowsOf(type)) > 1 => crossed

\* GitHub is shown as disabled only for an event about the installation that is
\* stored: events of an installation that was replaced, in whatever order they
\* come, never disable its successor.
DisabledHasACause ==
  \A n \in RowsOf("github") :
    row[n].status = "disabled" =>
      \E action \in {"suspend", "deleted"} : <<row[n].installation, action>> \in sent
=============================================================================
