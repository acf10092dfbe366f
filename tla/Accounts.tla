------------------------------- MODULE Accounts -------------------------------
(***************************************************************************)
(* How people sign in and come by organizations: api/src/auth.rs, and      *)
(* create, list and ensure_default_organization of                         *)
(* api/src/organizations.rs.                                               *)
(*                                                                         *)
(* GitHub callbacks, list requests and create requests run at once, each a *)
(* handler of several steps; a row inserted by a transaction that has not  *)
(* committed makes another insertion of its key wait.  Advisory locks are  *)
(* taken together with the select that follows them.                       *)
(*                                                                         *)
(* An oauth_flows row and, for a CLI login, the cli_login_requests row it  *)
(* belongs to are named by one flow.  An expired row and a deleted one are *)
(* the same to every query: cleanup_expired_auth_records changes nothing   *)
(* else.                                                                   *)
(***************************************************************************)
EXTENDS Naturals, FiniteSets

CONSTANTS
  Users,         \* GitHub users
  Allowed,       \* users whose e-mail the configuration allows
  Flows,         \* sign-ins a behaviour can begin
  Keys,          \* Idempotency-Key headers
  Names,         \* names given to organizations
  Slugs,         \* what slugify makes of names and logins
  SlugOf,        \* slug of each name
  LoginSlug,     \* slug of each user's login
  Handlers,      \* requests served at once
  None           \* no user, no flow

ASSUME AccountsAssumption ==
  /\ Allowed \subseteq Users
  /\ SlugOf \in [Names -> Slugs] /\ LoginSlug \in [Users -> Slugs]
  /\ None \notin Users \cup Flows
  /\ Slugs # {} /\ "default" \notin Keys

VARIABLES
  flow,          \* oauth_flows: its kind and whether it can still be consumed
  login,         \* cli_login_requests, and the bella login that polls it
  session,       \* web_sessions: how many were inserted for each flow, whose it is
  token,         \* api_tokens: how many were committed for each flow, the last one
  access,        \* what the user has in organizations of others
  orgs,          \* organizations, each with its owner and its create request
  refused,       \* history: create requests refused for their slug
  h              \* where each handler is

vars == <<flow, login, session, token, access, orgs, refused, h>>

AllSlugs == Slugs \cup (Slugs \X Users)
AnyOf(S) == CHOOSE x \in S : TRUE
Default == [key |-> "default", name |-> "default"]
Idle == [at |-> "idle", user |-> None, flow |-> None, then |-> "done",
         request |-> Default, slug |-> AnyOf(Slugs)]

Init ==
  /\ flow = [f \in Flows |-> [kind |-> "web", status |-> "none"]]
  /\ login = [f \in Flows |-> [status |-> "none", token |-> 0, cli |-> "none"]]
  /\ session = [f \in Flows |-> [count |-> 0, user |-> None]]
  /\ token = [f \in Flows |-> [count |-> 0, user |-> None, live |-> FALSE]]
  /\ access \in [Users -> {"none", "invited"}]
  /\ orgs = {}
  /\ refused = {}
  /\ h = [p \in Handlers |-> Idle]

-----------------------------------------------------------------------------
At(p, at) == h[p].at = at
Goto(p, at) == h' = [h EXCEPT ![p].at = at]
End(p) == h' = [h EXCEPT ![p] = Idle]

Owned(u) == {o \in orgs : o.user = u}
IsMember(u) == access[u] = "member" \/ Owned(u) # {}
SlugTaken(s) == \E o \in orgs : o.slug = s

\* find_user_by_token
Authenticated(u) ==
  \E f \in Flows : session[f].user = u \/ (token[f].live /\ token[f].user = u)

\* github_email_allowed_by_config, email_has_organization_access
Authorized(u) == u \in Allowed \/ IsMember(u) \/ access[u] = "invited"

-----------------------------------------------------------------------------
(* auth.rs                                                                 *)

\* create_oauth_flow, which forgets what expired
Opened(f, kind) == [flow EXCEPT ![f] = [kind |-> kind, status |-> "open"]]

WebStart(f) ==
  /\ flow[f].status = "none"
  /\ flow' = Opened(f, "web")
  /\ UNCHANGED <<login, session, token, access, orgs, refused, h>>

\* The request, and then the flow; the CLI begins to poll when it has both.
CliStart(f) ==
  /\ flow[f].status = "none"
  /\ flow' = Opened(f, "cli")
  /\ login' = [login EXCEPT ![f] = [status |-> "open", token |-> 0, cli |-> "polling"]]
  /\ UNCHANGED <<session, token, access, orgs, refused, h>>

Gone(f) == [flow EXCEPT ![f].status = "gone"]

\* A plausible mistake.
StillThere(f) == flow

\* consume_oauth_flow: delete ... returning
Consumed(f) == Gone(f)

\* The row is gone whatever follows: a web callback that comes from another
\* browser ends here.
ConsumeFlow(p, f) ==
  /\ At(p, "idle") /\ flow[f].status = "open"
  /\ flow' = Consumed(f)
  /\ \/ h' = [h EXCEPT ![p] = [Idle EXCEPT !.at = "identify", !.flow = f]]
     \/ flow[f].kind = "web" /\ UNCHANGED h
  /\ UNCHANGED <<login, session, token, access, orgs, refused>>

\* fetch_github_identity, authorize_github_email and upsert_user.  The e-mail
\* decides here whether the user gets an organization.
Identify(p, u) ==
  LET last == IF flow[h[p].flow].kind = "web" THEN "session" ELSE "token" IN
  /\ At(p, "identify")
  /\ IF ~Authorized(u)
       THEN End(p)
       ELSE h' = [h EXCEPT ![p].user = u, ![p].then = last,
                           ![p].at = IF u \in Allowed THEN "onboard" ELSE last]
  /\ UNCHANGED <<flow, login, session, token, access, orgs, refused>>

InsertSession(p) ==
  /\ At(p, "session")
  /\ session' = [session EXCEPT ![h[p].flow] = [count |-> @.count + 1, user |-> h[p].user]]
  /\ End(p)
  /\ UNCHANGED <<flow, login, token, access, orgs, refused>>

MintedFor(p) == [token EXCEPT ![h[p].flow] =
                   [count |-> @.count + 1, user |-> h[p].user, live |-> TRUE]]

\* The transaction that inserted the token is rolled back when no request is
\* left to hold it.
Committed(p, rows) == IF rows = 1 THEN MintedFor(p) ELSE token

CompleteCliLogin(p) ==
  LET f == h[p].flow  rows == IF login[f].status = "open" THEN 1 ELSE 0 IN
  /\ At(p, "token")
  /\ token' = Committed(p, rows)
  /\ login' = IF rows = 1 THEN [login EXCEPT ![f].token = token[f].count + 1] ELSE login
  /\ End(p)
  /\ UNCHANGED <<flow, session, access, orgs, refused>>

\* cli_poll, and what bella login does with the answer.  The row keeps the
\* token until it expires: a second poll would be given the same.
CliPoll(f) ==
  /\ login[f].cli = "polling"
  /\ \/ login[f].status = "open" /\ login[f].token # 0
        /\ login' = [login EXCEPT ![f].cli = "saved"]
     \/ login[f].status = "expired" /\ login' = [login EXCEPT ![f].cli = "failed"]
  /\ UNCHANGED <<flow, session, token, access, orgs, refused, h>>

\* A poll fails or its answer is lost: bella login gives up.
CliGivesUp(f) ==
  /\ login[f].cli = "polling"
  /\ login' = [login EXCEPT ![f].cli = "failed"]
  /\ UNCHANGED <<flow, session, token, access, orgs, refused, h>>

\* logout, and the end of its thirty days
Logout(f) ==
  /\ session[f].user # None /\ session' = [session EXCEPT ![f].user = None]
  /\ UNCHANGED <<flow, login, token, access, orgs, refused, h>>

\* revoke_token, and the end of its ninety days
RevokeToken(f) ==
  /\ token[f].live /\ token' = [token EXCEPT ![f].live = FALSE]
  /\ UNCHANGED <<flow, login, session, access, orgs, refused, h>>

\* The request of a CLI login expires with its flow or a moment before.
ExpireLogin(f) ==
  /\ login[f].status = "open"
  /\ login' = [login EXCEPT ![f].status = "expired"]
  /\ UNCHANGED <<flow, session, token, access, orgs, refused, h>>

ExpireFlow(f) ==
  /\ flow[f].status = "open" /\ login[f].status # "open"
  /\ flow' = Gone(f)
  /\ UNCHANGED <<login, session, token, access, orgs, refused, h>>

-----------------------------------------------------------------------------
(* organizations.rs: onboarding                                            *)

\* Uncommitted rows and the locks their transactions hold.
Inserting(q, s) == At(q, "commit") /\ h[q].slug = s
InTransaction(q) == h[q].at \in {"slug", "insert", "commit"}

\* A plausible mistake.
OnboardingUnlocked(p) == TRUE

\* lock_key user-onboarding:<user>
OnboardingFree(p) ==
  \A q \in Handlers \ {p} :
    ~(InTransaction(q) /\ h[q].user = h[p].user /\ h[q].request = Default)

\* list answers when nothing is left to do for a user with an organization.
List(p, u) ==
  /\ At(p, "idle") /\ Authenticated(u) /\ u \in Allowed
  /\ h' = [h EXCEPT ![p] = [Idle EXCEPT !.at = "onboard", !.user = u]]
  /\ UNCHANGED <<flow, login, session, token, access, orgs, refused>>

Continue(p) ==
  IF h[p].then = "done" THEN End(p)
  ELSE h' = [h EXCEPT ![p].at = h[p].then, ![p].request = Default]

CheckMembership(p) ==
  /\ At(p, "onboard") /\ OnboardingFree(p)
  /\ IF IsMember(h[p].user) THEN Continue(p) ELSE Goto(p, "slug")
  /\ UNCHANGED <<flow, login, session, token, access, orgs, refused>>

\* The login, or the login and eight digits of the user's id.
ChooseSlug(p) ==
  LET u == h[p].user  base == LoginSlug[u] IN
  /\ At(p, "slug") /\ h[p].request = Default
  /\ h' = [h EXCEPT ![p].at = "insert",
                    ![p].slug = IF SlugTaken(base) THEN <<base, u>> ELSE base]
  /\ UNCHANGED <<flow, login, session, token, access, orgs, refused>>

-----------------------------------------------------------------------------
(* organizations.rs: create                                                *)

CreatedBy(u, key) == {o \in Owned(u) : o.request.key = key}

\* A plausible mistake.
CreateUnlocked(p, u, key) == TRUE

\* lock_key organization-create:<user>:<key>
CreateFree(p, u, key) ==
  \A q \in Handlers \ {p} :
    ~(InTransaction(q) /\ h[q].user = u /\ h[q].request.key = key)

\* A request whose key was used answers with the organization of that request,
\* or is refused when it asks for another name; neither changes anything.
Create(p, u, key, name) ==
  /\ At(p, "idle") /\ Authenticated(u) /\ CreateFree(p, u, key)
  /\ CreatedBy(u, key) = {}
  /\ h' = [h EXCEPT ![p] = [Idle EXCEPT !.at = "slug", !.user = u,
             !.request = [key |-> key, name |-> name], !.slug = SlugOf[name]]]
  /\ UNCHANGED <<flow, login, session, token, access, orgs, refused>>

Refuse(p) ==
  /\ refused' = IF h[p].request = Default THEN refused
                ELSE refused \cup {<<h[p].user, h[p].request>>}
  /\ End(p)

CheckSlug(p) ==
  /\ At(p, "slug") /\ h[p].request # Default
  /\ IF SlugTaken(h[p].slug) THEN Refuse(p) ELSE Goto(p, "insert") /\ UNCHANGED refused
  /\ UNCHANGED <<flow, login, session, token, access, orgs>>

-----------------------------------------------------------------------------
(* organizations.rs: both insert the organization, its owner and workspace *)

\* The slug is unique.
InsertOrganization(p) ==
  /\ At(p, "insert")
  /\ \A q \in Handlers \ {p} : ~Inserting(q, h[p].slug)
  /\ IF SlugTaken(h[p].slug) THEN Refuse(p) ELSE Goto(p, "commit") /\ UNCHANGED refused
  /\ UNCHANGED <<flow, login, session, token, access, orgs>>

Commit(p) ==
  /\ At(p, "commit")
  /\ orgs' = orgs \cup {[slug |-> h[p].slug, user |-> h[p].user, request |-> h[p].request]}
  /\ Continue(p)
  /\ UNCHANGED <<flow, login, session, token, access, refused>>

\* A request fails at any await, and its transaction is rolled back.
Abort(p) ==
  /\ ~At(p, "idle") /\ End(p)
  /\ UNCHANGED <<flow, login, session, token, access, orgs, refused>>

\* Invitations are sent, withdrawn, accepted, and members removed (Organizations).
ChangeAccess(u, a) ==
  /\ access[u] # a /\ access' = [access EXCEPT ![u] = a]
  /\ UNCHANGED <<flow, login, session, token, orgs, refused, h>>

Browse(f) ==
  \/ WebStart(f) \/ CliStart(f) \/ CliPoll(f) \/ CliGivesUp(f) \/ Logout(f)
  \/ RevokeToken(f) \/ ExpireLogin(f) \/ ExpireFlow(f)

Handle(p) ==
  \/ \E f \in Flows : ConsumeFlow(p, f)
  \/ \E u \in Users : Identify(p, u) \/ List(p, u)
  \/ \E u \in Users, key \in Keys, name \in Names : Create(p, u, key, name)
  \/ InsertSession(p) \/ CompleteCliLogin(p) \/ CheckMembership(p) \/ ChooseSlug(p)
  \/ CheckSlug(p) \/ InsertOrganization(p) \/ Commit(p) \/ Abort(p)

Next ==
  \/ \E f \in Flows : Browse(f)
  \/ \E p \in Handlers : Handle(p)
  \/ \E u \in Users, a \in {"none", "invited", "member"} : ChangeAccess(u, a)

Spec == Init /\ [][Next]_vars

-----------------------------------------------------------------------------
(* Properties                                                              *)

RequestType == [key : Keys, name : Names] \cup {Default}

TypeOK ==
  /\ flow \in [Flows -> [kind : {"web", "cli"}, status : {"none", "open", "gone"}]]
  /\ login \in [Flows -> [status : {"none", "open", "expired"}, token : 0 .. 1,
                          cli : {"none", "polling", "saved", "failed"}]]
  /\ session \in [Flows -> [count : 0 .. 1, user : Users \cup {None}]]
  /\ token \in [Flows -> [count : 0 .. 1, user : Users \cup {None}, live : BOOLEAN]]
  /\ access \in [Users -> {"none", "invited", "member"}]
  /\ orgs \subseteq [slug : AllSlugs, user : Users, request : RequestType]
  /\ refused \subseteq Users \X RequestType
  /\ h \in [Handlers -> [at : {"idle", "identify", "session", "token", "onboard", "slug",
                               "insert", "commit"},
                         user : Users \cup {None}, flow : Flows \cup {None},
                         then : {"done", "session", "token"},
                         request : RequestType, slug : AllSlugs]]

\* However many sign-ins and lists of a user run at once, and whatever happens to
\* the user's membership of other organizations meanwhile, at most one
\* organization is ever made for the user unasked.
OneDefaultOrganization ==
  \A u \in Users : Cardinality({o \in Owned(u) : o.request = Default}) <= 1

\* A create request that is repeated, even before the first has answered, is
\* never refused for the slug of the organization it made itself.
RetriesAreNotRefused ==
  \A o \in orgs : <<o.user, o.request>> \notin refused

\* A sign-in signs in once: however often its callback comes, whatever handlers
\* serve it at once, and also after a logout or a revocation, it gives one session
\* or one token.  A token is minted only together with the request its command
\* line polls, while that is open.  Nothing more is promised of a token nobody
\* fetched: when the request expires or the command line gives up after it was
\* minted, it can be collected by no one and stays valid for its ninety days.
SignInsServeOnce ==
  \A f \in Flows :
    /\ session[f].count + token[f].count <= 1
    /\ token[f].count = login[f].token
=============================================================================
