---------------------------- MODULE AgentSettings ----------------------------
(***************************************************************************)
(* The LLM configurations of one organization, api/src/agent_settings.rs:  *)
(* create, update, delete and set_default, each a transaction of several   *)
(* statements, and which of them is the default the agent uses.            *)
(*                                                                         *)
(* Transactions run as PostgreSQL runs them by default: a statement sees   *)
(* what was committed when it began and what its own transaction wrote; a  *)
(* row another transaction wrote makes it wait, and when that one has      *)
(* committed the row is judged again, but no other row is looked for.      *)
(* The index organization_agent_llm_settings_default_idx holds one default *)
(* row and makes a second wait for the transaction that may remove it.     *)
(***************************************************************************)
EXTENDS Naturals, FiniteSets

CONSTANTS
  Settings,      \* ids of configurations
  Handlers,      \* requests served at once
  NoSetting

ASSUME NoSettingAssumption == NoSetting \notin Settings

VARIABLES
  row,           \* committed rows of organization_agent_llm_settings
  h,             \* of each handler: where it is, what it was asked, what it wrote
  raced          \* history: the default was deleted while another was created or deleted

agentVars == <<row, h, raced>>

Present == {"plain", "default"}
Nothing == [s \in Settings |-> "same"]
Idle == [at |-> "idle", op |-> "create", id |-> NoSetting, default |-> FALSE,
         todo |-> {}, target |-> NoSetting, wrote |-> Nothing]

AgentInit ==
  /\ row = [s \in Settings |-> "absent"]
  /\ h = [p \in Handlers |-> Idle]
  /\ raced = FALSE

-----------------------------------------------------------------------------
(* What a statement of p sees and waits for                                *)

At(p, at) == h[p].at = at
End(p) == h' = [h EXCEPT ![p] = Idle]

Sees(p, s) == IF h[p].wrote[s] = "same" THEN row[s] ELSE h[p].wrote[s]
Rows(p) == {s \in Settings : Sees(p, s) \in Present}
Default(p) == {s \in Settings : Sees(p, s) = "default"}

Free(p, s) == \A q \in Handlers \ {p} : h[q].wrote[s] = "same"

\* A default other than s that is, or was until now, in the index
Decided(p, s) ==
  \A q \in Handlers \ {p}, x \in Settings \ {s} :
    /\ h[q].wrote[x] # "default"
    /\ row[x] = "default" => h[q].wrote[x] = "same"

\* A plausible mistake.
NoIndex(p, s) == FALSE

Clashes(p, s) == Default(p) \ {s} # {}

\* One statement that gives row s a value.  A violation of the index ends the
\* request, and its transaction is rolled back.
Write(p, s, value, next) ==
  /\ Free(p, s)
  /\ IF value = "default" /\ Sees(p, s) # "default"
       THEN /\ Decided(p, s)
            /\ IF Clashes(p, s) THEN End(p)
               ELSE h' = [h EXCEPT ![p].wrote[s] = value, ![p].at = next]
       ELSE h' = [h EXCEPT ![p].wrote[s] = value, ![p].at = next]

Begin(p, op, s, default, at) ==
  /\ At(p, "idle")
  /\ h' = [h EXCEPT ![p] = [Idle EXCEPT !.at = at, !.op = op, !.id = s, !.default = default]]
  /\ UNCHANGED row

-----------------------------------------------------------------------------
\* The first configuration is the default whatever was asked
\* (organization_has_settings).
CreateSettings(p, s, asked) ==
  LET default == asked \/ \A x \in Settings : row[x] \notin Present IN
  /\ row[s] = "absent" /\ \A q \in Handlers : h[q].id # s
  /\ Begin(p, "create", s, default, IF default THEN "clear" ELSE "write")

UpdateSettings(p, s, asked) ==
  /\ row[s] # "absent"
  /\ Begin(p, "update", s, asked, IF asked THEN "clear" ELSE "write")

\* An id that is not there ends the request before it changes anything.
SetDefault(p, s) == row[s] \in Present /\ Begin(p, "update", s, TRUE, "clear")

DeleteSettings(p, s) == row[s] \in Present /\ Begin(p, "delete", s, FALSE, "delete")

\* clear_default updates every row it sees, one after the other, and holds them.
FindRows(p) ==
  /\ At(p, "clear")
  /\ h' = [h EXCEPT ![p].at = "clearing", ![p].todo = Rows(p)]
  /\ UNCHANGED row

ClearRow(p) ==
  /\ At(p, "clearing")
  /\ \/ h[p].todo = {} /\ h' = [h EXCEPT ![p].at = "write"]
     \/ \E s \in h[p].todo :
          /\ Free(p, s)
          /\ h' = [h EXCEPT ![p].todo = @ \ {s},
                            ![p].wrote[s] = IF row[s] \in Present THEN "plain" ELSE @]
  /\ UNCHANGED row

\* insert, or update ... where id = $10 returning
WriteSettings(p) ==
  LET s == h[p].id  there == h[p].op = "create" \/ Sees(p, s) \in Present IN
  /\ At(p, "write")
  /\ IF there
       THEN Write(p, s, IF h[p].default THEN "default"
                        ELSE IF h[p].op = "create" THEN "plain" ELSE Sees(p, s), "commit")
       ELSE Free(p, s) /\ End(p)
  /\ UNCHANGED row

\* delete ... returning is_default
DeleteRow(p) ==
  LET s == h[p].id  next == IF Sees(p, s) = "default" THEN "promote" ELSE "commit" IN
  /\ At(p, "delete")
  /\ IF Sees(p, s) \in Present THEN Write(p, s, "gone", next) ELSE Free(p, s) /\ End(p)
  /\ UNCHANGED row

\* A plausible mistake.
NoCandidates(p) == {}

Candidates(p) == Rows(p)

\* The last updated of the rows it sees becomes the default; any may be that one.
FindCandidate(p) ==
  /\ At(p, "promote")
  /\ \/ /\ Candidates(p) = {} /\ h' = [h EXCEPT ![p].at = "commit"]
     \/ \E s \in Candidates(p) : h' = [h EXCEPT ![p].at = "promoted", ![p].target = s]
  /\ UNCHANGED row

\* A row deleted meanwhile is not promoted, nor another in its place.
PromoteCandidate(p) ==
  LET s == h[p].target IN
  /\ At(p, "promoted")
  /\ IF Sees(p, s) \in Present THEN Write(p, s, "default", "commit")
     ELSE Free(p, s) /\ h' = [h EXCEPT ![p].at = "commit"]
  /\ UNCHANGED row

Commit(p) ==
  /\ At(p, "commit")
  /\ row' = [s \in Settings |-> Sees(p, s)]
  /\ End(p)

\* A request fails at any statement (a name that exists, a deadlock PostgreSQL
\* broke, a lost connection), and its transaction is rolled back.
Abort(p) == ~At(p, "idle") /\ End(p) /\ UNCHANGED row

Handle(p) ==
  \/ \E s \in Settings, asked \in BOOLEAN :
       CreateSettings(p, s, asked) \/ UpdateSettings(p, s, asked)
  \/ \E s \in Settings : SetDefault(p, s) \/ DeleteSettings(p, s)
  \/ FindRows(p) \/ ClearRow(p) \/ WriteSettings(p) \/ DeleteRow(p)
  \/ FindCandidate(p) \/ PromoteCandidate(p) \/ Commit(p) \/ Abort(p)

\* p deletes the default while q creates or deletes another.
Race ==
  \E p, q \in Handlers :
    /\ ~At(p, "idle") /\ h[p].op = "delete" /\ row[h[p].id] = "default"
    /\ ~At(q, "idle") /\ h[q].op \in {"create", "delete"} /\ h[q].id # h[p].id

AgentNext == (\E p \in Handlers : Handle(p)) /\ raced' = (raced \/ Race)

AgentSpec == AgentInit /\ [][AgentNext]_agentVars

-----------------------------------------------------------------------------
(* Properties                                                              *)

AgentTypeOK ==
  /\ row \in [Settings -> {"absent", "plain", "default", "gone"}]
  /\ raced \in BOOLEAN
  /\ h \in [Handlers -> [at : {"idle", "clear", "clearing", "write", "delete", "promote",
                               "promoted", "commit"},
                         op : {"create", "update", "delete"},
                         id : Settings \cup {NoSetting}, default : BOOLEAN,
                         todo : SUBSET Settings,
                         target : Settings \cup {NoSetting},
                         wrote : [Settings -> {"same", "plain", "default", "gone"}]]]

\* load_agent_llm_config, load_settings: without a default the agent answers by
\* rules, as if the organization had no configuration.
LlmAssisted == \E s \in Settings : row[s] = "default"

\* Whatever requests run at once, the agent never has two defaults to choose from.
AtMostOneDefault == Cardinality({s \in Settings : row[s] = "default"}) <= 1

\* An organization with configurations has a default, through every mixture of
\* requests that create, change, promote and delete them, fail or are rolled
\* back; only a default deleted while another configuration is created or deleted
\* can leave none.
DefaultSurvives ==
  (\E s \in Settings : row[s] \in Present) /\ ~raced /\ ~Race => LlmAssisted
=============================================================================
