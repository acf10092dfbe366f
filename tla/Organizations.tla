---------------------------- MODULE Organizations ----------------------------
(***************************************************************************)
(* Members and invitations of one organization: api/src/organizations.rs.  *)
(*                                                                         *)
(* Every request of the API is a process.  Its handler reads the role of   *)
(* the caller in a statement of its own and acts on it later, so each      *)
(* handler is a sequence of steps between which other requests run: one    *)
(* step per statement, or per group of statements that a lock or a         *)
(* transaction makes indivisible.  A request whose checks fail changes     *)
(* nothing: it ends (or, if the first check fails, never starts).          *)
(*                                                                         *)
(* A user stands for the verified e-mail address by which invitations      *)
(* find it.  Only "create" makes owners, and the organization has one.     *)
(***************************************************************************)
EXTENDS Naturals, FiniteSets

CONSTANTS
  Users,         \* users, with the e-mail addresses they can be invited by
  Owner,         \* the user who created the organization
  Invitations,   \* rows organization_invitations can get in a behaviour
  Requests       \* requests the API serves at once

ASSUME OwnerAssumption == Owner \in Users /\ Invitations # {}

VARIABLES
  role,          \* organization_memberships.role, "none" for no row
  invitation,    \* the rows of organization_invitations
  req,           \* where each request is, and what it has read
  promoted       \* history: removals whose target became an administrator
                 \* after they had read its role

vars == <<role, invitation, req, promoted>>
Granted == {"admin", "member"}
Roles == Granted \cup {"owner"}

Unused == [status |-> "unused", email |-> Owner, role |-> "member",
           mailed |-> FALSE, expired |-> FALSE]
Idle == [at |-> "idle", actor |-> Owner, rank |-> "none", target |-> Owner,
         role |-> "member", inv |-> CHOOSE i \in Invitations : TRUE,
         fresh |-> FALSE]

Init ==
  /\ role = [u \in Users |-> IF u = Owner THEN "owner" ELSE "none"]
  /\ invitation = [i \in Invitations |-> Unused]
  /\ req = [p \in Requests |-> Idle]
  /\ promoted = {}

-----------------------------------------------------------------------------
(* What the statements of several handlers share.                          *)

\* normalize_invitation_role
InvitationRole(r) == r \in Granted
\* ensure_admin_role
AdminRole(r) == r \in {"owner", "admin"}

\* accepted_at is null and revoked_at is null and expires_at > now()
Pending(i) == invitation[i].status = "pending" /\ ~invitation[i].expired

EmailUnlocked(e) == TRUE
\* The advisory lock of an e-mail is held from lock_key to the commit.
EmailFree(e) ==
  \A q \in Requests :
    req[q].at \in {"member_check", "pending_check", "insert"} => req[q].target # e
RowUnlocked(i) == TRUE
\* The row lock of an invitation: from "for update" to the commit.
RowFree(i) ==
  \A q \in Requests : req[q].at \in {"join", "commit"} => req[q].inv # i

Goto(p, at) == req' = [req EXCEPT ![p].at = at]
End(p) == req' = [req EXCEPT ![p] = Idle] /\ promoted' = promoted \ {p}
Start(p, r) == req[p].at = "idle" /\ req' = [req EXCEPT ![p] = r]
At(p, at) == req[p].at = at
\* history: removals that this step, of request p, leaves behind.
Outdated(p, t) ==
  {q \in Requests \ {p} : /\ At(q, "delete") /\ req[q].target = t
                          /\ role[t] # "admin" /\ role'[t] = "admin"}

-----------------------------------------------------------------------------
(* create_invitation                                                       *)

CreateInvitation(p, u, e, r) ==
  /\ AdminRole(role[u]) /\ InvitationRole(r)
  /\ Start(p, [Idle EXCEPT !.at = "lock", !.actor = u, !.target = e, !.role = r])
  /\ UNCHANGED <<role, invitation, promoted>>

LockEmail(p) ==
  /\ At(p, "lock") /\ EmailFree(req[p].target)
  /\ Goto(p, "member_check")
  /\ UNCHANGED <<role, invitation, promoted>>

CheckMember(p) ==
  /\ At(p, "member_check")
  /\ IF role[req[p].target] = "none"
       THEN Goto(p, "pending_check") /\ UNCHANGED promoted
       ELSE End(p)
  /\ UNCHANGED <<role, invitation>>

CheckPending(p) ==
  /\ At(p, "pending_check")
  /\ IF \E i \in Invitations : Pending(i) /\ invitation[i].email = req[p].target
       THEN End(p)
       ELSE Goto(p, "insert") /\ UNCHANGED promoted
  /\ UNCHANGED <<role, invitation>>

InsertInvitation(p) ==
  /\ At(p, "insert")
  /\ \E i \in Invitations :
       /\ invitation[i].status = "unused"
       /\ invitation' = [invitation EXCEPT ![i] =
            [@ EXCEPT !.status = "pending", !.email = req[p].target, !.role = req[p].role]]
       /\ req' = [req EXCEPT ![p].at = "mail", ![p].inv = i]
  /\ UNCHANGED <<role, promoted>>

\* The mail can reach the invited user although the request to the mail
\* service fails.
SendInvitationEmail(p) ==
  /\ At(p, "mail")
  /\ \E sent, ok \in BOOLEAN :
       /\ ok => sent
       /\ invitation' = [invitation EXCEPT ![req[p].inv].mailed = sent]
       /\ IF ok THEN End(p) ELSE Goto(p, "unsent") /\ UNCHANGED promoted
  /\ UNCHANGED role

\* update ... set revoked_at = now() where id = $1: the table's check refuses
\* it for an invitation that was accepted meanwhile.
RevokeUnsent(p) ==
  LET i == req[p].inv IN
  /\ At(p, "unsent") /\ RowFree(i)
  /\ invitation' = [invitation EXCEPT ![i].status =
                      IF @ = "accepted" THEN @ ELSE "revoked"]
  /\ End(p) /\ UNCHANGED role

-----------------------------------------------------------------------------
(* revoke_invitation                                                       *)

RevokeInvitation(p, u, i) ==
  /\ AdminRole(role[u])
  /\ Start(p, [Idle EXCEPT !.at = "revoke", !.actor = u, !.inv = i])
  /\ UNCHANGED <<role, invitation, promoted>>

RevokePending(p) ==
  LET i == req[p].inv IN
  /\ At(p, "revoke") /\ RowFree(i)
  /\ invitation' = [invitation EXCEPT ![i].status = IF Pending(i) THEN "revoked" ELSE @]
  /\ End(p) /\ UNCHANGED role

-----------------------------------------------------------------------------
(* accept_invitation: one transaction                                      *)

\* select ... for update; the caller's address is the invited one.
AcceptInvitation(p, u, i) ==
  /\ invitation[i].mailed /\ Pending(i) /\ RowFree(i)
  /\ invitation[i].email = u
  /\ Start(p, [Idle EXCEPT !.at = "join", !.actor = u, !.inv = i])
  /\ UNCHANGED <<role, invitation, promoted>>

\* insert ... on conflict do nothing: waits for an uncommitted row of the user.
InsertMembership(p) ==
  /\ At(p, "join")
  /\ \A q \in Requests \ {p} :
       req[q].at = "commit" /\ req[q].fresh => req[q].actor # req[p].actor
  /\ req' = [req EXCEPT ![p].at = "commit", ![p].fresh = role[req[p].actor] = "none"]
  /\ UNCHANGED <<role, invitation, promoted>>

\* accepted_at is set, fetch_organization reads the membership, commit: if the
\* row that made the insert do nothing was deleted since, the request fails.
CommitAcceptance(p) ==
  LET u == req[p].actor  i == req[p].inv IN
  /\ At(p, "commit")
  /\ IF req[p].fresh \/ role[u] # "none"
       THEN /\ invitation' = [invitation EXCEPT ![i].status = "accepted"]
            /\ role' = [role EXCEPT ![u] = IF req[p].fresh THEN invitation[i].role ELSE @]
       ELSE UNCHANGED <<role, invitation>>
  /\ req' = [req EXCEPT ![p] = Idle]
  /\ promoted' = (promoted \cup Outdated(p, u)) \ {p}

-----------------------------------------------------------------------------
(* update_member and remove_member: three statements, no transaction       *)

UpdateMember(p, u, t, r) ==
  /\ role[u] = "owner" /\ InvitationRole(r)
  /\ Start(p, [Idle EXCEPT !.at = "update_check", !.actor = u, !.target = t, !.role = r])
  /\ UNCHANGED <<role, invitation, promoted>>

CheckUpdated(p) ==
  /\ At(p, "update_check")
  /\ IF role[req[p].target] \in Granted
       THEN Goto(p, "update") /\ UNCHANGED promoted
       ELSE End(p)
  /\ UNCHANGED <<role, invitation>>

WriteRole(p) ==
  LET t == req[p].target IN
  /\ At(p, "update")
  /\ role' = [role EXCEPT ![t] = IF @ = "none" THEN @ ELSE req[p].role]
  /\ req' = [req EXCEPT ![p] = Idle]
  /\ promoted' = promoted \cup Outdated(p, t)
  /\ UNCHANGED invitation

RemoveMember(p, u, t) ==
  /\ u # t /\ role[u] # "none"
  /\ Start(p, [Idle EXCEPT !.at = "remove_check", !.actor = u, !.rank = role[u],
                           !.target = t])
  /\ UNCHANGED <<role, invitation, promoted>>

MayRemoveAnyone(rank, r) == rank \in {"owner", "admin"} /\ r # "owner"
MayRemove(rank, r) ==
  \/ rank = "owner" /\ r \in {"admin", "member"}
  \/ rank = "admin" /\ r = "member"

CheckRemoved(p) ==
  /\ At(p, "remove_check")
  /\ IF MayRemove(req[p].rank, role[req[p].target])
       THEN Goto(p, "delete") /\ UNCHANGED promoted
       ELSE End(p)
  /\ UNCHANGED <<role, invitation>>

DeleteMember(p) ==
  /\ At(p, "delete")
  /\ role' = [role EXCEPT ![req[p].target] = "none"]
  /\ End(p) /\ UNCHANGED invitation

-----------------------------------------------------------------------------
(* Environment: seven days pass; a request dies with its connection.       *)

Expire(i) ==
  /\ Pending(i)
  /\ invitation' = [invitation EXCEPT ![i].expired = TRUE]
  /\ UNCHANGED <<role, req, promoted>>

Abort(p) ==
  /\ ~At(p, "idle") /\ End(p)
  /\ UNCHANGED <<role, invitation>>

Continue(p) ==
  \/ LockEmail(p) \/ CheckMember(p) \/ CheckPending(p) \/ InsertInvitation(p)
  \/ SendInvitationEmail(p) \/ RevokeUnsent(p) \/ RevokePending(p)
  \/ InsertMembership(p) \/ CommitAcceptance(p)
  \/ CheckUpdated(p) \/ WriteRole(p) \/ CheckRemoved(p) \/ DeleteMember(p)

Call(p, u) ==
  \/ \E t \in Users, r \in Roles : CreateInvitation(p, u, t, r) \/ UpdateMember(p, u, t, r)
  \/ \E i \in Invitations : RevokeInvitation(p, u, i) \/ AcceptInvitation(p, u, i)
  \/ \E t \in Users : RemoveMember(p, u, t)

Next ==
  \/ \E p \in Requests : Continue(p) \/ Abort(p) \/ (\E u \in Users : Call(p, u))
  \/ \E i \in Invitations : Expire(i)

Spec == Init /\ [][Next]_vars

-----------------------------------------------------------------------------
(* Properties                                                              *)

Points == {"idle", "lock", "member_check", "pending_check", "insert", "mail", "unsent", "revoke",
           "join", "commit", "update_check", "update", "remove_check", "delete"}

\* Every variable has its type; no invitation carries the role of an owner.
TypeOK ==
  /\ role \in [Users -> Roles \cup {"none"}]
  /\ invitation \in [Invitations ->
       [status : {"unused", "pending", "accepted", "revoked"}, email : Users,
        role : Granted, mailed : BOOLEAN, expired : BOOLEAN]]
  /\ req \in [Requests ->
       [at : Points, actor : Users, rank : Roles \cup {"none"}, target : Users,
        role : Granted, inv : Invitations, fresh : BOOLEAN]]
  /\ promoted \in SUBSET Requests

\* An address has at most one invitation that can be accepted, however many
\* administrators invite it at once and whatever becomes of their mails.
OnePendingInvitation ==
  \A i, j \in Invitations :
    Pending(i) /\ Pending(j) /\ invitation[i].email = invitation[j].email => i = j

\* Whoever becomes a member uses up, in the same step, an invitation that was
\* pending when its request began: a removed member cannot come back with the
\* invitation of the first time, not even with a request already under way.
JoinsConsumeInvitations ==
  [][\A u \in Users : role[u] = "none" /\ role'[u] # "none" =>
       \E i \in Invitations :
         /\ invitation[i].email = u /\ invitation[i].role = role'[u]
         /\ invitation[i].status = "pending" /\ invitation'[i].status = "accepted"]_vars

\* Nobody removes or demotes the owner, and only the owner removes an
\* administrator, unless the administrator was promoted, or came back as one,
\* after the request of another administrator had read its role.
RemovalsRespectRank ==
  [][\A t \in Users :
       /\ role[t] = "owner" => role'[t] = "owner"
       /\ role[t] = "admin" /\ role'[t] = "none" =>
            \E p \in Requests : /\ At(p, "delete") /\ req'[p] = Idle
                                /\ req[p].rank = "owner" \/ p \in promoted]_vars

=============================================================================
