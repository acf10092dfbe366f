------------------------- MODULE OrganizationsProofs -------------------------
(***************************************************************************)
(* Proofs about Organizations, for any users and any numbers of requests   *)
(* and invitations.                                                        *)
(***************************************************************************)
EXTENDS Organizations, TLAPS

Locking == {"member_check", "pending_check", "insert"}
Accepting == {"join", "commit"}

RequestType ==
  [at : Points, actor : Users, rank : Roles \cup {"none"}, target : Users,
   role : Granted, inv : Invitations, fresh : BOOLEAN]
RowType ==
  [status : {"unused", "pending", "accepted", "revoked"}, email : Users,
   role : Granted, mailed : BOOLEAN, expired : BOOLEAN]

\* One request at a time invites an address, and when it inserts the invitation
\* no other is pending.
EmailInv ==
  /\ \A p, q \in Requests :
       p # q /\ req[p].at \in Locking /\ req[q].at \in Locking => req[p].target # req[q].target
  /\ \A p \in Requests : At(p, "insert") =>
       \A i \in Invitations : Pending(i) => invitation[i].email # req[p].target

\* One request at a time accepts an invitation, which stays the caller's own and
\* neither accepted nor revoked.
RowInv ==
  /\ \A p, q \in Requests :
       p # q /\ req[p].at \in Accepting /\ req[q].at \in Accepting => req[p].inv # req[q].inv
  /\ \A p \in Requests : req[p].at \in Accepting =>
       invitation[req[p].inv].status = "pending" /\ invitation[req[p].inv].email = req[p].actor

\* A membership that is inserted and not yet committed is new, and the only one.
FreshInv ==
  /\ \A p \in Requests : At(p, "commit") /\ req[p].fresh => role[req[p].actor] = "none"
  /\ \A p, q \in Requests :
       /\ p # q /\ At(p, "commit") /\ req[p].fresh /\ At(q, "commit") /\ req[q].fresh
       => req[p].actor # req[q].actor

\* There is one owner, and no request is about to change or remove it.
OwnerInv ==
  /\ \A u \in Users : role[u] = "owner" <=> u = Owner
  /\ \A p \in Requests : req[p].at \in {"update", "delete"} => req[p].target # Owner

\* An administrator about to remove somebody removes no administrator, unless it
\* is one that became so in the meantime.
RankInv ==
  \A p \in Requests : At(p, "delete") =>
    \/ req[p].rank = "owner"
    \/ role[req[p].target] # "admin"
    \/ p \in promoted

IInv ==
  /\ TypeOK /\ EmailInv /\ RowInv /\ FreshInv /\ OwnerInv /\ RankInv
  /\ OnePendingInvitation

-----------------------------------------------------------------------------
(* What a step changes                                                     *)

LEMMA IdleType == Idle \in RequestType
<1>1. (CHOOSE i \in Invitations : TRUE) \in Invitations
  BY OwnerAssumption
<1> QED BY <1>1, OwnerAssumption DEF Idle, RequestType, Points, Roles, Granted

LEMMA InitIInv ==
  ASSUME Init
  PROVE  IInv
<1> USE DEF Init
<1>1. TypeOK
  <2>1. Unused \in RowType
    BY OwnerAssumption DEF Unused, RowType, Granted
  <2> QED BY <2>1, IdleType DEF TypeOK, RowType, RequestType, Roles, Granted
<1>2. \A p \in Requests : req[p].at = "idle"
  BY DEF Idle
<1>3. \A i \in Invitations : ~Pending(i)
  BY DEF Pending, Unused
<1>4. EmailInv /\ RowInv /\ FreshInv /\ RankInv
  BY <1>2 DEF EmailInv, RowInv, FreshInv, RankInv, Locking, Accepting, At
<1>5. OwnerInv
  BY <1>2 DEF OwnerInv
<1>6. OnePendingInvitation
  BY <1>3 DEF OnePendingInvitation
<1> QED BY <1>1, <1>4, <1>5, <1>6 DEF IInv

\* Every step is one of these.
LEMMA Steps ==
  ASSUME [Next]_vars
  PROVE  \/ UNCHANGED vars
         \/ \E i \in Invitations : Expire(i)
         \/ \E p \in Requests, u \in Users :
              \/ \E t \in Users, r \in Roles :
                   CreateInvitation(p, u, t, r) \/ UpdateMember(p, u, t, r)
              \/ \E i \in Invitations : RevokeInvitation(p, u, i) \/ AcceptInvitation(p, u, i)
              \/ \E t \in Users : RemoveMember(p, u, t)
         \/ \E p \in Requests :
              \/ LockEmail(p) \/ CheckMember(p) \/ CheckPending(p) \/ InsertInvitation(p)
              \/ SendInvitationEmail(p) \/ RevokeUnsent(p) \/ RevokePending(p)
              \/ InsertMembership(p) \/ CommitAcceptance(p)
              \/ CheckUpdated(p) \/ WriteRole(p) \/ CheckRemoved(p) \/ DeleteMember(p)
              \/ Abort(p)
BY DEF Next, Continue, Call

LEMMA RequestTypeStep ==
  ASSUME TypeOK, [Next]_vars
  PROVE  req' \in [Requests -> RequestType]
<1> USE DEF Start, Goto, End
<1>0. req \in [Requests -> RequestType] /\ role \in [Users -> Roles \cup {"none"}]
  BY DEF TypeOK, RequestType
<1>1. ASSUME NEW p \in Requests, NEW v \in RequestType, req' = [req EXCEPT ![p] = v]
      PROVE  req' \in [Requests -> RequestType]
  BY <1>0, <1>1
<1>2. ASSUME NEW p \in Requests, NEW u \in Users, NEW t \in Users, NEW r \in Roles,
             CreateInvitation(p, u, t, r) \/ UpdateMember(p, u, t, r) \/ RemoveMember(p, u, t)
      PROVE  req' \in [Requests -> RequestType]
  <2>1. r \in Granted =>
          /\ [Idle EXCEPT !.at = "lock", !.actor = u, !.target = t, !.role = r] \in RequestType
          /\ [Idle EXCEPT !.at = "update_check", !.actor = u, !.target = t, !.role = r]
               \in RequestType
    BY IdleType DEF RequestType, Points
  <2>2. [Idle EXCEPT !.at = "remove_check", !.actor = u, !.rank = role[u], !.target = t]
          \in RequestType
    BY <1>0, IdleType DEF RequestType, Points
  <2>3. CASE CreateInvitation(p, u, t, r)
    BY <1>1, <2>1, <2>3 DEF CreateInvitation, InvitationRole
  <2>4. CASE UpdateMember(p, u, t, r)
    BY <1>1, <2>1, <2>4 DEF UpdateMember, InvitationRole
  <2>5. CASE RemoveMember(p, u, t)
    BY <1>1, <2>2, <2>5 DEF RemoveMember
  <2> QED BY <1>2, <2>3, <2>4, <2>5
<1>3. ASSUME NEW p \in Requests, NEW u \in Users, NEW i \in Invitations,
             RevokeInvitation(p, u, i) \/ AcceptInvitation(p, u, i)
      PROVE  req' \in [Requests -> RequestType]
  <2>1. /\ [Idle EXCEPT !.at = "revoke", !.actor = u, !.inv = i] \in RequestType
        /\ [Idle EXCEPT !.at = "join", !.actor = u, !.inv = i] \in RequestType
    BY IdleType DEF RequestType, Points
  <2>2. CASE RevokeInvitation(p, u, i)
    BY <1>1, <2>1, <2>2 DEF RevokeInvitation
  <2>3. CASE AcceptInvitation(p, u, i)
    BY <1>1, <2>1, <2>3 DEF AcceptInvitation
  <2> QED BY <1>3, <2>2, <2>3
<1>4. ASSUME NEW p \in Requests, InsertInvitation(p)
      PROVE  req' \in [Requests -> RequestType]
  <2>1. PICK i \in Invitations : req' = [req EXCEPT ![p].at = "mail", ![p].inv = i]
    BY <1>4 DEF InsertInvitation
  <2>2. [req[p] EXCEPT !.at = "mail", !.inv = i] \in RequestType
    BY <1>0 DEF RequestType, Points
  <2>3. req' = [req EXCEPT ![p] = [req[p] EXCEPT !.at = "mail", !.inv = i]]
    BY <1>0, <2>1
  <2> QED BY <1>1, <2>2, <2>3
<1>5. ASSUME NEW p \in Requests, InsertMembership(p)
      PROVE  req' \in [Requests -> RequestType]
  <2> DEFINE fresh == role[req[p].actor] = "none"
  <2>1. req' = [req EXCEPT ![p].at = "commit", ![p].fresh = fresh]
    BY <1>5 DEF InsertMembership
  <2>2. fresh \in BOOLEAN
    OBVIOUS
  <2> HIDE DEF fresh
  <2>3. [req[p] EXCEPT !.at = "commit", !.fresh = fresh] \in RequestType
    BY <1>0, <2>2 DEF RequestType, Points
  <2>4. req' = [req EXCEPT ![p] = [req[p] EXCEPT !.at = "commit", !.fresh = fresh]]
    BY <1>0, <2>1
  <2> QED BY <1>1, <2>3, <2>4
<1>6. ASSUME NEW p \in Requests, NEW at \in Points, req' = [req EXCEPT ![p].at = at]
      PROVE  req' \in [Requests -> RequestType]
  BY <1>0, <1>6 DEF RequestType
<1>7. ASSUME NEW p \in Requests,
             \/ LockEmail(p) \/ CheckMember(p) \/ CheckPending(p) \/ SendInvitationEmail(p)
             \/ CheckUpdated(p) \/ CheckRemoved(p)
             \/ RevokeUnsent(p) \/ RevokePending(p) \/ CommitAcceptance(p) \/ WriteRole(p)
             \/ DeleteMember(p) \/ Abort(p)
      PROVE  req' \in [Requests -> RequestType]
  <2>1. \/ req' = [req EXCEPT ![p] = Idle]
        \/ \E at \in Points : req' = [req EXCEPT ![p].at = at]
    BY <1>7 DEF LockEmail, CheckMember, CheckPending, SendInvitationEmail, CheckUpdated,
                CheckRemoved, RevokeUnsent, RevokePending, CommitAcceptance, WriteRole,
                DeleteMember, Abort, Points
  <2>2. CASE req' = [req EXCEPT ![p] = Idle]
    BY <1>1, <2>2, IdleType
  <2> QED BY <1>6, <2>1, <2>2
<1>8. CASE UNCHANGED req
  BY <1>0, <1>8
<1>9. (UNCHANGED vars \/ \E i \in Invitations : Expire(i)) => UNCHANGED req
  BY DEF vars, Expire
<1> QED
  <2> HIDE DEF Start, Goto, End
  <2>1. CASE UNCHANGED vars \/ (\E i \in Invitations : Expire(i))
    BY <1>8, <1>9, <2>1
  <2>2. CASE \E p \in Requests, u \in Users :
                \/ \E t \in Users, r \in Roles :
                     CreateInvitation(p, u, t, r) \/ UpdateMember(p, u, t, r)
                \/ \E i \in Invitations : RevokeInvitation(p, u, i) \/ AcceptInvitation(p, u, i)
                \/ \E t \in Users : RemoveMember(p, u, t)
    <3>1. "admin" \in Roles
      BY DEF Roles, Granted
    <3> QED BY <1>2, <1>3, <2>2, <3>1
  <2> QED BY <1>4, <1>5, <1>7, <2>1, <2>2, Steps

\* Where a request holds no lock, and is about to change no membership.
Resting == {"idle", "lock", "mail", "unsent", "revoke", "update_check", "remove_check"}

\* A request is left alone, comes to rest, or takes one of these steps.
LEMMA Moves ==
  ASSUME TypeOK, [Next]_vars, NEW p \in Requests
  PROVE  \/ req'[p] = req[p]
         \/ req'[p].at \in Resting
         \/ LockEmail(p) /\ req'[p] = [req[p] EXCEPT !.at = "member_check"]
         \/ CheckMember(p) /\ req'[p] = [req[p] EXCEPT !.at = "pending_check"]
         \/ /\ CheckPending(p) /\ req'[p] = [req[p] EXCEPT !.at = "insert"]
            /\ \A i \in Invitations : Pending(i) => invitation[i].email # req[p].target
         \/ \E u \in Users, i \in Invitations :
              /\ AcceptInvitation(p, u, i)
              /\ req'[p] = [Idle EXCEPT !.at = "join", !.actor = u, !.inv = i]
         \/ /\ InsertMembership(p)
            /\ req'[p].at = "commit" /\ req'[p].inv = req[p].inv /\ req'[p].actor = req[p].actor
            /\ req'[p].fresh => role[req[p].actor] = "none"
         \/ /\ CheckUpdated(p) /\ role[req[p].target] \in Granted
            /\ req'[p] = [req[p] EXCEPT !.at = "update"]
         \/ /\ CheckRemoved(p) /\ MayRemove(req[p].rank, role[req[p].target])
            /\ req'[p] = [req[p] EXCEPT !.at = "delete"]
<1> DEFINE Goal ==
      \/ req'[p] = req[p]
      \/ req'[p].at \in Resting
      \/ LockEmail(p) /\ req'[p] = [req[p] EXCEPT !.at = "member_check"]
      \/ CheckMember(p) /\ req'[p] = [req[p] EXCEPT !.at = "pending_check"]
      \/ /\ CheckPending(p) /\ req'[p] = [req[p] EXCEPT !.at = "insert"]
         /\ \A i \in Invitations : Pending(i) => invitation[i].email # req[p].target
      \/ \E u \in Users, i \in Invitations :
           /\ AcceptInvitation(p, u, i)
           /\ req'[p] = [Idle EXCEPT !.at = "join", !.actor = u, !.inv = i]
      \/ /\ InsertMembership(p)
         /\ req'[p].at = "commit" /\ req'[p].inv = req[p].inv /\ req'[p].actor = req[p].actor
         /\ req'[p].fresh => role[req[p].actor] = "none"
      \/ /\ CheckUpdated(p) /\ role[req[p].target] \in Granted
         /\ req'[p] = [req[p] EXCEPT !.at = "update"]
      \/ /\ CheckRemoved(p) /\ MayRemove(req[p].rank, role[req[p].target])
         /\ req'[p] = [req[p] EXCEPT !.at = "delete"]
<1> USE DEF Start, Goto, End
<1>0. req \in [Requests -> RequestType] /\ req[p] \in RequestType
  BY DEF TypeOK, RequestType
<1>1. ASSUME NEW q \in Requests, NEW v, req' = [req EXCEPT ![q] = v], v.at \in Resting
      PROVE  req'[p] = req[p] \/ req'[p].at \in Resting
  BY <1>0, <1>1
<1>2. ASSUME NEW q \in Requests, NEW at, req' = [req EXCEPT ![q].at = at]
      PROVE  /\ q = p => req'[p] = [req[p] EXCEPT !.at = at] /\ req'[p].at = at
             /\ q # p => req'[p] = req[p]
  BY <1>0, <1>2 DEF RequestType
<1>3. ASSUME NEW q \in Requests, NEW u \in Users, NEW t \in Users, NEW r \in Roles,
             CreateInvitation(q, u, t, r) \/ UpdateMember(q, u, t, r) \/ RemoveMember(q, u, t)
      PROVE  req'[p] = req[p] \/ req'[p].at \in Resting
  <2>1. req'[p] = req[p] \/ req'[p].at \in {"lock", "update_check", "remove_check"}
    BY <1>0, <1>3 DEF CreateInvitation, UpdateMember, RemoveMember, Idle
  <2> QED BY <2>1 DEF Resting
<1>4. ASSUME NEW q \in Requests, NEW u \in Users, NEW i \in Invitations, RevokeInvitation(q, u, i)
      PROVE  req'[p] = req[p] \/ req'[p].at \in Resting
  <2>1. req'[p] = req[p] \/ req'[p].at = "revoke"
    BY <1>0, <1>4 DEF RevokeInvitation, Idle
  <2> QED BY <2>1 DEF Resting
<1>5. ASSUME NEW q \in Requests, NEW u \in Users, NEW i \in Invitations, AcceptInvitation(q, u, i)
      PROVE  \/ req'[p] = req[p]
             \/ /\ AcceptInvitation(p, u, i)
                /\ req'[p] = [Idle EXCEPT !.at = "join", !.actor = u, !.inv = i]
  <2>1. req' = [req EXCEPT ![q] = [Idle EXCEPT !.at = "join", !.actor = u, !.inv = i]]
    BY <1>5 DEF AcceptInvitation
  <2>2. CASE q = p
    BY <1>0, <1>5, <2>1, <2>2
  <2>3. CASE q # p
    BY <1>0, <2>1, <2>3
  <2> QED BY <2>2, <2>3
<1>6. ASSUME NEW q \in Requests, InsertInvitation(q)
      PROVE  req'[p] = req[p] \/ req'[p].at \in Resting
  <2>1. req'[p] = req[p] \/ req'[p].at = "mail"
    BY <1>0, <1>6 DEF InsertInvitation, RequestType
  <2> QED BY <2>1 DEF Resting
<1>7. ASSUME NEW q \in Requests, InsertMembership(q)
      PROVE  \/ req'[p] = req[p]
             \/ /\ InsertMembership(p)
                /\ req'[p].at = "commit" /\ req'[p].inv = req[p].inv
                /\ req'[p].actor = req[p].actor
                /\ req'[p].fresh => role[req[p].actor] = "none"
  <2> DEFINE fresh == role[req[q].actor] = "none"
  <2>1. req' = [req EXCEPT ![q].at = "commit", ![q].fresh = fresh]
    BY <1>7 DEF InsertMembership
  <2>2. CASE q = p
    <3>1. /\ req'[p].at = "commit" /\ req'[p].inv = req[p].inv
          /\ req'[p].actor = req[p].actor /\ req'[p].fresh = fresh
      <4> HIDE DEF fresh
      <4> QED BY <1>0, <2>1, <2>2 DEF RequestType
    <3> QED BY <1>7, <2>2, <3>1
  <2>3. CASE q # p
    BY <1>0, <2>1, <2>3
  <2> QED BY <2>2, <2>3
<1>8. ASSUME NEW q \in Requests,
             \/ LockEmail(q) \/ CheckMember(q) \/ CheckPending(q) \/ SendInvitationEmail(q)
             \/ CheckUpdated(q) \/ CheckRemoved(q)
      PROVE  Goal
  <2>1. \/ req' = [req EXCEPT ![q] = Idle]
        \/ LockEmail(q) /\ req' = [req EXCEPT ![q].at = "member_check"]
        \/ CheckMember(q) /\ req' = [req EXCEPT ![q].at = "pending_check"]
        \/ /\ CheckPending(q) /\ req' = [req EXCEPT ![q].at = "insert"]
           /\ \A i \in Invitations : Pending(i) => invitation[i].email # req[q].target
        \/ SendInvitationEmail(q) /\ req' = [req EXCEPT ![q].at = "unsent"]
        \/ /\ CheckUpdated(q) /\ role[req[q].target] \in Granted
           /\ req' = [req EXCEPT ![q].at = "update"]
        \/ /\ CheckRemoved(q) /\ MayRemove(req[q].rank, role[req[q].target])
           /\ req' = [req EXCEPT ![q].at = "delete"]
    <3>1. CASE LockEmail(q) \/ CheckMember(q) \/ SendInvitationEmail(q)
      BY <3>1 DEF LockEmail, CheckMember, SendInvitationEmail
    <3>2. CASE CheckPending(q)
      BY <3>2 DEF CheckPending
    <3>3. CASE CheckUpdated(q) \/ CheckRemoved(q)
      BY <3>3 DEF CheckUpdated, CheckRemoved
    <3> HIDE DEF Start, Goto, End
    <3> QED BY <1>8, <3>1, <3>2, <3>3
  <2>2. CASE req' = [req EXCEPT ![q] = Idle]
    BY <1>1, <2>2 DEF Idle, Resting
  <2>3. CASE q # p
    BY <1>2, <2>1, <2>2, <2>3
  <2>4. CASE q = p
    <3>1. "unsent" \in Resting
      BY DEF Resting
    <3> HIDE DEF Start, Goto, End
    <3> QED BY <1>2, <2>1, <2>2, <2>4, <3>1
  <2> QED BY <2>3, <2>4
<1>9. ASSUME NEW q \in Requests,
             \/ RevokeUnsent(q) \/ RevokePending(q) \/ CommitAcceptance(q) \/ WriteRole(q)
             \/ DeleteMember(q) \/ Abort(q)
      PROVE  req'[p] = req[p] \/ req'[p].at \in Resting
  <2>1. req' = [req EXCEPT ![q] = Idle]
    BY <1>9 DEF RevokeUnsent, RevokePending, CommitAcceptance, WriteRole, DeleteMember, Abort
  <2> QED BY <1>1, <2>1 DEF Idle, Resting
<1>10. (UNCHANGED vars \/ \E i \in Invitations : Expire(i)) => req'[p] = req[p]
  BY DEF vars, Expire
<1> HIDE DEF Start, Goto, End
<1>11. (\/ req'[p] = req[p] \/ req'[p].at \in Resting
        \/ (\E u \in Users, i \in Invitations :
              /\ AcceptInvitation(p, u, i)
              /\ req'[p] = [Idle EXCEPT !.at = "join", !.actor = u, !.inv = i])
        \/ (/\ InsertMembership(p)
            /\ req'[p].at = "commit" /\ req'[p].inv = req[p].inv
            /\ req'[p].actor = req[p].actor
            /\ req'[p].fresh => role[req[p].actor] = "none")) => Goal
  OBVIOUS
<1>12. Goal
  <2> HIDE DEF Goal
  <2>1. CASE \E q \in Requests, u \in Users :
                \/ \E t \in Users, r \in Roles :
                     CreateInvitation(q, u, t, r) \/ UpdateMember(q, u, t, r)
                \/ \E i \in Invitations : RevokeInvitation(q, u, i) \/ AcceptInvitation(q, u, i)
                \/ \E t \in Users : RemoveMember(q, u, t)
    <3>1. "admin" \in Roles
      BY DEF Roles, Granted
    <3> QED BY <1>3, <1>4, <1>5, <1>11, <2>1, <3>1
  <2> QED BY <1>6, <1>7, <1>8, <1>9, <1>10, <1>11, <2>1, Steps
<1> QED BY <1>12

\* A role changes in three ways.
LEMMA RoleChange ==
  ASSUME TypeOK, [Next]_vars, NEW u \in Users
  PROVE  \/ UNCHANGED role[u]
         \/ \E p \in Requests : /\ CommitAcceptance(p) /\ req[p].fresh /\ u = req[p].actor
                                /\ role'[u] = invitation[req[p].inv].role
                                /\ invitation'[req[p].inv].status = "accepted"
         \/ \E p \in Requests : /\ WriteRole(p) /\ u = req[p].target
                                /\ role[u] # "none" /\ role'[u] = req[p].role
         \/ \E p \in Requests : DeleteMember(p) /\ u = req[p].target /\ role'[u] = "none"
<1>0. /\ role \in [Users -> Roles \cup {"none"}]
      /\ invitation \in [Invitations -> RowType]
      /\ \A p \in Requests : req[p].inv \in Invitations
  BY DEF TypeOK, RowType
<1>1. ASSUME NEW p \in Requests, CommitAcceptance(p)
      PROVE  \/ UNCHANGED role[u]
             \/ /\ req[p].fresh /\ u = req[p].actor
                /\ role'[u] = invitation[req[p].inv].role
                /\ invitation'[req[p].inv].status = "accepted"
  <2>1. \/ UNCHANGED role
        \/ /\ role' = [role EXCEPT ![req[p].actor] = IF req[p].fresh THEN invitation[req[p].inv].role
                                                                      ELSE @]
           /\ invitation' = [invitation EXCEPT ![req[p].inv].status = "accepted"]
    BY <1>1 DEF CommitAcceptance
  <2> QED BY <1>0, <2>1 DEF RowType
<1>2. ASSUME NEW p \in Requests, WriteRole(p)
      PROVE  \/ UNCHANGED role[u]
             \/ u = req[p].target /\ role[u] # "none" /\ role'[u] = req[p].role
  BY <1>0, <1>2 DEF WriteRole
<1>3. ASSUME NEW p \in Requests, DeleteMember(p)
      PROVE  UNCHANGED role[u] \/ (u = req[p].target /\ role'[u] = "none")
  BY <1>0, <1>3 DEF DeleteMember
<1>4. \/ UNCHANGED role
      \/ \E p \in Requests : CommitAcceptance(p) \/ WriteRole(p) \/ DeleteMember(p)
  BY Steps DEF vars, Expire, CreateInvitation, UpdateMember, RevokeInvitation, AcceptInvitation,
               RemoveMember, LockEmail, CheckMember, CheckPending, InsertInvitation,
               SendInvitationEmail, RevokeUnsent, RevokePending, InsertMembership, CheckUpdated,
               CheckRemoved, Abort
<1> QED BY <1>1, <1>2, <1>3, <1>4

\* What happens to an invitation: it is inserted, mailed or expires, revoked,
\* accepted, or nothing.
LEMMA InvitationChange ==
  ASSUME TypeOK, [Next]_vars, NEW i \in Invitations
  PROVE  /\ invitation' \in [Invitations -> RowType]
         /\ \/ UNCHANGED invitation[i]
            \/ \E p \in Requests :
                 /\ InsertInvitation(p) /\ invitation[i].status = "unused"
                 /\ \A j \in Invitations \ {i} : UNCHANGED invitation[j]
                 /\ invitation'[i].email = req[p].target
            \/ /\ invitation'[i].status = invitation[i].status
               /\ invitation'[i].email = invitation[i].email
               /\ Pending(i)' => Pending(i)
            \/ RowFree(i) /\ invitation'[i].status # "pending"
            \/ \E p \in Requests : /\ CommitAcceptance(p) /\ i = req[p].inv
                                   /\ invitation'[i].status = "accepted"
<1>0. /\ invitation \in [Invitations -> RowType] /\ invitation[i] \in RowType
      /\ \A p \in Requests : /\ req[p].inv \in Invitations
                             /\ req[p].target \in Users /\ req[p].role \in Granted
  BY DEF TypeOK, RowType
<1>1. ASSUME NEW p \in Requests, InsertInvitation(p)
      PROVE  /\ invitation' \in [Invitations -> RowType]
             /\ \/ UNCHANGED invitation[i]
                \/ /\ InsertInvitation(p) /\ invitation[i].status = "unused"
                   /\ \A j \in Invitations \ {i} : UNCHANGED invitation[j]
                   /\ invitation'[i].email = req[p].target
  <2>1. PICK j \in Invitations :
          /\ invitation[j].status = "unused"
          /\ invitation' = [invitation EXCEPT ![j] =
               [@ EXCEPT !.status = "pending", !.email = req[p].target, !.role = req[p].role]]
    BY <1>1 DEF InsertInvitation
  <2>2. [invitation[j] EXCEPT !.status = "pending", !.email = req[p].target,
                              !.role = req[p].role] \in RowType
    BY <1>0 DEF RowType
  <2>3. invitation' = [invitation EXCEPT ![j] =
          [invitation[j] EXCEPT !.status = "pending", !.email = req[p].target,
                                !.role = req[p].role]]
    BY <1>0, <2>1
  <2>4. invitation' \in [Invitations -> RowType]
    BY <1>0, <2>2, <2>3
  <2>5. CASE i # j
    BY <1>0, <2>3, <2>4, <2>5
  <2>6. CASE i = j
    BY <1>0, <1>1, <2>1, <2>3, <2>4, <2>6 DEF RowType
  <2> QED BY <2>5, <2>6
<1>2. ASSUME NEW p \in Requests, SendInvitationEmail(p)
      PROVE  /\ invitation' \in [Invitations -> RowType]
             /\ invitation'[i].status = invitation[i].status
             /\ invitation'[i].email = invitation[i].email
             /\ invitation'[i].expired = invitation[i].expired
  <2>1. PICK sent \in BOOLEAN : invitation' = [invitation EXCEPT ![req[p].inv].mailed = sent]
    BY <1>2 DEF SendInvitationEmail
  <2> QED BY <1>0, <2>1 DEF RowType
<1>3. ASSUME NEW p \in Requests, RevokeUnsent(p) \/ RevokePending(p)
      PROVE  /\ invitation' \in [Invitations -> RowType]
             /\ \/ UNCHANGED invitation[i]
                \/ RowFree(i) /\ invitation'[i].status # "pending"
  <2>1. PICK status \in {"unused", "pending", "accepted", "revoked"} :
          /\ invitation' = [invitation EXCEPT ![req[p].inv].status = status]
          /\ RowFree(req[p].inv)
          /\ status # "pending" \/ status = invitation[req[p].inv].status
    <3>1. invitation[req[p].inv].status \in {"unused", "pending", "accepted", "revoked"}
      BY <1>0 DEF RowType
    <3>2. CASE RevokeUnsent(p)
      BY <3>1, <3>2 DEF RevokeUnsent
    <3>3. CASE RevokePending(p)
      BY <3>1, <3>3 DEF RevokePending
    <3> QED BY <1>3, <3>2, <3>3
  <2>2. invitation' \in [Invitations -> RowType]
    BY <1>0, <2>1 DEF RowType
  <2>3. CASE i # req[p].inv
    BY <1>0, <2>1, <2>2, <2>3
  <2>4. CASE i = req[p].inv
    <3>1. invitation'[i] = [invitation[i] EXCEPT !.status = status]
      BY <1>0, <2>1, <2>4
    <3>2. invitation'[i].status = status
      BY <1>0, <3>1 DEF RowType
    <3>3. status = invitation[i].status => invitation'[i] = invitation[i]
      BY <1>0, <3>1 DEF RowType
    <3> QED BY <2>1, <2>2, <2>4, <3>2, <3>3
  <2> QED BY <2>3, <2>4
<1>4. ASSUME NEW p \in Requests, CommitAcceptance(p)
      PROVE  /\ invitation' \in [Invitations -> RowType]
             /\ \/ UNCHANGED invitation[i]
                \/ i = req[p].inv /\ invitation'[i].status = "accepted"
  <2>1. \/ UNCHANGED invitation
        \/ invitation' = [invitation EXCEPT ![req[p].inv].status = "accepted"]
    BY <1>4 DEF CommitAcceptance
  <2> QED BY <1>0, <2>1 DEF RowType
<1>5. ASSUME NEW j \in Invitations, Expire(j)
      PROVE  /\ invitation' \in [Invitations -> RowType]
             /\ invitation'[i].status = invitation[i].status
             /\ invitation'[i].email = invitation[i].email
             /\ invitation'[i].expired = invitation[i].expired \/ invitation'[i].expired
  BY <1>0, <1>5 DEF Expire, RowType
<1>6. CASE UNCHANGED invitation
  BY <1>0, <1>6
<1>7. \/ UNCHANGED invitation
      \/ \E p \in Requests :
           \/ InsertInvitation(p) \/ SendInvitationEmail(p) \/ RevokeUnsent(p)
           \/ RevokePending(p) \/ CommitAcceptance(p)
      \/ \E j \in Invitations : Expire(j)
  BY Steps DEF vars, CreateInvitation, UpdateMember, RevokeInvitation, AcceptInvitation,
               RemoveMember, LockEmail, CheckMember, CheckPending, InsertMembership, CheckUpdated,
               WriteRole, CheckRemoved, DeleteMember, Abort
<1>8. CASE (\E p \in Requests : SendInvitationEmail(p)) \/ (\E j \in Invitations : Expire(j))
  <2>1. /\ invitation' \in [Invitations -> RowType]
        /\ invitation'[i].status = invitation[i].status
        /\ invitation'[i].email = invitation[i].email
        /\ invitation'[i].expired = invitation[i].expired \/ invitation'[i].expired
    BY <1>2, <1>5, <1>8
  <2> QED BY <2>1 DEF Pending
<1> QED BY <1>1, <1>3, <1>4, <1>6, <1>7, <1>8

LEMMA TypeStep ==
  ASSUME TypeOK, [Next]_vars
  PROVE  TypeOK'
<1>1. role' \in [Users -> Roles \cup {"none"}]
  <2>0. /\ role \in [Users -> Roles \cup {"none"}]
        /\ invitation \in [Invitations -> RowType]
        /\ \A p \in Requests : req[p].role \in Granted /\ req[p].inv \in Invitations
    BY DEF TypeOK, RowType
  <2>1. \A u \in Users : role'[u] \in Roles \cup {"none"}
    BY <2>0, RoleChange DEF RowType, Roles
  <2>2. \/ UNCHANGED role
        \/ \E p \in Requests : \E v : role' = [role EXCEPT ![req[p].actor] = v]
        \/ \E p \in Requests : \E v : role' = [role EXCEPT ![req[p].target] = v]
    BY Steps DEF CommitAcceptance, WriteRole, DeleteMember, vars, Expire, CreateInvitation,
                 UpdateMember, RevokeInvitation, AcceptInvitation, RemoveMember, LockEmail,
                 CheckMember, CheckPending, InsertInvitation, SendInvitationEmail, RevokeUnsent,
                 RevokePending, InsertMembership, CheckUpdated, CheckRemoved, Abort
  <2>3. role' = [u \in Users |-> role'[u]]
    BY <2>0, <2>2
  <2> QED BY <2>1, <2>3
<1>2. invitation' \in [Invitations -> RowType]
  BY InvitationChange, OwnerAssumption
<1>3. promoted' \subseteq Requests
  BY Steps DEF TypeOK, Outdated, End, CommitAcceptance, WriteRole, DeleteMember, vars, Expire,
               CreateInvitation, UpdateMember, RevokeInvitation, AcceptInvitation, RemoveMember,
               LockEmail, CheckMember, CheckPending, InsertInvitation, SendInvitationEmail,
               RevokeUnsent, RevokePending, InsertMembership, CheckUpdated, CheckRemoved, Abort
<1> QED BY <1>1, <1>2, <1>3, RequestTypeStep DEF TypeOK, RowType, RequestType

-----------------------------------------------------------------------------
(* The invariants, one by one                                              *)

\* What a request that holds a lock, or is about to write, was before the step.
LEMMA Before ==
  ASSUME TypeOK, [Next]_vars, NEW p \in Requests, req'[p].at \notin Resting
  PROVE  /\ req[p].at \in Points /\ req'[p].at \in Points
         /\ req'[p].at \in Locking =>
              /\ req'[p].target = req[p].target
              /\ req[p].at \in Locking \/ LockEmail(p)
         /\ req'[p].at = "insert" =>
              \/ req[p] = req'[p]
              \/ /\ CheckPending(p)
                 /\ \A i \in Invitations : Pending(i) => invitation[i].email # req[p].target
         /\ req'[p].at \in Accepting =>
              \/ /\ req'[p].inv = req[p].inv /\ req'[p].actor = req[p].actor
                 /\ req[p].at \in Accepting
              \/ \E u \in Users, i \in Invitations :
                   AcceptInvitation(p, u, i) /\ req'[p].inv = i /\ req'[p].actor = u
         /\ req'[p].at = "commit" =>
              \/ req'[p] = req[p]
              \/ /\ InsertMembership(p) /\ req'[p].actor = req[p].actor
                 /\ req'[p].fresh => role[req[p].actor] = "none"
         /\ req'[p].at \in {"update", "delete"} =>
              /\ req'[p].target = req[p].target
              /\ req[p].at \in {"update", "delete"} \/ role[req[p].target] \in Granted
         /\ req'[p].at = "delete" =>
              \/ req'[p] = req[p]
              \/ /\ req'[p].rank = req[p].rank /\ UNCHANGED role
                 /\ MayRemove(req[p].rank, role[req[p].target])
<1>0. req[p] \in RequestType /\ req'[p] \in RequestType
  BY RequestTypeStep DEF TypeOK, RequestType
<1> USE DEF Resting, Locking, Accepting, At
<1>1. CASE req'[p] = req[p]
  BY <1>0, <1>1 DEF RequestType
<1>2. CASE LockEmail(p) /\ req'[p] = [req[p] EXCEPT !.at = "member_check"]
  BY <1>0, <1>2 DEF RequestType
<1>3. CASE CheckMember(p) /\ req'[p] = [req[p] EXCEPT !.at = "pending_check"]
  BY <1>0, <1>3 DEF RequestType, CheckMember
<1>4. CASE /\ CheckPending(p) /\ req'[p] = [req[p] EXCEPT !.at = "insert"]
           /\ \A i \in Invitations : Pending(i) => invitation[i].email # req[p].target
  BY <1>0, <1>4 DEF RequestType, CheckPending
<1>5. ASSUME NEW u \in Users, NEW i \in Invitations, AcceptInvitation(p, u, i),
             req'[p] = [Idle EXCEPT !.at = "join", !.actor = u, !.inv = i]
      PROVE  req'[p].at = "join" /\ req'[p].actor = u /\ req'[p].inv = i
  BY <1>5 DEF Idle
<1>6. CASE /\ InsertMembership(p)
           /\ req'[p].at = "commit" /\ req'[p].inv = req[p].inv
           /\ req'[p].actor = req[p].actor
           /\ req'[p].fresh => role[req[p].actor] = "none"
  <2>1. req[p].at = "join"
    BY <1>6 DEF InsertMembership
  <2> QED BY <1>0, <1>6, <2>1 DEF RequestType
<1>7. CASE /\ CheckUpdated(p) /\ role[req[p].target] \in Granted
           /\ req'[p] = [req[p] EXCEPT !.at = "update"]
  BY <1>0, <1>7 DEF RequestType
<1>8. CASE /\ CheckRemoved(p) /\ MayRemove(req[p].rank, role[req[p].target])
           /\ req'[p] = [req[p] EXCEPT !.at = "delete"]
  BY <1>0, <1>8 DEF RequestType, CheckRemoved, MayRemove, Granted
<1>9. CASE \E u \in Users, i \in Invitations :
             /\ AcceptInvitation(p, u, i)
             /\ req'[p] = [Idle EXCEPT !.at = "join", !.actor = u, !.inv = i]
  <2>1. PICK u \in Users, i \in Invitations :
          /\ AcceptInvitation(p, u, i)
          /\ req'[p].at = "join" /\ req'[p].actor = u /\ req'[p].inv = i
    BY <1>5, <1>9
  <2> QED BY <1>0, <2>1 DEF RequestType
<1> QED
  <2> HIDE DEF Resting, Locking, Accepting, At
  <2> QED BY <1>1, <1>2, <1>3, <1>4, <1>6, <1>7, <1>8, <1>9, Moves

LEMMA EmailStep ==
  ASSUME TypeOK, EmailInv, [Next]_vars
  PROVE  EmailInv'
<1>1. ASSUME NEW p \in Requests, NEW q \in Requests, p # q,
             req'[p].at \in Locking, req'[q].at \in Locking
      PROVE  req'[p].target # req'[q].target
  <2>1. \A x \in {p, q} : /\ req'[x].target = req[x].target
                          /\ req[x].at \in Locking \/ LockEmail(x)
    BY <1>1, Before DEF Locking, Resting
  <2>2. ASSUME NEW x \in Requests, LockEmail(x), NEW y \in Requests, y # x
        PROVE  /\ req[y].at \in Locking => req[y].target # req[x].target
               /\ UNCHANGED req[y]
    BY <2>2 DEF LockEmail, EmailFree, Locking, Goto, TypeOK
  <2> QED BY <1>1, <2>1, <2>2 DEF EmailInv
<1>2. ASSUME NEW p \in Requests, req'[p].at = "insert", NEW i \in Invitations, Pending(i)'
      PROVE  invitation'[i].email # req'[p].target
  <2>1. req'[p].target = req[p].target
    BY <1>2, Before DEF Locking, Resting
  <2>2. Pending(i) => invitation[i].email # req[p].target
    BY <1>2, Before DEF Resting, EmailInv, At
  <2>3. CASE Pending(i) /\ invitation'[i].email = invitation[i].email
    BY <2>1, <2>2, <2>3
  <2>4. ASSUME NEW q \in Requests, InsertInvitation(q), invitation'[i].email = req[q].target
        PROVE  invitation'[i].email # req'[p].target
    <3>1. req'[q].at # "insert" /\ req[q].at = "insert"
      BY <2>4 DEF InsertInvitation, At, TypeOK
    <3>2. q # p
      BY <1>2, <3>1
    <3>3. req[p].at = "insert"
      <4>1. ~CheckPending(p)
        <5>1. invitation \in [Invitations -> RowType]
          BY DEF TypeOK, RowType
        <5>2. invitation' # invitation
          BY <2>4, <5>1 DEF InsertInvitation, RowType
        <5> QED BY <5>2 DEF CheckPending
      <4> QED BY <1>2, <4>1, Before DEF Resting
    <3> QED BY <2>1, <2>4, <3>1, <3>2, <3>3 DEF EmailInv, Locking
  <2>5. UNCHANGED invitation[i] => Pending(i)
    BY <1>2 DEF Pending
  <2>6. ASSUME NEW q \in Requests, CommitAcceptance(q), invitation'[i].status = "accepted"
        PROVE  FALSE
    BY <1>2, <2>6 DEF Pending
  <2>7. invitation'[i].status = "pending"
    BY <1>2 DEF Pending
  <2> QED BY <1>2, <2>3, <2>4, <2>5, <2>6, <2>7, InvitationChange
<1> QED BY <1>1, <1>2 DEF EmailInv, At

LEMMA RowStep ==
  ASSUME TypeOK, RowInv, [Next]_vars
  PROVE  RowInv'
<1> USE DEF Resting, Accepting
\* Only one request begins an acceptance, and it finds the row unlocked.
<1>1. ASSUME NEW p \in Requests, NEW u \in Users, NEW i \in Invitations, AcceptInvitation(p, u, i)
      PROVE  /\ \A q \in Requests \ {p} : req'[q] = req[q]
             /\ \A q \in Requests : req[q].at \in Accepting => req[q].inv # i
             /\ UNCHANGED invitation
             /\ invitation[i].status = "pending" /\ invitation[i].email = u
  BY <1>1 DEF AcceptInvitation, RowFree, Start, Pending, TypeOK
<1>2. ASSUME NEW p \in Requests, NEW q \in Requests, p # q,
             req'[p].at \in Accepting, req'[q].at \in Accepting
      PROVE  req'[p].inv # req'[q].inv
  <2>1. CASE /\ req'[p].inv = req[p].inv /\ req[p].at \in Accepting
             /\ req'[q].inv = req[q].inv /\ req[q].at \in Accepting
    BY <1>2, <2>1 DEF RowInv
  <2>2. ASSUME NEW x \in {p, q}, NEW y \in {p, q}, x # y,
               NEW u \in Users, NEW i \in Invitations, AcceptInvitation(x, u, i), req'[x].inv = i
        PROVE  req'[y].inv # i
    BY <1>1, <1>2, <2>2
  <2> QED BY <1>2, <2>1, <2>2, Before
<1>3. ASSUME NEW p \in Requests, req'[p].at \in Accepting
      PROVE  /\ invitation'[req'[p].inv].status = "pending"
             /\ invitation'[req'[p].inv].email = req'[p].actor
  <2>1. CASE \E u \in Users, i \in Invitations :
               AcceptInvitation(p, u, i) /\ req'[p].inv = i /\ req'[p].actor = u
    BY <1>1, <2>1
  <2>2. CASE /\ req'[p].inv = req[p].inv /\ req'[p].actor = req[p].actor
             /\ req[p].at \in Accepting
    <3> DEFINE i == req[p].inv
    <3>1. i \in Invitations /\ invitation[i].status = "pending" /\ invitation[i].email = req[p].actor
      BY <2>2 DEF RowInv, TypeOK
    <3>2. ~RowFree(i)
      BY <2>2 DEF RowFree
    <3>3. ASSUME NEW q \in Requests, CommitAcceptance(q), i = req[q].inv
          PROVE  FALSE
      <4>1. req'[q] = Idle /\ req[q].at = "commit"
        BY <3>3 DEF CommitAcceptance, At, TypeOK
      <4>2. q # p
        BY <1>3, <4>1 DEF Idle
      <4> QED BY <2>2, <3>3, <4>1, <4>2 DEF RowInv
    <3>4. invitation'[i].status = "pending" /\ invitation'[i].email = req[p].actor
      <4> HIDE DEF i
      <4> QED BY <3>1, <3>2, <3>3, InvitationChange
    <3> QED BY <2>2, <3>4
  <2> QED BY <1>3, <2>1, <2>2, Before
<1> QED BY <1>2, <1>3 DEF RowInv

LEMMA FreshStep ==
  ASSUME TypeOK, FreshInv, [Next]_vars
  PROVE  FreshInv'
<1> USE DEF Resting, At
<1>1. ASSUME NEW p \in Requests, InsertMembership(p)
      PROVE  /\ \A q \in Requests \ {p} :
                  /\ req'[q] = req[q]
                  /\ req[q].at = "commit" /\ req[q].fresh => req[q].actor # req[p].actor
             /\ UNCHANGED role
  BY <1>1 DEF InsertMembership, TypeOK
<1>2. ASSUME NEW p \in Requests, req'[p].at = "commit", req'[p].fresh
      PROVE  /\ req'[p].actor \in Users /\ role[req'[p].actor] = "none"
             /\ req'[p] = req[p] \/ InsertMembership(p)
             /\ req'[p].actor = req[p].actor
  <2>1. req[p].actor \in Users
    BY DEF TypeOK
  <2>2. req'[p] = req[p] => role[req[p].actor] = "none"
    BY <1>2 DEF FreshInv
  <2> QED BY <1>2, <2>1, <2>2, Before
<1>3. ASSUME NEW p \in Requests, req'[p].at = "commit", req'[p].fresh
      PROVE  role'[req'[p].actor] = "none"
  <2> DEFINE u == req'[p].actor
  <2>1. u \in Users /\ role[u] = "none"
    BY <1>2, <1>3
  <2>2. ASSUME NEW q \in Requests, CommitAcceptance(q), req[q].fresh, u = req[q].actor
        PROVE  FALSE
    <3>1. req'[q] = Idle /\ req[q].at = "commit"
      BY <2>2 DEF CommitAcceptance, TypeOK
    <3>2. q # p
      BY <1>3, <3>1 DEF Idle
    <3>3. CASE req'[p] = req[p]
      BY <1>3, <2>2, <3>1, <3>2, <3>3 DEF FreshInv
    <3>4. CASE InsertMembership(p)
      BY <1>1, <2>2, <3>1, <3>2, <1>2, <1>3, <3>4
    <3> QED BY <1>2, <1>3, <3>3, <3>4
  <2> HIDE DEF u
  <2>3. role'[u] = "none"
    BY <2>1, <2>2, RoleChange
  <2> QED BY <2>3 DEF u
<1>4. ASSUME NEW p \in Requests, NEW q \in Requests, p # q,
             req'[p].at = "commit", req'[p].fresh, req'[q].at = "commit", req'[q].fresh
      PROVE  req'[p].actor # req'[q].actor
  <2>1. CASE req'[p] = req[p] /\ req'[q] = req[q]
    BY <1>4, <2>1 DEF FreshInv
  <2>2. ASSUME NEW x \in {p, q}, NEW y \in {p, q}, x # y, InsertMembership(x)
        PROVE  req'[p].actor # req'[q].actor
    <3>1. req'[y] = req[y] /\ req[y].actor # req[x].actor
      BY <1>1, <1>4, <2>2
    <3>2. req'[x].actor = req[x].actor
      BY <1>2, <1>4, <2>2
    <3> QED BY <2>2, <3>1, <3>2
  <2> QED BY <1>2, <1>4, <2>1, <2>2
<1> QED BY <1>3, <1>4 DEF FreshInv

LEMMA OwnerStep ==
  ASSUME TypeOK, OwnerInv, FreshInv, [Next]_vars
  PROVE  OwnerInv'
<1>1. ASSUME NEW u \in Users
      PROVE  role'[u] = "owner" <=> u = Owner
  <2>1. role[u] = "owner" <=> u = Owner
    BY DEF OwnerInv
  <2>2. ASSUME NEW p \in Requests, CommitAcceptance(p), req[p].fresh, u = req[p].actor,
               role'[u] = invitation[req[p].inv].role
        PROVE  u # Owner /\ role'[u] # "owner"
    <3>1. role[u] = "none" /\ invitation[req[p].inv].role \in Granted
      BY <2>2 DEF CommitAcceptance, FreshInv, TypeOK
    <3> QED BY <2>1, <2>2, <3>1 DEF Granted
  <2>3. ASSUME NEW p \in Requests, WriteRole(p), u = req[p].target, role'[u] = req[p].role
        PROVE  u # Owner /\ role'[u] # "owner"
    <3>1. req[p].target # Owner /\ req[p].role \in Granted
      BY <2>3 DEF WriteRole, OwnerInv, At, TypeOK
    <3> QED BY <2>3, <3>1 DEF Granted
  <2>4. ASSUME NEW p \in Requests, DeleteMember(p), u = req[p].target, role'[u] = "none"
        PROVE  u # Owner /\ role'[u] # "owner"
    BY <2>4 DEF DeleteMember, OwnerInv, At
  <2> QED BY <2>1, <2>2, <2>3, <2>4, RoleChange
<1>2. ASSUME NEW p \in Requests, req'[p].at \in {"update", "delete"}
      PROVE  req'[p].target # Owner
  <2>1. /\ req'[p].target = req[p].target
        /\ req[p].at \in {"update", "delete"} \/ role[req[p].target] \in Granted
    BY <1>2, Before DEF Resting
  <2> QED BY <2>1, OwnerAssumption DEF OwnerInv, Granted
<1> QED BY <1>1, <1>2 DEF OwnerInv

\* Removals stay marked as outdated until they end, and become so when their
\* target becomes an administrator.
LEMMA PromotedStep ==
  ASSUME TypeOK, [Next]_vars, NEW p \in Requests, req[p].at = "delete", req'[p] = req[p]
  PROVE  /\ p \in promoted => p \in promoted'
         /\ role[req[p].target] # "admin" /\ role'[req[p].target] = "admin" => p \in promoted'
<1>0. req'[p] # Idle
  BY DEF Idle
<1>1. \/ promoted \subseteq promoted'
      \/ \E q \in Requests : promoted \ {q} \subseteq promoted' /\ req' = [req EXCEPT ![q] = Idle]
  BY Steps DEF Outdated, End, CommitAcceptance, WriteRole, DeleteMember, vars, Expire,
               CreateInvitation, UpdateMember, RevokeInvitation, AcceptInvitation, RemoveMember,
               LockEmail, CheckMember, CheckPending, InsertInvitation, SendInvitationEmail,
               RevokeUnsent, RevokePending, InsertMembership, CheckUpdated, CheckRemoved, Abort
<1>2. p \in promoted => p \in promoted'
  BY <1>0, <1>1 DEF TypeOK
<1>3. ASSUME role[req[p].target] # "admin", role'[req[p].target] = "admin"
      PROVE  p \in promoted'
  <2> DEFINE t == req[p].target
  <2>1. t \in Users
    BY DEF TypeOK
  <2>2. ASSUME NEW q \in Requests, CommitAcceptance(q), t = req[q].actor
        PROVE  p \in promoted'
    <3>1. q # p /\ promoted' = (promoted \cup Outdated(q, t)) \ {q}
      BY <2>2 DEF CommitAcceptance, At
    <3> QED BY <1>3, <3>1 DEF Outdated, At
  <2>3. ASSUME NEW q \in Requests, WriteRole(q), t = req[q].target
        PROVE  p \in promoted'
    <3>1. q # p /\ promoted' = promoted \cup Outdated(q, t)
      BY <2>3 DEF WriteRole, At
    <3> QED BY <1>3, <3>1 DEF Outdated, At
  <2> QED BY <1>3, <2>1, <2>2, <2>3, RoleChange
<1> QED BY <1>2, <1>3

LEMMA RankStep ==
  ASSUME TypeOK, RankInv, [Next]_vars
  PROVE  RankInv'
<1> SUFFICES ASSUME NEW p \in Requests, req'[p].at = "delete"
             PROVE  \/ req'[p].rank = "owner"
                    \/ role'[req'[p].target] # "admin"
                    \/ p \in promoted'
  BY DEF RankInv, At
<1>1. CASE req'[p] = req[p]
  BY <1>1, PromotedStep DEF RankInv, At
<1>2. CASE /\ req'[p].rank = req[p].rank /\ UNCHANGED role
           /\ MayRemove(req[p].rank, role[req[p].target])
  <2>1. req'[p].target = req[p].target
    BY Before DEF Resting
  <2> QED BY <1>2, <2>1 DEF MayRemove
<1> QED BY <1>1, <1>2, Before DEF Resting

LEMMA PendingStep ==
  ASSUME TypeOK, EmailInv, OnePendingInvitation, [Next]_vars
  PROVE  OnePendingInvitation'
<1> SUFFICES ASSUME NEW i \in Invitations, NEW j \in Invitations, i # j, Pending(i)', Pending(j)'
             PROVE  invitation'[i].email # invitation'[j].email
  BY DEF OnePendingInvitation
<1>1. ASSUME NEW k \in Invitations, Pending(k)'
      PROVE  \/ Pending(k) /\ invitation'[k].email = invitation[k].email
             \/ \E p \in Requests :
                 /\ InsertInvitation(p) /\ invitation'[k].email = req[p].target
                 /\ \A l \in Invitations \ {k} : UNCHANGED invitation[l]
  <2>1. invitation'[k].status = "pending"
    BY <1>1 DEF Pending
  <2>2. UNCHANGED invitation[k] => Pending(k)
    BY <1>1 DEF Pending
  <2> QED BY <1>1, <2>1, <2>2, InvitationChange
<1>2. ASSUME NEW k \in Invitations, NEW l \in Invitations \ {k}, Pending(l)',
             NEW p \in Requests, InsertInvitation(p), invitation'[k].email = req[p].target,
             UNCHANGED invitation[l]
      PROVE  invitation'[k].email # invitation'[l].email
  BY <1>2 DEF InsertInvitation, EmailInv, Pending
<1>3. CASE /\ Pending(i) /\ invitation'[i].email = invitation[i].email
           /\ Pending(j) /\ invitation'[j].email = invitation[j].email
  BY <1>3 DEF OnePendingInvitation
<1> QED BY <1>1, <1>2, <1>3

-----------------------------------------------------------------------------
(* The theorems                                                            *)

\* The inductive invariant holds whatever requests the API serves at once.
THEOREM Invariance == Spec => []IInv
<1>1. Init => IInv
  BY InitIInv
<1>2. IInv /\ [Next]_vars => IInv'
  BY TypeStep, EmailStep, RowStep, FreshStep, OwnerStep, RankStep, PendingStep DEF IInv
<1> QED BY <1>1, <1>2, PTL DEF Spec

\* Every variable keeps its type.
THEOREM TypeCorrect == Spec => []TypeOK
<1>1. IInv => TypeOK
  BY DEF IInv
<1> QED BY <1>1, Invariance, PTL

\* Administrators who invite an address at once leave it one invitation.
THEOREM OneInvitation == Spec => []OnePendingInvitation
<1>1. IInv => OnePendingInvitation
  BY DEF IInv
<1> QED BY <1>1, Invariance, PTL

\* Nobody becomes a member without an invitation that is used up in the same step.
THEOREM JoinsAreInvited == Spec => JoinsConsumeInvitations
<1>1. ASSUME IInv, [Next]_vars, NEW u \in Users, role[u] = "none", role'[u] # "none"
      PROVE  \E i \in Invitations :
               /\ invitation[i].email = u /\ invitation[i].role = role'[u]
               /\ invitation[i].status = "pending" /\ invitation'[i].status = "accepted"
  <2>1. PICK p \in Requests : /\ CommitAcceptance(p) /\ u = req[p].actor
                              /\ role'[u] = invitation[req[p].inv].role
                              /\ invitation'[req[p].inv].status = "accepted"
    BY <1>1, RoleChange DEF IInv
  <2>2. /\ req[p].inv \in Invitations
        /\ invitation[req[p].inv].status = "pending" /\ invitation[req[p].inv].email = u
    BY <1>1, <2>1 DEF CommitAcceptance, At, IInv, RowInv, Accepting, TypeOK
  <2> QED BY <2>1, <2>2
<1>2. IInv /\ [Next]_vars =>
        [\A u \in Users : role[u] = "none" /\ role'[u] # "none" =>
           \E i \in Invitations :
             /\ invitation[i].email = u /\ invitation[i].role = role'[u]
             /\ invitation[i].status = "pending" /\ invitation'[i].status = "accepted"]_vars
  BY <1>1
<1> QED BY <1>2, Invariance, PTL DEF Spec, JoinsConsumeInvitations

\* The owner stays, and an administrator is removed by the owner, or by a request
\* that saw the administrator as less.
THEOREM RankIsRespected == Spec => RemovalsRespectRank
<1> DEFINE Respectful(t) ==
      /\ role[t] = "owner" => role'[t] = "owner"
      /\ role[t] = "admin" /\ role'[t] = "none" =>
           \E p \in Requests : /\ At(p, "delete") /\ req'[p] = Idle
                               /\ req[p].rank = "owner" \/ p \in promoted
<1>1. ASSUME IInv, [Next]_vars, NEW t \in Users
      PROVE  Respectful(t)
  <2>1. role[t] = "owner" => role'[t] = "owner"
    BY <1>1, OwnerStep DEF IInv, OwnerInv
  <2>2. ASSUME role[t] = "admin", role'[t] = "none"
        PROVE  \E p \in Requests : /\ At(p, "delete") /\ req'[p] = Idle
                                   /\ req[p].rank = "owner" \/ p \in promoted
    <3>1. ASSUME NEW p \in Requests, WriteRole(p), role'[t] = req[p].role
          PROVE  FALSE
      BY <1>1, <2>2, <3>1 DEF IInv, TypeOK, Granted
    <3>2. ASSUME NEW p \in Requests, CommitAcceptance(p), role'[t] = invitation[req[p].inv].role
          PROVE  FALSE
      BY <1>1, <2>2, <3>2 DEF IInv, TypeOK, Granted
    <3>3. PICK p \in Requests : DeleteMember(p) /\ t = req[p].target
      BY <1>1, <2>2, <3>1, <3>2, RoleChange DEF IInv
    <3>4. At(p, "delete") /\ req'[p] = Idle
      BY <1>1, <3>3 DEF DeleteMember, End, IInv, TypeOK
    <3>5. req[p].rank = "owner" \/ p \in promoted
      BY <1>1, <2>2, <3>3, <3>4 DEF IInv, RankInv
    <3> QED BY <3>4, <3>5
  <2> QED BY <2>1, <2>2
<1>2. IInv /\ [Next]_vars => [\A t \in Users : Respectful(t)]_vars
  <2> HIDE DEF Respectful
  <2> QED BY <1>1
<1> QED BY <1>2, Invariance, PTL DEF Spec, RemovalsRespectRank

=============================================================================
