---------------------------- MODULE Membership ----------------------------
(***************************************************************************)
(* The members, invites and seats of one workspace.                        *)
(*                                                                         *)
(* The API server runs every request in a thread of its own, on a          *)
(* transaction of its own, at READ COMMITTED and with no row locks         *)
(* (app/core/database.py, app/api/workspaces.py, app/api/invites.py).  A   *)
(* handler therefore is two or three steps here: the step that runs its    *)
(* authorization, lookups and guards (Start...), for the handlers that     *)
(* enforce the seat cap the step that runs the second query of the seat    *)
(* count (CountInvites), and the step that commits its writes (Commit...). *)
(* Other requests, the clock and the billing webhook move in between.      *)
(*                                                                         *)
(* Requests is the set of slots in which handlers run, that is, the number *)
(* of requests served at once; with one slot the handlers are serial.      *)
(***************************************************************************)
EXTENDS Integers, FiniteSets

CONSTANTS
    People,        \* persons, each with one email address
    InviteIds,     \* rows workspace_invites may ever get (the bound on invites)
    Requests,      \* request slots of the server
    AskedRoles,    \* roles that request bodies ask for
    Plans,         \* plan names
    SeatLimit,     \* PLAN_LIMITS[plan]["max_seats_per_workspace"]
    Unlimited,     \* the limit None
    None           \* an empty field

Roles == {"owner", "admin", "editor", "viewer"}
NoRole == "none"

ASSUME RolesAssumption == AskedRoles \subseteq Roles
ASSUME NoneAssumption == None \notin People /\ None \notin InviteIds
ASSUME UnlimitedAssumption == Unlimited \notin Nat
ASSUME LimitAssumption == SeatLimit \in [Plans -> Nat \cup {Unlimited}]
ASSUME PeopleAssumption == IsFiniteSet(People) /\ IsFiniteSet(InviteIds)

VARIABLES
    account,       \* the persons with a row in users
    role,          \* workspace_members: one row per person at most (its unique key)
    invite,        \* workspace_invites
    plan,          \* organizations.plan of the workspace's organization
    req            \* what each request slot is doing

vars == <<account, role, invite, plan, req>>

\* live: expires_at is still ahead, so is_expired is FALSE.
InviteRow == [email : People, role : Roles, status : {"pending", "accepted", "revoked"},
              live : BOOLEAN]

\* A row not yet inserted.
NoInvite == [email |-> None, role |-> NoRole, status |-> "absent", live |-> FALSE]

MemberOps == {"role", "remove", "leave"}     \* they hold a workspace_members row
SeatOps == {"add", "invite"}                 \* they enforce the seat cap
InviteOps == {"revoke", "resend", "accept"}  \* they hold a workspace_invites row
Ops == MemberOps \cup SeatOps \cup InviteOps \cup {"drop"}

(***************************************************************************)
(* A request: actor is the caller, who the person it is about.  seats and  *)
(* limit are what it has read of the seat cap.  gone: a users or           *)
(* workspace_members row that the request holds in its session has been    *)
(* deleted since, so its commit finds no row or breaks a foreign key.      *)
(***************************************************************************)
Request == [pc : {"idle", "counting", "writing"}, op : Ops \cup {"none"},
            actor : People \cup {None}, who : People \cup {None},
            role : Roles \cup {NoRole}, inv : InviteIds \cup {None},
            seats : Nat, limit : Nat \cup {Unlimited}, gone : BOOLEAN]

Idle == [pc |-> "idle", op |-> "none", actor |-> None, who |-> None, role |-> NoRole,
         inv |-> None, seats |-> 0, limit |-> 0, gone |-> FALSE]

TypeOK ==
    /\ account \in SUBSET People
    /\ role \in [People -> Roles \cup {NoRole}]
    /\ invite \in [InviteIds -> InviteRow \cup {NoInvite}]
    /\ plan \in Plans
    /\ req \in [Requests -> Request]

---------------------------------------------------------------------------
(* What the handlers read. *)

Members == {p \in People : role[p] # NoRole}
Owners == {p \in People : role[p] = "owner"}
IsAdmin(p) == role[p] \in {"owner", "admin"}

LivePending == {i \in InviteIds : invite[i].status = "pending" /\ invite[i].live}
PendingFor(p) == {i \in InviteIds : invite[i].status = "pending" /\ invite[i].email = p}

UnderLimitInclusive(n, limit) == limit = Unlimited \/ n <= limit
UnderLimit(n, limit) == limit = Unlimited \/ n < limit

\* An owner may be demoted, be removed or leave when another owner is counted.
OwnerMayGoUncounted(p) == role[p] = "owner" => Cardinality(Owners) > 0
OwnerMayGo(p) == role[p] = "owner" => Cardinality(Owners) > 1

\* The checks of revoke_invite and resend_invite, and of accept_invite.
IsPendingUnchecked(i) == invite[i].status # "absent"
IsPending(i) == invite[i].status = "pending"

---------------------------------------------------------------------------
(* Beginning and ending a request. *)

Begin(r, request) ==
    /\ req[r].pc = "idle"
    /\ req' = [req EXCEPT ![r] = request]

End(r) == req' = [req EXCEPT ![r] = Idle]

\* End r, and tell every other request that holds one of the rows deleted.
EndDeleting(r, holders) ==
    req' = [q \in Requests |-> IF q = r THEN Idle
                               ELSE IF q \in holders THEN [req[q] EXCEPT !.gone = TRUE]
                               ELSE req[q]]

HoldersOfMembership(p) == {q \in Requests : req[q].op \in MemberOps /\ req[q].who = p}
\* add_member writes no reference to its caller, create_invite none to an account of its invitee.
HoldersOfAccount(p) ==
    {q \in Requests : \/ req[q].actor = p /\ req[q].op # "add"
                      \/ req[q].who = p /\ req[q].op # "invite"}

Writing(r, op) == req[r].pc = "writing" /\ req[r].op = op

---------------------------------------------------------------------------
(* workspaces.py *)

StartAddMember(r, a, p, newRole) ==
    /\ IsAdmin(a)
    /\ p \in account
    /\ role[p] = NoRole
    /\ Begin(r, [Idle EXCEPT !.pc = "counting", !.op = "add", !.actor = a, !.who = p,
                             !.role = newRole, !.seats = Cardinality(Members),
                             !.limit = SeatLimit[plan]])
    /\ UNCHANGED <<account, role, invite, plan>>

\* The unique key and the foreign key reject the row of a person who has
\* become a member, or whose account is gone.
CommitAddMember(r) ==
    /\ Writing(r, "add")
    /\ role' = IF role[req[r].who] = NoRole /\ req[r].who \in account /\ ~req[r].gone
               THEN [role EXCEPT ![req[r].who] = req[r].role] ELSE role
    /\ End(r)
    /\ UNCHANGED <<account, invite, plan>>

\* A request for the role the person already has writes nothing and is left out.
StartUpdateRole(r, a, p, newRole) ==
    /\ IsAdmin(a)
    /\ role[p] \notin {NoRole, newRole}
    /\ newRole = "owner" => role[a] = "owner"
    /\ OwnerMayGo(p)
    /\ Begin(r, [Idle EXCEPT !.pc = "writing", !.op = "role", !.actor = a, !.who = p,
                             !.role = newRole])
    /\ UNCHANGED <<account, role, invite, plan>>

CommitUpdateRoleUpsert(r) ==
    /\ Writing(r, "role")
    /\ role' = [role EXCEPT ![req[r].who] = req[r].role]
    /\ End(r)
    /\ UNCHANGED <<account, invite, plan>>
CommitUpdateRole(r) ==
    /\ Writing(r, "role")
    /\ role' = IF req[r].gone THEN role ELSE [role EXCEPT ![req[r].who] = req[r].role]
    /\ End(r)
    /\ UNCHANGED <<account, invite, plan>>

StartRemoveMember(r, a, p) ==
    /\ IsAdmin(a)
    /\ role[p] # NoRole
    /\ OwnerMayGo(p)
    /\ Begin(r, [Idle EXCEPT !.pc = "writing", !.op = "remove", !.actor = a, !.who = p])
    /\ UNCHANGED <<account, role, invite, plan>>

StartLeave(r, p) ==
    /\ role[p] # NoRole
    /\ OwnerMayGo(p)
    /\ Begin(r, [Idle EXCEPT !.pc = "writing", !.op = "leave", !.actor = p, !.who = p])
    /\ UNCHANGED <<account, role, invite, plan>>

\* A DELETE that matches no row is a warning in SQLAlchemy: the commit succeeds.
CommitDelete(r) ==
    /\ Writing(r, "remove") \/ Writing(r, "leave")
    /\ IF req[r].gone
       THEN role' = role /\ End(r)
       ELSE /\ role' = [role EXCEPT ![req[r].who] = NoRole]
            /\ EndDeleting(r, HoldersOfMembership(req[r].who))
    /\ UNCHANGED <<account, invite, plan>>

---------------------------------------------------------------------------
(* invites.py *)

\* The bound on invites: every invite request in flight finds an unused row.
RoomForInvite == Cardinality({i \in InviteIds : invite[i] = NoInvite})
                     > Cardinality({q \in Requests : req[q].op = "invite"})

\* Two pending rows for one email make the lookup's one_or_none() raise.
StartCreateInvite(r, a, p, newRole) ==
    /\ IsAdmin(a)
    /\ ~(p \in account /\ role[p] # NoRole)
    /\ Cardinality(PendingFor(p)) <= 1
    /\ PendingFor(p) \cap LivePending = {}
    /\ RoomForInvite
    /\ Begin(r, [Idle EXCEPT !.pc = "counting", !.op = "invite", !.actor = a, !.who = p,
                             !.role = newRole, !.seats = Cardinality(Members),
                             !.limit = SeatLimit[plan]])
    /\ UNCHANGED <<account, role, invite, plan>>

\* seats_in_use_for_workspace's second query, and the comparison with the limit.
CountInvites(r) ==
    LET seats == req[r].seats + Cardinality(LivePending) IN
    /\ req[r].pc = "counting"
    /\ req' = [req EXCEPT ![r] = IF UnderLimit(seats, req[r].limit)
                                 THEN [req[r] EXCEPT !.pc = "writing", !.seats = seats]
                                 ELSE Idle]
    /\ UNCHANGED <<account, role, invite, plan>>

CommitCreateInvite(r, i) ==
    /\ Writing(r, "invite")
    /\ invite[i] = NoInvite
    /\ invite' = IF req[r].gone THEN invite
                 ELSE [invite EXCEPT ![i] = [email |-> req[r].who, role |-> req[r].role,
                                             status |-> "pending", live |-> TRUE]]
    /\ End(r)
    /\ UNCHANGED <<account, role, plan>>

StartInviteUpdate(r, a, i, op) ==
    /\ IsAdmin(a)
    /\ IsPending(i)
    /\ Begin(r, [Idle EXCEPT !.pc = "writing", !.op = op, !.actor = a, !.inv = i])
    /\ UNCHANGED <<account, role, invite, plan>>

StartRevokeInvite(r, a, i) == StartInviteUpdate(r, a, i, "revoke")

CommitRevokeErasing(r) ==
    /\ Writing(r, "revoke")
    /\ invite' = [invite EXCEPT ![req[r].inv].status = "absent"]
    /\ End(r)
    /\ UNCHANGED <<account, role, plan>>
CommitRevokeInvite(r) ==
    /\ Writing(r, "revoke")
    /\ invite' = IF req[r].gone THEN invite ELSE [invite EXCEPT ![req[r].inv].status = "revoked"]
    /\ End(r)
    /\ UNCHANGED <<account, role, plan>>

StartResendInvite(r, a, i) == StartInviteUpdate(r, a, i, "resend")

CommitResendInvite(r) ==
    /\ Writing(r, "resend")
    /\ invite' = IF req[r].gone THEN invite ELSE [invite EXCEPT ![req[r].inv].live = TRUE]
    /\ End(r)
    /\ UNCHANGED <<account, role, plan>>

StartAcceptInvite(r, p, i) ==
    /\ p \in account
    /\ IsPending(i)
    /\ invite[i].live
    /\ invite[i].email = p
    /\ role[p] = NoRole
    /\ Begin(r, [Idle EXCEPT !.pc = "writing", !.op = "accept", !.actor = p, !.who = p,
                             !.inv = i, !.role = invite[i].role])
    /\ UNCHANGED <<account, role, invite, plan>>

\* One transaction: the membership row and the invite's new status.
CommitAcceptTorn(r) ==
    /\ Writing(r, "accept")
    /\ invite' = [invite EXCEPT ![req[r].inv].status = "accepted"]
    /\ role' = IF ~req[r].gone /\ role[req[r].who] = NoRole
               THEN [role EXCEPT ![req[r].who] = req[r].role] ELSE role
    /\ End(r)
    /\ UNCHANGED <<account, plan>>
CommitAcceptInvite(r) ==
    /\ Writing(r, "accept")
    /\ IF ~req[r].gone /\ role[req[r].who] = NoRole
       THEN /\ role' = [role EXCEPT ![req[r].who] = req[r].role]
            /\ invite' = [invite EXCEPT ![req[r].inv].status = "accepted"]
       ELSE UNCHANGED <<role, invite>>
    /\ End(r)
    /\ UNCHANGED <<account, plan>>

---------------------------------------------------------------------------
(* auth.py and deps.py: the users table; the clock; the billing webhook. *)

\* get_current_user or the user.created webhook mirrors a person.
SignIn(p) ==
    /\ p \notin account
    /\ account' = account \cup {p}
    /\ UNCHANGED <<role, invite, plan, req>>

StartDropAccount(r, p) ==
    /\ p \in account
    /\ Begin(r, [Idle EXCEPT !.pc = "writing", !.op = "drop", !.who = p])
    /\ UNCHANGED <<account, role, invite, plan>>

\* user.deleted: the memberships go with the user.
CommitDropNoCascade(r) ==
    /\ Writing(r, "drop")
    /\ account' = account \ {req[r].who}
    /\ End(r)
    /\ UNCHANGED <<role, invite, plan>>
CommitDropAccount(r) ==
    /\ Writing(r, "drop")
    /\ IF req[r].gone
       THEN account' = account /\ role' = role /\ End(r)
       ELSE /\ account' = account \ {req[r].who}
            /\ role' = [role EXCEPT ![req[r].who] = NoRole]
            /\ EndDeleting(r, HoldersOfAccount(req[r].who))
    /\ UNCHANGED <<invite, plan>>

\* expires_at passes: is_expired is computed whenever the row is read.
Expire(i) ==
    /\ IsPending(i)
    /\ invite[i].live
    /\ invite' = [invite EXCEPT ![i].live = FALSE]
    /\ UNCHANGED <<account, role, plan, req>>

ChangePlan(newPlan) ==
    /\ plan # newPlan
    /\ plan' = newPlan
    /\ UNCHANGED <<account, role, invite, req>>

---------------------------------------------------------------------------
(* create_workspace: its caller becomes the only member, an owner. *)
Init ==
    /\ \E founder \in People :
         /\ account = {founder}
         /\ role = [p \in People |-> IF p = founder THEN "owner" ELSE NoRole]
    /\ invite = [i \in InviteIds |-> NoInvite]
    /\ plan \in Plans
    /\ req = [r \in Requests |-> Idle]

Start(r) ==
    \/ \E a, p \in People, newRole \in AskedRoles :
         \/ StartAddMember(r, a, p, newRole)
         \/ StartUpdateRole(r, a, p, newRole)
         \/ StartCreateInvite(r, a, p, newRole)
    \/ \E a, p \in People : StartRemoveMember(r, a, p)
    \/ \E p \in People : StartLeave(r, p) \/ StartDropAccount(r, p)
    \/ \E a \in People, i \in InviteIds :
         \/ StartRevokeInvite(r, a, i)
         \/ StartResendInvite(r, a, i)
         \/ StartAcceptInvite(r, a, i)

Commit(r) ==
    \/ CommitAddMember(r)
    \/ CommitUpdateRole(r)
    \/ CommitDelete(r)
    \/ \E i \in InviteIds : CommitCreateInvite(r, i)
    \/ CommitRevokeInvite(r)
    \/ CommitResendInvite(r)
    \/ CommitAcceptInvite(r)
    \/ CommitDropAccount(r)

Environment ==
    \/ \E p \in People : SignIn(p)
    \/ \E i \in InviteIds : Expire(i)
    \/ \E newPlan \in Plans : ChangePlan(newPlan)

Next ==
    \/ \E r \in Requests : Start(r) \/ CountInvites(r) \/ Commit(r)
    \/ Environment

Spec == Init /\ [][Next]_vars

---------------------------------------------------------------------------
(* What must hold however the requests interleave. *)

\* A membership never outlives the user's account: deleting the user cascades,
\* and a membership committed by a request that read the account before is rejected.
MembersHaveAccounts == Members \subseteq account

\* accept_invite admits the invitee and closes the invite in one transaction.  An accept either
\* changes nothing or makes the invite's addressee, until then no member, one with the invite's role
\* and leaves the invite accepted; and nothing else makes an invite accepted.  (Two overlapping
\* accepts may both admit by one invite, if the member is removed between them.)
Admits(i) ==
    /\ role[invite[i].email] = NoRole
    /\ role' = [role EXCEPT ![invite[i].email] = invite[i].role]
    /\ invite' = [invite EXCEPT ![i].status = "accepted"]
AcceptAdmits ==
    /\ \A r \in Requests :
         Writing(r, "accept") /\ req'[r] = Idle =>
             UNCHANGED <<role, invite>> \/ Admits(req[r].inv)
    /\ \A i \in InviteIds :
         invite[i].status # "accepted" /\ invite'[i].status = "accepted" =>
             \E r \in Requests : Writing(r, "accept") /\ req[r].inv = i /\ Admits(i)
AcceptIsAtomic == [][AcceptAdmits]_vars

\* update_member_role never brings back a member that was removed, left or was
\* deleted after the handler had loaded the row: only add_member and accept_invite admit.
AdmittedByAddOrAccept ==
    \A p \in People :
        role[p] = NoRole /\ role'[p] # NoRole =>
            \E r \in Requests :
                req[r].who = p /\ (Writing(r, "add") \/ Writing(r, "accept"))
NoReviveByRoleChange == [][AdmittedByAddOrAccept]_vars

---------------------------------------------------------------------------
(* What holds when requests do not overlap. *)

Serial == \A r, s \in Requests : r = s

\* A workspace never loses its last owner to a demotion, a removal or a leave
\* (workspaces.py's module docstring); only the deletion of a user account does that.
KeepsAnOwner == Owners # {} /\ Owners' = {} => account' # account
OwnersNeverLost == [][KeepsAnOwner]_vars

\* An invite is settled once (invites.py): accepted or revoked it keeps that outcome, and an accept
\* admits a member only while the invite it spends is still pending when it commits.
KeepsOutcomes ==
    \A i \in InviteIds :
        invite[i].status \in {"accepted", "revoked"} => invite'[i].status = invite[i].status
AdmitsFromPending ==
    \A r \in Requests :
        Writing(r, "accept") /\ req'[r] = Idle /\ role' # role =>
            invite[req[r].inv].status = "pending"
InviteSettledOnce == [][KeepsOutcomes /\ AdmitsFromPending]_vars

\* add_member and create_invite leave the seats in use, as they are when the
\* request commits, within the limit of the plan the request has read.
SeatsInUse == Cardinality(Members) + Cardinality(LivePending)
SeatCheckHolds ==
    [][\A r \in Requests :
         (Writing(r, "add") \/ Writing(r, "invite")) /\ req'[r] = Idle =>
             req[r].limit = Unlimited \/ SeatsInUse' <= req[r].limit]_vars

\* The seats in use never rise above the plan's limit (plan_limits.py,
\* seats_in_use_for_workspace).  With one plan and serial requests,
\* resend_invite alone breaks this: it revives an expired invite without a check.
SeatCapNeverExceeded ==
    [][SeatsInUse' > SeatsInUse =>
         SeatLimit[plan] = Unlimited \/ SeatsInUse' <= SeatLimit[plan]]_vars
=============================================================================
