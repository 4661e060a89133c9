------------------------- MODULE MembershipProofs -------------------------
(***************************************************************************)
(* Proofs about Membership, for any number of people, invites and request  *)
(* slots, any plans and any seat limits.                                   *)
(*                                                                         *)
(* The inductive invariant IndInv adds to the type invariant what a        *)
(* request in flight may rely on when it commits (Sound): the row it has   *)
(* loaded still exists unless the request is marked gone, and an accept    *)
(* still agrees with its invite's email and role.  Those facts survive     *)
(* every interleaving.  What the guards have read (the owner count, the    *)
(* invite's status) does not: it holds up to the commit only when requests *)
(* do not overlap, which is the extra hypothesis Serial, with the          *)
(* invariants SerialInv and, for the seat count, SeatInv.                  *)
(***************************************************************************)
EXTENDS Membership, FiniteSetTheorems, TLAPS

Sound(q) ==
    /\ q.op \in Ops \ {"revoke", "resend"} => q.who \in People
    /\ q.op \in SeatOps \cup {"role", "accept"} => q.role \in Roles
    /\ q.op \in MemberOps /\ ~q.gone => role[q.who] # NoRole
    /\ q.op \in {"accept", "drop"} /\ ~q.gone => q.who \in account
    /\ q.op \in InviteOps => q.inv \in InviteIds /\ invite[q.inv] # NoInvite
    /\ q.op = "accept" => invite[q.inv].email = q.who /\ invite[q.inv].role = q.role

IndInv ==
    /\ TypeOK
    /\ MembersHaveAccounts
    /\ \A r \in Requests : Sound(req[r])

---------------------------------------------------------------------------
LEMMA SeatsAreFinite ==
    ASSUME TypeOK
    PROVE  /\ IsFiniteSet(Members) /\ Cardinality(Members) \in Nat
           /\ IsFiniteSet(Owners) /\ Cardinality(Owners) \in Nat
           /\ IsFiniteSet(LivePending) /\ Cardinality(LivePending) \in Nat
<1>1. Members \subseteq People /\ Owners \subseteq People /\ LivePending \subseteq InviteIds
  BY DEF Members, Owners, LivePending
<1> QED
  BY <1>1, PeopleAssumption, FS_Subset, FS_CardinalityType

LEMMA IdleIsSound == Idle \in Request /\ Sound(Idle)
  BY DEF Idle, Request, Sound, Ops, MemberOps, SeatOps, InviteOps, NoRole

\* A step that only replaces what one slot is doing, by a sound request.
LEMMA ReplaceRequest ==
    ASSUME IndInv, NEW r \in Requests, NEW q \in Request, Sound(q),
           req' = [req EXCEPT ![r] = q], UNCHANGED <<account, role, invite, plan>>
    PROVE  IndInv'
<1>1. TypeOK'
  BY DEF IndInv, TypeOK
<1>2. MembersHaveAccounts'
  BY DEF IndInv, MembersHaveAccounts, Members
<1>3. ASSUME NEW s \in Requests PROVE Sound(req[s])'
  BY DEF IndInv, TypeOK, Sound
<1> QED
  BY <1>1, <1>2, <1>3 DEF IndInv

\* What the steps that end a request do to the slots.
LEMMA GoneRequest ==
    ASSUME NEW q \in Request
    PROVE  LET g == [q EXCEPT !.gone = TRUE] IN
           /\ g \in Request
           /\ g.op = q.op /\ g.who = q.who /\ g.role = q.role /\ g.inv = q.inv /\ g.gone
  BY DEF Request

LEMMA Ended ==
    ASSUME TypeOK, NEW r \in Requests, End(r)
    PROVE  /\ req' \in [Requests -> Request]
           /\ req'[r] = Idle
           /\ \A s \in Requests \ {r} : req'[s] = req[s]
  BY IdleIsSound DEF TypeOK, End

LEMMA EndedDeleting ==
    ASSUME TypeOK, NEW r \in Requests, NEW holders \in SUBSET Requests, EndDeleting(r, holders)
    PROVE  /\ req' \in [Requests -> Request]
           /\ req'[r] = Idle
           /\ \A s \in Requests \ {r} :
                /\ s \notin holders => req'[s] = req[s]
                /\ s \in holders => req'[s] = [req[s] EXCEPT !.gone = TRUE]
<1>1. \A s \in Requests : req[s] \in Request
  BY DEF TypeOK
<1>2. \A s \in Requests : [req[s] EXCEPT !.gone = TRUE] \in Request
  BY <1>1, GoneRequest
<1>3. Idle \in Request
  BY IdleIsSound
<1> QED
  BY <1>1, <1>2, <1>3 DEF EndDeleting

---------------------------------------------------------------------------
(* IndInv is inductive: one lemma per group of actions. *)

LEMMA StartSeatOp ==
    ASSUME IndInv, NEW r \in Requests, NEW a \in People, NEW p \in People,
           NEW newRole \in AskedRoles,
           StartAddMember(r, a, p, newRole) \/ StartCreateInvite(r, a, p, newRole)
    PROVE  IndInv'
<1> DEFINE q(op) == [Idle EXCEPT !.pc = "counting", !.op = op, !.actor = a, !.who = p,
                       !.role = newRole, !.seats = Cardinality(Members),
                       !.limit = SeatLimit[plan]]
<1>1. ASSUME NEW op \in SeatOps
      PROVE  q(op) \in Request /\ Sound(q(op))
  <2>1. Cardinality(Members) \in Nat
    BY SeatsAreFinite DEF IndInv
  <2>2. SeatLimit[plan] \in Nat \cup {Unlimited}
    BY LimitAssumption DEF IndInv, TypeOK
  <2> QED
    BY <2>1, <2>2, RolesAssumption
    DEF Request, Idle, Sound, Ops, SeatOps, MemberOps, InviteOps
<1>2. UNCHANGED <<account, role, invite, plan>>
  BY DEF StartAddMember, StartCreateInvite
<1>3. req' = [req EXCEPT ![r] = q("add")] \/ req' = [req EXCEPT ![r] = q("invite")]
  BY DEF StartAddMember, StartCreateInvite, Begin
<1>4. "add" \in SeatOps /\ "invite" \in SeatOps
  BY DEF SeatOps
<1> HIDE DEF q
<1> QED
  BY <1>1, <1>2, <1>3, <1>4, ReplaceRequest

LEMMA StartMemberOp ==
    ASSUME IndInv, NEW r \in Requests, NEW a \in People, NEW p \in People,
           \/ \E newRole \in AskedRoles : StartUpdateRole(r, a, p, newRole)
           \/ StartRemoveMember(r, a, p)
           \/ StartLeave(r, p)
    PROVE  IndInv'
<1>1. UNCHANGED <<account, role, invite, plan>> /\ role[p] # NoRole
  BY DEF StartUpdateRole, StartRemoveMember, StartLeave
<1>2. ASSUME NEW newRole \in AskedRoles, StartUpdateRole(r, a, p, newRole)
      PROVE  IndInv'
  <2> DEFINE q == [Idle EXCEPT !.pc = "writing", !.op = "role", !.actor = a, !.who = p,
                               !.role = newRole]
  <2>1. q \in Request /\ Sound(q)
    BY <1>1, RolesAssumption DEF Request, Idle, Sound, Ops, SeatOps, MemberOps, InviteOps
  <2>2. req' = [req EXCEPT ![r] = q]
    BY <1>2 DEF StartUpdateRole, Begin
  <2> HIDE DEF q
  <2> QED
    BY <1>1, <2>1, <2>2, ReplaceRequest
<1>3. ASSUME StartRemoveMember(r, a, p) \/ StartLeave(r, p)
      PROVE  IndInv'
  <2> DEFINE q(op, c) == [Idle EXCEPT !.pc = "writing", !.op = op, !.actor = c, !.who = p]
  <2>1. ASSUME NEW op \in {"remove", "leave"}, NEW c \in People
        PROVE  q(op, c) \in Request /\ Sound(q(op, c))
    BY <1>1 DEF Request, Idle, Sound, Ops, SeatOps, MemberOps, InviteOps
  <2>2. \E op \in {"remove", "leave"}, c \in People : req' = [req EXCEPT ![r] = q(op, c)]
    BY <1>3 DEF StartRemoveMember, StartLeave, Begin
  <2> HIDE DEF q
  <2> QED
    BY <1>1, <2>1, <2>2, ReplaceRequest
<1> QED
  BY <1>2, <1>3

LEMMA StartInviteOp ==
    ASSUME IndInv, NEW r \in Requests, NEW a \in People, NEW i \in InviteIds,
           \/ StartRevokeInvite(r, a, i)
           \/ StartResendInvite(r, a, i)
           \/ StartAcceptInvite(r, a, i)
    PROVE  IndInv'
<1>1. /\ IsPending(i)
      /\ invite[i] # NoInvite
      /\ invite[i].email \in People /\ invite[i].role \in Roles
  BY DEF StartRevokeInvite, StartResendInvite, StartAcceptInvite, StartInviteUpdate, IsPending,
         IndInv, TypeOK, InviteRow, NoInvite
<1>2. CASE StartAcceptInvite(r, a, i)
  <2> DEFINE q == [Idle EXCEPT !.pc = "writing", !.op = "accept", !.actor = a, !.who = a,
                               !.inv = i, !.role = invite[i].role]
  <2>1. q \in Request /\ Sound(q)
    BY <1>1, <1>2 DEF StartAcceptInvite, Request, Idle, Sound, Ops, SeatOps, MemberOps, InviteOps
  <2>2. req' = [req EXCEPT ![r] = q] /\ UNCHANGED <<account, role, invite, plan>>
    BY <1>2 DEF StartAcceptInvite, Begin
  <2> HIDE DEF q
  <2> QED
    BY <2>1, <2>2, ReplaceRequest
<1>3. CASE StartRevokeInvite(r, a, i) \/ StartResendInvite(r, a, i)
  <2> DEFINE q(op) == [Idle EXCEPT !.pc = "writing", !.op = op, !.actor = a, !.inv = i]
  <2>1. ASSUME NEW op \in {"revoke", "resend"} PROVE q(op) \in Request /\ Sound(q(op))
    BY <1>1 DEF Request, Idle, Sound, Ops, SeatOps, MemberOps, InviteOps
  <2>2. \E op \in {"revoke", "resend"} : req' = [req EXCEPT ![r] = q(op)]
    BY <1>3 DEF StartRevokeInvite, StartResendInvite, StartInviteUpdate, Begin
  <2>3. UNCHANGED <<account, role, invite, plan>>
    BY <1>3 DEF StartRevokeInvite, StartResendInvite, StartInviteUpdate
  <2> HIDE DEF q
  <2> QED
    BY <2>1, <2>2, <2>3, ReplaceRequest
<1> QED
  BY <1>2, <1>3

LEMMA StartDrop ==
    ASSUME IndInv, NEW r \in Requests, NEW p \in People, StartDropAccount(r, p)
    PROVE  IndInv'
<1> DEFINE q == [Idle EXCEPT !.pc = "writing", !.op = "drop", !.who = p]
<1>1. q \in Request /\ Sound(q)
  BY DEF StartDropAccount, Request, Idle, Sound, Ops, SeatOps, MemberOps, InviteOps
<1>2. req' = [req EXCEPT ![r] = q] /\ UNCHANGED <<account, role, invite, plan>>
  BY DEF StartDropAccount, Begin
<1> HIDE DEF q
<1> QED
  BY <1>1, <1>2, ReplaceRequest

LEMMA CountStep ==
    ASSUME IndInv, NEW r \in Requests, CountInvites(r)
    PROVE  IndInv'
<1> DEFINE seats == req[r].seats + Cardinality(LivePending)
           q == [req[r] EXCEPT !.pc = "writing", !.seats = seats]
<1>1. req[r] \in Request /\ Sound(req[r]) /\ seats \in Nat
  BY SeatsAreFinite DEF IndInv, TypeOK, Request
<1>2. q \in Request /\ Sound(q)
  <2>1. /\ q \in Request
        /\ q.op = req[r].op /\ q.who = req[r].who /\ q.role = req[r].role
        /\ q.inv = req[r].inv /\ q.gone = req[r].gone
    <3> HIDE DEF seats
    <3> QED
      BY <1>1 DEF Request
  <2> HIDE DEF q
  <2> QED
    BY <1>1, <2>1 DEF Sound
<1>3. req' = [req EXCEPT ![r] = q] \/ req' = [req EXCEPT ![r] = Idle]
  BY DEF CountInvites
<1>4. UNCHANGED <<account, role, invite, plan>>
  BY DEF CountInvites
<1> HIDE DEF q
<1>5. CASE req' = [req EXCEPT ![r] = q]
  BY <1>2, <1>4, <1>5, ReplaceRequest
<1>6. CASE req' = [req EXCEPT ![r] = Idle]
  BY <1>4, <1>6, IdleIsSound, ReplaceRequest
<1> QED
  BY <1>3, <1>5, <1>6

\* A commit whose writes leave every sound request sound.
LEMMA AfterEnd ==
    ASSUME IndInv, NEW r \in Requests, End(r), UNCHANGED plan,
           account' \in SUBSET People,
           role' \in [People -> Roles \cup {NoRole}],
           invite' \in [InviteIds -> InviteRow \cup {NoInvite}],
           MembersHaveAccounts',
           \A q \in Request : Sound(q) => Sound(q)'
    PROVE  IndInv'
<1>1. /\ req' \in [Requests -> Request]
      /\ \A s \in Requests : req'[s] = Idle \/ req'[s] = req[s]
  BY Ended DEF IndInv
<1>2. TypeOK'
  BY <1>1 DEF IndInv, TypeOK
<1>3. ASSUME NEW s \in Requests PROVE Sound(req[s])'
  <2>1. Sound(req'[s]) /\ req'[s] \in Request
    BY <1>1, IdleIsSound DEF IndInv
  <2>2. ASSUME NEW q \in Request, q = req'[s] PROVE Sound(q)'
    BY <2>1, <2>2
  <2> QED
    BY <2>1, <2>2 DEF Sound
<1> QED
  BY <1>2, <1>3 DEF IndInv

LEMMA CommitAdmission ==
    ASSUME IndInv, NEW r \in Requests, CommitAddMember(r) \/ CommitAcceptInvite(r)
    PROVE  IndInv'
<1> DEFINE p == req[r].who
           i == req[r].inv
<1>1. /\ p \in People /\ req[r].role \in Roles
      /\ CommitAcceptInvite(r) => /\ ~req[r].gone => p \in account
                                  /\ i \in InviteIds /\ invite[i] # NoInvite
  BY DEF IndInv, Sound, CommitAddMember, CommitAcceptInvite, Writing, Ops, SeatOps, MemberOps,
         InviteOps
<1>2. /\ End(r) /\ UNCHANGED <<account, plan>>
      /\ \/ role' = role
         \/ role' = [role EXCEPT ![p] = req[r].role] /\ role[p] = NoRole /\ p \in account
      /\ \/ invite' = invite
         \/ i \in InviteIds /\ invite[i] # NoInvite
            /\ invite' = [invite EXCEPT ![i].status = "accepted"]
  BY <1>1 DEF CommitAddMember, CommitAcceptInvite
<1> HIDE DEF p, i
<1>3. role' \in [People -> Roles \cup {NoRole}]
  BY <1>1, <1>2 DEF IndInv, TypeOK
<1>4. invite' \in [InviteIds -> InviteRow \cup {NoInvite}]
  BY <1>2 DEF IndInv, TypeOK, InviteRow
<1>5. MembersHaveAccounts'
  BY <1>1, <1>2 DEF IndInv, TypeOK, MembersHaveAccounts, Members
<1>6. \A x \in People : role[x] # NoRole => role'[x] # NoRole
  BY <1>1, <1>2 DEF IndInv, TypeOK, Roles, NoRole
<1>7. \A j \in InviteIds : invite[j] # NoInvite =>
         /\ invite'[j] # NoInvite
         /\ invite'[j].email = invite[j].email /\ invite'[j].role = invite[j].role
  BY <1>2 DEF IndInv, TypeOK, InviteRow, NoInvite
<1>8. ASSUME NEW q \in Request, Sound(q) PROVE Sound(q)'
  BY <1>2, <1>6, <1>7, <1>8 DEF Sound, Ops, SeatOps, MemberOps, InviteOps
<1> QED
  BY <1>2, <1>3, <1>4, <1>5, <1>8, AfterEnd DEF IndInv, TypeOK

LEMMA CommitRole ==
    ASSUME IndInv, NEW r \in Requests, CommitUpdateRole(r)
    PROVE  IndInv'
<1> DEFINE p == req[r].who
<1>1. p \in People /\ req[r].role \in Roles /\ (~req[r].gone => role[p] # NoRole)
  BY DEF IndInv, Sound, CommitUpdateRole, Writing, Ops, SeatOps, MemberOps, InviteOps
<1>2. /\ End(r) /\ UNCHANGED <<account, plan, invite>>
      /\ \/ role' = role
         \/ role' = [role EXCEPT ![p] = req[r].role] /\ role[p] # NoRole
  <2>1. CASE req[r].gone
    BY <2>1 DEF CommitUpdateRole
  <2>2. CASE ~req[r].gone
    BY <1>1, <2>2 DEF CommitUpdateRole
  <2> QED
    BY <2>1, <2>2
<1> HIDE DEF p
<1>3. role' \in [People -> Roles \cup {NoRole}]
  BY <1>1, <1>2 DEF IndInv, TypeOK
<1>4. \A x \in People : role[x] # NoRole <=> role'[x] # NoRole
  BY <1>1, <1>2 DEF IndInv, TypeOK, Roles, NoRole
<1>5. MembersHaveAccounts'
  BY <1>2, <1>4 DEF IndInv, MembersHaveAccounts, Members
<1>6. ASSUME NEW q \in Request, Sound(q) PROVE Sound(q)'
  BY <1>2, <1>4, <1>6 DEF Sound, Ops, SeatOps, MemberOps, InviteOps
<1> QED
  BY <1>2, <1>3, <1>5, <1>6, AfterEnd DEF IndInv, TypeOK

LEMMA CommitInviteRow ==
    ASSUME IndInv, NEW r \in Requests,
           \/ \E i \in InviteIds : CommitCreateInvite(r, i)
           \/ CommitRevokeInvite(r)
           \/ CommitResendInvite(r)
    PROVE  IndInv'
<1>1. /\ End(r) /\ UNCHANGED <<account, role, plan>>
  BY DEF CommitCreateInvite, CommitRevokeInvite, CommitResendInvite
<1>2. invite' \in [InviteIds -> InviteRow \cup {NoInvite}]
  <2>1. CASE \E i \in InviteIds : CommitCreateInvite(r, i)
    <3>1. req[r].who \in People /\ req[r].role \in Roles
      BY <2>1 DEF IndInv, Sound, CommitCreateInvite, Writing, Ops, SeatOps, MemberOps, InviteOps
    <3> QED
      BY <2>1, <3>1 DEF CommitCreateInvite, IndInv, TypeOK, InviteRow
  <2>2. CASE CommitRevokeInvite(r) \/ CommitResendInvite(r)
    <3>1. req[r].inv \in InviteIds /\ invite[req[r].inv] # NoInvite
      BY <2>2 DEF IndInv, Sound, CommitRevokeInvite, CommitResendInvite, Writing, InviteOps
    <3> DEFINE i == req[r].inv
    <3>2. \/ invite' = invite
          \/ invite' = [invite EXCEPT ![i].status = "revoked"]
          \/ invite' = [invite EXCEPT ![i].live = TRUE]
      BY <2>2 DEF CommitRevokeInvite, CommitResendInvite
    <3>3. invite[i] \in InviteRow /\ invite \in [InviteIds -> InviteRow \cup {NoInvite}]
      BY <3>1 DEF IndInv, TypeOK
    <3>4. /\ [invite[i] EXCEPT !.status = "revoked"] \in InviteRow
          /\ [invite[i] EXCEPT !.live = TRUE] \in InviteRow
      BY <3>3 DEF InviteRow
    <3> HIDE DEF i
    <3> QED
      BY <3>2, <3>3, <3>4
  <2> QED
    BY <2>1, <2>2
<1>3. \A j \in InviteIds : invite[j] # NoInvite =>
         /\ invite'[j] # NoInvite
         /\ invite'[j].email = invite[j].email /\ invite'[j].role = invite[j].role
  BY DEF CommitCreateInvite, CommitRevokeInvite, CommitResendInvite, IndInv, TypeOK, InviteRow,
         NoInvite
<1>4. MembersHaveAccounts'
  BY <1>1 DEF IndInv, MembersHaveAccounts, Members
<1>5. ASSUME NEW q \in Request, Sound(q) PROVE Sound(q)'
  BY <1>1, <1>3, <1>5 DEF Sound, Ops, SeatOps, MemberOps, InviteOps
<1> QED
  BY <1>1, <1>2, <1>4, <1>5, AfterEnd DEF IndInv, TypeOK

\* A commit that deletes rows, and marks as gone the requests that hold them.
LEMMA AfterDeleting ==
    ASSUME IndInv, NEW r \in Requests, NEW p \in People, NEW holders \in SUBSET Requests,
           EndDeleting(r, holders), UNCHANGED <<invite, plan>>,
           role' = [role EXCEPT ![p] = NoRole],
           \/ account' = account /\ holders = HoldersOfMembership(p)
           \/ account' = account \ {p} /\ holders = HoldersOfAccount(p)
    PROVE  IndInv'
<1>1. /\ req' \in [Requests -> Request]
      /\ req'[r] = Idle
      /\ \A s \in Requests \ {r} :
           /\ s \notin holders => req'[s] = req[s]
           /\ s \in holders => req'[s] = [req[s] EXCEPT !.gone = TRUE]
  BY EndedDeleting DEF IndInv
<1>2. TypeOK'
  BY <1>1 DEF IndInv, TypeOK
<1>3. MembersHaveAccounts'
  BY DEF IndInv, TypeOK, MembersHaveAccounts, Members
<1>4. \A x \in People \ {p} : role'[x] = role[x]
  BY DEF IndInv, TypeOK
<1>5. Sound(req[r])'
  BY <1>1, IdleIsSound DEF Sound, Idle, Ops, SeatOps, MemberOps, InviteOps
<1>6. ASSUME NEW s \in Requests \ {r}, s \in holders PROVE Sound(req[s])'
  <2>1. Sound(req[s]) /\ req[s] \in Request
    BY DEF IndInv, TypeOK
  <2>2. /\ req'[s].op = req[s].op /\ req'[s].who = req[s].who /\ req'[s].role = req[s].role
        /\ req'[s].inv = req[s].inv /\ req'[s].gone
    BY <1>1, <1>6, <2>1, GoneRequest
  <2> QED
    BY <2>1, <2>2 DEF Sound
<1>7. ASSUME NEW s \in Requests \ {r}, s \notin holders PROVE Sound(req[s])'
  <2>1. Sound(req[s]) /\ req[s] \in Request /\ req'[s] = req[s]
    BY <1>1, <1>7 DEF IndInv, TypeOK
  <2>2. req[s].op \in MemberOps => req[s].who # p
    BY <1>7 DEF HoldersOfMembership, HoldersOfAccount, MemberOps
  <2>3. req[s].op \in {"accept", "drop"} /\ ~req[s].gone => req[s].who \in account'
    BY <1>7, <2>1 DEF HoldersOfMembership, HoldersOfAccount, Sound
  <2>4. req[s].op \in MemberOps => req[s].who \in People \ {p}
    BY <2>1, <2>2 DEF Sound, Ops, MemberOps
  <2> QED
    BY <1>4, <2>1, <2>3, <2>4 DEF Sound
<1> QED
  BY <1>2, <1>3, <1>5, <1>6, <1>7 DEF IndInv

LEMMA CommitDeletion ==
    ASSUME IndInv, NEW r \in Requests, CommitDelete(r) \/ CommitDropAccount(r)
    PROVE  IndInv'
<1> DEFINE p == req[r].who
<1>1. p \in People
  BY DEF IndInv, Sound, CommitDelete, CommitDropAccount, Writing, Ops, MemberOps
<1>2. /\ HoldersOfMembership(p) \in SUBSET Requests
      /\ HoldersOfAccount(p) \in SUBSET Requests
  BY DEF HoldersOfMembership, HoldersOfAccount
<1>3. CASE req[r].gone
  <2>1. End(r) /\ UNCHANGED <<account, role, invite, plan>>
    BY <1>3 DEF CommitDelete, CommitDropAccount
  <2> QED
    BY <2>1, IdleIsSound, ReplaceRequest DEF End
<1>4. CASE ~req[r].gone /\ CommitDelete(r)
  <2>1. /\ EndDeleting(r, HoldersOfMembership(p)) /\ UNCHANGED <<account, invite, plan>>
        /\ role' = [role EXCEPT ![p] = NoRole]
    BY <1>4 DEF CommitDelete
  <2> HIDE DEF p
  <2> QED
    BY <1>1, <1>2, <2>1, AfterDeleting
<1>5. CASE ~req[r].gone /\ CommitDropAccount(r)
  <2>1. /\ EndDeleting(r, HoldersOfAccount(p)) /\ UNCHANGED <<invite, plan>>
        /\ role' = [role EXCEPT ![p] = NoRole] /\ account' = account \ {p}
    BY <1>5 DEF CommitDropAccount
  <2> HIDE DEF p
  <2> QED
    BY <1>1, <1>2, <2>1, AfterDeleting
<1> QED
  BY <1>3, <1>4, <1>5

LEMMA EnvironmentStep ==
    ASSUME IndInv, Environment
    PROVE  IndInv'
<1>1. req' = req /\ role' = role /\ account \subseteq account'
  BY DEF Environment, SignIn, Expire, ChangePlan
<1>2. /\ invite' \in [InviteIds -> InviteRow \cup {NoInvite}]
      /\ \A j \in InviteIds : invite[j] # NoInvite =>
           /\ invite'[j] # NoInvite
           /\ invite'[j].email = invite[j].email /\ invite'[j].role = invite[j].role
  <2>1. CASE \E i \in InviteIds : Expire(i)
    <3>1. PICK i \in InviteIds : Expire(i)
      BY <2>1
    <3>2. invite[i] \in InviteRow /\ invite \in [InviteIds -> InviteRow \cup {NoInvite}]
      BY <3>1 DEF Expire, IsPending, IndInv, TypeOK, NoInvite
    <3>3. LET e == [invite[i] EXCEPT !.live = FALSE] IN
          e \in InviteRow /\ e.email = invite[i].email /\ e.role = invite[i].role
      BY <3>2 DEF InviteRow
    <3>4. invite' = [invite EXCEPT ![i] = [invite[i] EXCEPT !.live = FALSE]]
      BY <3>1 DEF Expire
    <3>5. \A row \in InviteRow : row # NoInvite
      BY DEF InviteRow, NoInvite
    <3> QED
      BY <3>2, <3>3, <3>4, <3>5
  <2>2. CASE invite' = invite
    BY <2>2 DEF IndInv, TypeOK
  <2> QED
    BY <2>1, <2>2 DEF Environment, SignIn, ChangePlan
<1>3. TypeOK'
  <2>1. account' \in SUBSET People /\ plan' \in Plans
    BY DEF IndInv, TypeOK, Environment, SignIn, Expire, ChangePlan
  <2> QED
    BY <1>1, <1>2, <2>1 DEF IndInv, TypeOK
<1>4. MembersHaveAccounts'
  BY <1>1 DEF IndInv, MembersHaveAccounts, Members
<1>5. ASSUME NEW s \in Requests PROVE Sound(req[s])'
  <2>1. Sound(req[s]) /\ req[s] \in Request
    BY DEF IndInv, TypeOK
  <2>2. req'[s] = req[s]
    BY <1>1
  <2> QED
    BY <1>1, <1>2, <2>1, <2>2 DEF Sound, InviteOps
<1> QED
  BY <1>3, <1>4, <1>5 DEF IndInv

LEMMA InitInv == Init => IndInv
<1> SUFFICES ASSUME Init PROVE IndInv
  OBVIOUS
<1>1. TypeOK
  BY IdleIsSound DEF Init, TypeOK, Roles
<1>2. MembersHaveAccounts
  BY DEF Init, MembersHaveAccounts, Members
<1>3. \A r \in Requests : Sound(req[r])
  BY IdleIsSound DEF Init
<1> QED
  BY <1>1, <1>2, <1>3 DEF IndInv

LEMMA NextInv == IndInv /\ [Next]_vars => IndInv'
<1> SUFFICES ASSUME IndInv, [Next]_vars PROVE IndInv'
  OBVIOUS
<1>1. ASSUME NEW r \in Requests, Start(r) PROVE IndInv'
  BY <1>1, StartSeatOp, StartMemberOp, StartInviteOp, StartDrop DEF Start
<1>2. ASSUME NEW r \in Requests, CountInvites(r) PROVE IndInv'
  BY <1>2, CountStep
<1>3. ASSUME NEW r \in Requests, Commit(r) PROVE IndInv'
  BY <1>3, CommitAdmission, CommitRole, CommitInviteRow, CommitDeletion DEF Commit
<1>4. CASE Environment
  BY <1>4, EnvironmentStep
<1>5. CASE UNCHANGED vars
  BY <1>5 DEF vars, IndInv, TypeOK, MembersHaveAccounts, Members, Sound
<1> QED
  BY <1>1, <1>2, <1>3, <1>4, <1>5 DEF Next

\* The rows of the tables and the requests keep their types.
THEOREM TypeCorrect == Spec => []TypeOK
<1>1. IndInv => TypeOK
  BY DEF IndInv
<1> QED
  BY <1>1, InitInv, NextInv, PTL DEF Spec

\* Under any interleaving, a membership never outlives its user's account.
THEOREM AccountsCorrect == Spec => []MembersHaveAccounts
<1>1. IndInv => MembersHaveAccounts
  BY DEF IndInv
<1> QED
  BY <1>1, InitInv, NextInv, PTL DEF Spec

LEMMA OnlyCommitsWrite ==
    ASSUME NEW r \in Requests, Start(r) \/ CountInvites(r)
    PROVE  UNCHANGED <<account, role, invite, plan>>
<1>1. ASSUME NEW a \in People, NEW p \in People, NEW newRole \in AskedRoles,
             \/ StartAddMember(r, a, p, newRole)
             \/ StartUpdateRole(r, a, p, newRole)
             \/ StartCreateInvite(r, a, p, newRole)
      PROVE  UNCHANGED <<account, role, invite, plan>>
  BY <1>1 DEF StartAddMember, StartUpdateRole, StartCreateInvite
<1>2. ASSUME NEW a \in People, NEW p \in People,
             StartRemoveMember(r, a, p) \/ StartLeave(r, p) \/ StartDropAccount(r, p)
      PROVE  UNCHANGED <<account, role, invite, plan>>
  BY <1>2 DEF StartRemoveMember, StartLeave, StartDropAccount
<1>3. ASSUME NEW a \in People, NEW i \in InviteIds,
             StartRevokeInvite(r, a, i) \/ StartResendInvite(r, a, i) \/ StartAcceptInvite(r, a, i)
      PROVE  UNCHANGED <<account, role, invite, plan>>
  BY <1>3 DEF StartRevokeInvite, StartResendInvite, StartInviteUpdate, StartAcceptInvite
<1>4. CASE CountInvites(r)
  BY <1>4 DEF CountInvites
<1>5. CASE Start(r)
  BY <1>1, <1>2, <1>3, <1>5 DEF Start
<1> QED
  BY <1>4, <1>5

\* Who writes the status of an invite's row.
LEMMA StatusWriters ==
    ASSUME IndInv, NEW i \in InviteIds
    PROVE  /\ \A r \in Requests : CommitAddMember(r) \/ CommitUpdateRole(r) \/ CommitDelete(r)
                                  \/ CommitResendInvite(r) \/ CommitDropAccount(r)
                                    => invite'[i].status = invite[i].status
           /\ Environment => invite'[i].status = invite[i].status
           /\ \A r \in Requests : CommitRevokeInvite(r)
                => invite'[i].status = invite[i].status
                   \/ (i = req[r].inv /\ invite'[i].status = "revoked")
           /\ \A r \in Requests, j \in InviteIds : CommitCreateInvite(r, j)
                => invite'[i].status = invite[i].status
                   \/ (invite[i] = NoInvite /\ invite'[i].status = "pending")
           /\ \A r \in Requests : CommitAcceptInvite(r)
                => invite'[i].status = invite[i].status
                   \/ (i = req[r].inv /\ invite'[i].status = "accepted")
<1>1. invite \in [InviteIds -> InviteRow \cup {NoInvite}]
  BY DEF IndInv, TypeOK
<1>2. ASSUME NEW r \in Requests, CommitResendInvite(r)
      PROVE  invite'[i].status = invite[i].status
  BY <1>1, <1>2 DEF CommitResendInvite, InviteRow, NoInvite
<1>3. ASSUME NEW r \in Requests,
             CommitAddMember(r) \/ CommitUpdateRole(r) \/ CommitDelete(r) \/ CommitDropAccount(r)
      PROVE  invite'[i].status = invite[i].status
  BY <1>3 DEF CommitAddMember, CommitUpdateRole, CommitDelete, CommitDropAccount
<1>4. Environment => invite'[i].status = invite[i].status
  BY <1>1 DEF Environment, SignIn, Expire, ChangePlan, InviteRow, NoInvite
<1>5. ASSUME NEW r \in Requests, CommitRevokeInvite(r)
      PROVE  invite'[i].status = invite[i].status
             \/ (i = req[r].inv /\ invite'[i].status = "revoked")
  BY <1>1, <1>5 DEF CommitRevokeInvite, InviteRow, NoInvite
<1>6. ASSUME NEW r \in Requests, NEW j \in InviteIds, CommitCreateInvite(r, j)
      PROVE  invite'[i].status = invite[i].status
             \/ (invite[i] = NoInvite /\ invite'[i].status = "pending")
  BY <1>1, <1>6 DEF CommitCreateInvite, InviteRow, NoInvite
<1>7. ASSUME NEW r \in Requests, CommitAcceptInvite(r)
      PROVE  invite'[i].status = invite[i].status
             \/ (i = req[r].inv /\ invite'[i].status = "accepted")
  BY <1>1, <1>7 DEF CommitAcceptInvite, InviteRow, NoInvite
<1> QED
  BY <1>2, <1>3, <1>4, <1>5, <1>6, <1>7

\* A request that was about to accept is ended by no step but its own commit.
LEMMA AcceptEnds ==
    ASSUME IndInv, [Next]_vars, NEW r \in Requests, Writing(r, "accept"), req'[r] = Idle
    PROVE  CommitAcceptInvite(r)
<1>1. req[r] \in Request /\ req[r].pc = "writing" /\ req[r].op = "accept" /\ req'[r] # req[r]
  BY DEF IndInv, TypeOK, Writing, Idle
<1>2. TypeOK
  BY DEF IndInv
<1>3. ASSUME NEW s \in Requests, Start(s) \/ CountInvites(s) PROVE FALSE
  <2>1. CASE s = r
    BY <1>1, <1>3, <2>1 DEF Start, CountInvites, StartAddMember, StartUpdateRole,
       StartCreateInvite, StartRemoveMember, StartLeave, StartDropAccount, StartRevokeInvite,
       StartResendInvite, StartInviteUpdate, StartAcceptInvite, Begin
  <2>2. CASE s # r
    <3>1. req'[r] = req[r]
      BY <1>3, <2>2 DEF Start, CountInvites, StartAddMember, StartUpdateRole,
         StartCreateInvite, StartRemoveMember, StartLeave, StartDropAccount, StartRevokeInvite,
         StartResendInvite, StartInviteUpdate, StartAcceptInvite, Begin, IndInv, TypeOK
    <3> QED
      BY <1>1, <3>1
  <2> QED
    BY <2>1, <2>2
<1>4. ASSUME NEW s \in Requests, Commit(s), s # r PROVE FALSE
  <2>1. End(s) \/ \E H \in SUBSET Requests : EndDeleting(s, H)
    <3>1. \/ End(s)
          \/ EndDeleting(s, HoldersOfMembership(req[s].who))
          \/ EndDeleting(s, HoldersOfAccount(req[s].who))
      BY <1>4 DEF Commit, CommitAddMember, CommitUpdateRole, CommitDelete, CommitCreateInvite,
         CommitRevokeInvite, CommitResendInvite, CommitAcceptInvite, CommitDropAccount
    <3> QED
      BY <3>1 DEF HoldersOfMembership, HoldersOfAccount
  <2>2. CASE End(s)
    BY <1>1, <1>2, <1>4, <2>2, Ended
  <2>3. ASSUME NEW H \in SUBSET Requests, EndDeleting(s, H) PROVE FALSE
    <3>1. req'[r] = req[r] \/ req'[r] = [req[r] EXCEPT !.gone = TRUE]
      BY <1>2, <1>4, <2>3, EndedDeleting
    <3>2. req'[r].op = "accept"
      BY <1>1, <3>1, GoneRequest
    <3> QED
      BY <3>2 DEF Idle
  <2> QED
    BY <2>1, <2>2, <2>3
<1>5. Commit(r)
  BY <1>1, <1>3, <1>4 DEF Next, vars, Environment, SignIn, Expire, ChangePlan
<1> QED
  BY <1>1, <1>5 DEF Commit, CommitAddMember, CommitUpdateRole, CommitDelete, CommitCreateInvite,
     CommitRevokeInvite, CommitResendInvite, CommitDropAccount, Writing

\* What the commit of an accept does, if it does anything.
LEMMA AcceptCommits ==
    ASSUME IndInv, NEW r \in Requests, CommitAcceptInvite(r)
    PROVE  UNCHANGED <<role, invite>> \/ Admits(req[r].inv)
<1>1. /\ req[r].who \in People /\ req[r].inv \in InviteIds
      /\ invite[req[r].inv].email = req[r].who /\ invite[req[r].inv].role = req[r].role
  BY DEF IndInv, Sound, CommitAcceptInvite, Writing, Ops, InviteOps, MemberOps, SeatOps
<1> QED
  BY <1>1 DEF CommitAcceptInvite, Admits

\* Under any interleaving, a commit of accept_invite does nothing or both admits the invite's
\* addressee, who was no member, and leaves the invite accepted; and no other step makes an
\* invite accepted.
THEOREM AcceptIsAtomicCorrect == Spec => AcceptIsAtomic
<1>1. ASSUME IndInv, [Next]_vars PROVE AcceptAdmits \/ UNCHANGED vars
  <2>1. ASSUME NEW r \in Requests, Writing(r, "accept"), req'[r] = Idle
        PROVE  UNCHANGED <<role, invite>> \/ Admits(req[r].inv)
    BY <1>1, <2>1, AcceptEnds, AcceptCommits
  <2>2. ASSUME NEW i \in InviteIds, invite[i].status # "accepted", invite'[i].status = "accepted"
        PROVE  \E r \in Requests : Writing(r, "accept") /\ req[r].inv = i /\ Admits(i)
    <3>1. PICK r \in Requests : CommitAcceptInvite(r)
      <4>1. \A r \in Requests : Start(r) \/ CountInvites(r) => invite' = invite
        BY OnlyCommitsWrite
      <4>2. ASSUME NEW r \in Requests, Commit(r), ~CommitAcceptInvite(r) PROVE FALSE
        BY <1>1, <2>2, <4>2, StatusWriters DEF Commit
      <4>3. Environment => invite'[i].status = invite[i].status
        BY <1>1, StatusWriters
      <4> QED
        BY <1>1, <2>2, <4>1, <4>2, <4>3 DEF Next, vars
    <3>2. i = req[r].inv
      BY <1>1, <2>2, <3>1, StatusWriters
    <3>3. Admits(i)
      BY <1>1, <2>2, <3>1, <3>2, AcceptCommits
    <3> QED
      BY <3>1, <3>2, <3>3 DEF CommitAcceptInvite
  <2> QED
    BY <2>1, <2>2 DEF AcceptAdmits
<1> QED
  BY <1>1, InitInv, NextInv, PTL DEF Spec, AcceptIsAtomic

\* Under any interleaving, a role change never makes a member of a person who is none.
THEOREM NoReviveCorrect == Spec => NoReviveByRoleChange
<1>1. ASSUME IndInv, [Next]_vars PROVE AdmittedByAddOrAccept \/ UNCHANGED vars
  <2> SUFFICES ASSUME NEW p \in People, role[p] = NoRole, role'[p] # NoRole
               PROVE  \E r \in Requests :
                          req[r].who = p /\ (Writing(r, "add") \/ Writing(r, "accept"))
    BY DEF AdmittedByAddOrAccept
  <2>1. PICK r \in Requests : Commit(r)
    BY <1>1, OnlyCommitsWrite DEF Next, vars, Environment, SignIn, Expire, ChangePlan
  <2>2. ~CommitUpdateRole(r)
    <3> SUFFICES ASSUME CommitUpdateRole(r) PROVE FALSE
      OBVIOUS
    <3>1. ~req[r].gone => role[req[r].who] # NoRole
      BY <1>1 DEF IndInv, Sound, CommitUpdateRole, Writing, MemberOps
    <3> QED
      BY <1>1, <3>1 DEF CommitUpdateRole, IndInv, TypeOK
  <2>3. CommitAddMember(r) \/ CommitAcceptInvite(r)
    BY <1>1, <2>1, <2>2 DEF Commit, CommitDelete, CommitCreateInvite, CommitRevokeInvite,
                            CommitResendInvite, CommitDropAccount, IndInv, TypeOK
  <2> QED
    BY <1>1, <2>3 DEF CommitAddMember, CommitAcceptInvite, Writing, IndInv, TypeOK
<1> QED
  BY <1>1, InitInv, NextInv, PTL DEF Spec, NoReviveByRoleChange

---------------------------------------------------------------------------
(***************************************************************************)
(* Requests that do not overlap.  Between the guard and the commit of a    *)
(* request nothing but the environment moves, so what the guard read is    *)
(* still true: another owner exists, the invite is still pending.          *)
(***************************************************************************)
StillHolds(q) ==
    /\ q.op \in MemberOps /\ ~(q.op = "role" /\ q.role = "owner") /\ role[q.who] = "owner"
         => Owners \ {q.who} # {}
    /\ q.op \in InviteOps => invite[q.inv].status = "pending"

SerialInv == IndInv /\ \A r \in Requests : StillHolds(req[r])

LEMMA IdleStillHolds == StillHolds(Idle)
  BY DEF StillHolds, Idle, MemberOps, InviteOps

\* The count of owners is what makes the guard of the last owner right.
LEMMA AnotherOwner ==
    ASSUME TypeOK, NEW p \in People, OwnerMayGo(p), role[p] = "owner"
    PROVE  Owners \ {p} # {}
<1> SUFFICES ASSUME Owners \ {p} = {} PROVE FALSE
  OBVIOUS
<1>1. Owners \subseteq {p}
  OBVIOUS
<1>2. IsFiniteSet({p}) /\ Cardinality({p}) = 1
  BY FS_Singleton
<1>3. Cardinality(Owners) <= 1 /\ Cardinality(Owners) \in Nat
  BY <1>1, <1>2, FS_Subset, SeatsAreFinite
<1> QED
  BY <1>3 DEF OwnerMayGo

LEMMA SerialStart ==
    ASSUME Serial, SerialInv, NEW r \in Requests, Start(r)
    PROVE  StillHolds(req[r])'
<1>1. /\ UNCHANGED <<account, role, invite, plan>>
      /\ TypeOK
      /\ r \in DOMAIN req
  BY OnlyCommitsWrite DEF SerialInv, IndInv, TypeOK
<1>2. ASSUME NEW a \in People, NEW p \in People, NEW newRole \in AskedRoles,
             StartUpdateRole(r, a, p, newRole)
      PROVE  StillHolds(req[r])'
  <2>1. req'[r].op = "role" /\ req'[r].who = p
    BY <1>1, <1>2 DEF StartUpdateRole, Begin, Idle
  <2>2. role[p] = "owner" => Owners \ {p} # {}
    BY <1>1, <1>2, AnotherOwner DEF StartUpdateRole
  <2> QED
    BY <1>1, <2>1, <2>2 DEF StillHolds, Owners, InviteOps
<1>3. ASSUME NEW a \in People, NEW p \in People, StartRemoveMember(r, a, p) \/ StartLeave(r, p)
      PROVE  StillHolds(req[r])'
  <2>1. req'[r].op \in {"remove", "leave"} /\ req'[r].who = p
    BY <1>1, <1>3 DEF StartRemoveMember, StartLeave, Begin, Idle
  <2>2. role[p] = "owner" => Owners \ {p} # {}
    BY <1>1, <1>3, AnotherOwner DEF StartRemoveMember, StartLeave
  <2> QED
    BY <1>1, <2>1, <2>2 DEF StillHolds, Owners, InviteOps
<1>4. ASSUME NEW a \in People, NEW i \in InviteIds,
             StartRevokeInvite(r, a, i) \/ StartResendInvite(r, a, i) \/ StartAcceptInvite(r, a, i)
      PROVE  StillHolds(req[r])'
  <2>1. req'[r].op \in InviteOps /\ req'[r].inv = i /\ invite[i].status = "pending"
    <3>1. CASE StartRevokeInvite(r, a, i) \/ StartResendInvite(r, a, i)
      BY <1>1, <3>1 DEF StartRevokeInvite, StartResendInvite, StartInviteUpdate, Begin, Idle,
                        IsPending, InviteOps
    <3>2. CASE StartAcceptInvite(r, a, i)
      BY <1>1, <3>2 DEF StartAcceptInvite, Begin, Idle, IsPending, InviteOps
    <3> QED
      BY <1>4, <3>1, <3>2
  <2> QED
    BY <1>1, <2>1 DEF StillHolds, InviteOps, MemberOps
<1>5. ASSUME NEW a \in People, NEW p \in People, NEW newRole \in AskedRoles,
             \/ StartAddMember(r, a, p, newRole)
             \/ StartCreateInvite(r, a, p, newRole)
      PROVE  StillHolds(req[r])'
  <2>1. req'[r].op \in {"add", "invite"}
    BY <1>1, <1>5 DEF StartAddMember, StartCreateInvite, Begin, Idle
  <2> QED
    BY <2>1 DEF StillHolds, MemberOps, InviteOps
<1>6. ASSUME NEW p \in People, StartDropAccount(r, p)
      PROVE  StillHolds(req[r])'
  <2>1. req'[r].op = "drop"
    BY <1>1, <1>6 DEF StartDropAccount, Begin, Idle
  <2> QED
    BY <2>1 DEF StillHolds, MemberOps, InviteOps
<1> QED
  BY <1>2, <1>3, <1>4, <1>5, <1>6 DEF Start

LEMMA CommitEnds ==
    ASSUME IndInv, NEW r \in Requests, Commit(r)
    PROVE  req'[r] = Idle
  BY DEF Commit, CommitAddMember, CommitUpdateRole, CommitDelete, CommitCreateInvite,
         CommitRevokeInvite, CommitResendInvite, CommitAcceptInvite, CommitDropAccount, End,
         EndDeleting, IndInv, TypeOK

LEMMA SerialNext == ASSUME Serial PROVE SerialInv /\ [Next]_vars => SerialInv'
<1> SUFFICES ASSUME SerialInv, [Next]_vars PROVE SerialInv'
  OBVIOUS
<1>1. IndInv /\ IndInv'
  BY NextInv DEF SerialInv
<1>2. ASSUME NEW r \in Requests, Start(r) PROVE \A s \in Requests : StillHolds(req[s])'
  BY <1>2, SerialStart DEF Serial
<1>3. ASSUME NEW r \in Requests, CountInvites(r) PROVE \A s \in Requests : StillHolds(req[s])'
  <2>1. UNCHANGED <<account, role, invite, plan>> /\ req[r] \in Request
    BY <1>1, <1>3, OnlyCommitsWrite DEF IndInv, TypeOK
  <2>2. \/ req'[r] = Idle
        \/ /\ req'[r].op = req[r].op /\ req'[r].who = req[r].who
           /\ req'[r].role = req[r].role /\ req'[r].inv = req[r].inv
    BY <1>1, <1>3, <2>1 DEF CountInvites, IndInv, TypeOK, Request
  <2>3. StillHolds(req[r])'
    <3>1. StillHolds(req[r])
      BY DEF SerialInv
    <3> QED
      BY <2>1, <2>2, <3>1, IdleStillHolds DEF StillHolds, Owners
  <2> QED
    BY <2>3 DEF Serial
<1>4. ASSUME NEW r \in Requests, Commit(r) PROVE \A s \in Requests : StillHolds(req[s])'
  <2>1. req'[r] = Idle
    BY <1>1, <1>4, CommitEnds
  <2>2. StillHolds(req[r])'
    BY <2>1 DEF StillHolds, Idle, MemberOps, InviteOps
  <2> QED
    BY <2>2 DEF Serial
<1>5. ASSUME Environment PROVE \A s \in Requests : StillHolds(req[s])'
  <2> SUFFICES ASSUME NEW s \in Requests PROVE StillHolds(req[s])'
    OBVIOUS
  <2>1. req'[s] = req[s] /\ role' = role
    BY <1>5 DEF Environment, SignIn, Expire, ChangePlan
  <2>2. StillHolds(req[s]) /\ Sound(req[s])
    BY DEF SerialInv, IndInv
  <2>3. \A i \in InviteIds : invite'[i].status = invite[i].status
    BY <1>1, <1>5, StatusWriters
  <2> QED
    BY <2>1, <2>2, <2>3 DEF StillHolds, Sound, Owners
<1>6. ASSUME UNCHANGED vars PROVE \A s \in Requests : StillHolds(req[s])'
  BY <1>6 DEF vars, SerialInv, StillHolds, Owners
<1> QED
  BY <1>1, <1>2, <1>3, <1>4, <1>5, <1>6 DEF Next, SerialInv

LEMMA SerialInit == Init => SerialInv
<1>1. Init => \A r \in Requests : req[r] = Idle
  BY DEF Init
<1> QED
  BY <1>1, InitInv, IdleStillHolds DEF SerialInv

\* Without overlapping requests a workspace keeps an owner, whatever the number of
\* people, invites and plans: the guard of workspaces.py is right, and only the
\* isolation of its check from its commit is missing.
THEOREM OwnersCorrect == ASSUME Serial PROVE Spec => OwnersNeverLost
<1>1. ASSUME SerialInv, [Next]_vars PROVE KeepsAnOwner \/ UNCHANGED vars
  <2> SUFFICES ASSUME Owners # {}, Owners' = {}, account' = account PROVE FALSE
    BY DEF KeepsAnOwner
  <2>1. IndInv /\ TypeOK
    BY <1>1 DEF SerialInv, IndInv
  <2>2. PICK r \in Requests : Commit(r)
    <3>1. role' # role
      BY DEF Owners
    <3> QED
      BY <1>1, <3>1, OnlyCommitsWrite DEF Next, vars, Environment, SignIn, Expire, ChangePlan
  <2> DEFINE p == req[r].who
  <2>3. CASE CommitAddMember(r) \/ CommitAcceptInvite(r)
    <3>1. role' = role \/ (role[p] = NoRole /\ role' = [role EXCEPT ![p] = req[r].role])
      BY <2>3 DEF CommitAddMember, CommitAcceptInvite
    <3>2. \A x \in Owners : x \in Owners'
      BY <2>1, <3>1 DEF Owners, NoRole, TypeOK
    <3> QED
      BY <3>2
  <2>4. CASE CommitUpdateRole(r) \/ (CommitDelete(r) /\ ~req[r].gone)
    <3>1. /\ req[r].op \in MemberOps /\ StillHolds(req[r])
          /\ \/ role' = role
             \/ role' = [role EXCEPT ![p] = req[r].role]
             \/ role' = [role EXCEPT ![p] = NoRole] /\ req[r].op # "role"
      BY <1>1, <2>4 DEF CommitUpdateRole, CommitDelete, Writing, MemberOps, SerialInv
    <3>2. \A x \in Owners \ {p} : x \in Owners'
      BY <2>1, <3>1 DEF Owners, TypeOK
    <3>3. Owners \ {p} = {}
      BY <3>2
    <3>4. role[p] = "owner" /\ p \in People
      BY <3>3 DEF Owners
    <3>5. req[r].op = "role" /\ req[r].role = "owner"
      BY <3>1, <3>3, <3>4 DEF StillHolds
    <3>6. role' = role \/ role' = [role EXCEPT ![p] = "owner"]
      BY <3>1, <3>5
    <3>7. p \in Owners'
      BY <2>1, <3>4, <3>6 DEF Owners, TypeOK
    <3> QED
      BY <3>7
  <2>5. CASE CommitDropAccount(r) /\ ~req[r].gone
    <3>1. p \in account
      BY <2>1, <2>5 DEF IndInv, Sound, CommitDropAccount, Writing
    <3> QED
      BY <2>5, <3>1 DEF CommitDropAccount
  <2>6. CASE UNCHANGED role
    BY <2>6 DEF Owners
  <2> QED
    BY <2>2, <2>3, <2>4, <2>5, <2>6 DEF Commit, CommitDelete, CommitDropAccount,
       CommitCreateInvite, CommitRevokeInvite, CommitResendInvite
<1> QED
  BY <1>1, SerialInit, SerialNext, PTL DEF Spec, OwnersNeverLost

\* Without overlapping requests an invite's outcome is final, and an invite admits a member at
\* most once.
THEOREM OutcomesCorrect == ASSUME Serial PROVE Spec => InviteSettledOnce
<1>1. ASSUME SerialInv, [Next]_vars PROVE KeepsOutcomes \/ UNCHANGED vars
  <2> SUFFICES ASSUME NEW i \in InviteIds, invite[i].status \in {"accepted", "revoked"},
                      invite'[i].status # invite[i].status
               PROVE  FALSE
    BY DEF KeepsOutcomes
  <2>1. IndInv
    BY <1>1 DEF SerialInv
  <2>2. PICK r \in Requests : Commit(r)
    BY <1>1, <2>1, OnlyCommitsWrite, StatusWriters DEF Next, vars
  <2>3. ~\E j \in InviteIds : CommitCreateInvite(r, j)
    BY <2>1, StatusWriters DEF NoInvite
  <2>4. CommitRevokeInvite(r) \/ CommitAcceptInvite(r)
    BY <2>1, <2>2, <2>3, StatusWriters DEF Commit
  <2>5. i = req[r].inv
    BY <2>1, <2>4, StatusWriters
  <2>6. req[r].op \in InviteOps
    BY <2>4 DEF CommitRevokeInvite, CommitAcceptInvite, Writing, InviteOps
  <2> QED
    BY <1>1, <2>5, <2>6 DEF SerialInv, StillHolds
<1>2. ASSUME SerialInv, [Next]_vars PROVE AdmitsFromPending
  BY <1>2 DEF AdmitsFromPending, SerialInv, StillHolds, Writing, InviteOps
<1> QED
  BY <1>1, <1>2, SerialInit, SerialNext, PTL DEF Spec, InviteSettledOnce
---------------------------------------------------------------------------
(***************************************************************************)
(* Seats, when requests do not overlap.  The first query of the seat count *)
(* and the second are apart, but between them, and up to the commit, seats *)
(* are only given back: an invite expires.                                 *)
(***************************************************************************)
Reserved(q) ==
    /\ q.pc = "counting" => Cardinality(Members) <= q.seats
    /\ q.pc = "writing" /\ q.op \in SeatOps => UnderLimit(SeatsInUse, q.limit)

SeatInv == IndInv /\ \A r \in Requests : Reserved(req[r])

LEMMA SeatStart ==
    ASSUME SeatInv, NEW r \in Requests, Start(r)
    PROVE  Reserved(req[r])'
<1>1. role' = role /\ r \in DOMAIN req
  BY OnlyCommitsWrite DEF SeatInv, IndInv, TypeOK
<1>2. ASSUME NEW a \in People, NEW p \in People, NEW newRole \in AskedRoles,
             StartAddMember(r, a, p, newRole) \/ StartCreateInvite(r, a, p, newRole)
      PROVE  Reserved(req[r])'
  <2>1. req'[r].pc = "counting" /\ req'[r].seats = Cardinality(Members)
    BY <1>1, <1>2 DEF StartAddMember, StartCreateInvite, Begin, Idle
  <2>2. Members' = Members /\ Cardinality(Members) \in Nat
    BY <1>1, SeatsAreFinite DEF Members, SeatInv, IndInv
  <2> QED
    BY <2>1, <2>2 DEF Reserved
<1>3. ASSUME NEW op, op \notin SeatOps, req'[r].pc = "writing", req'[r].op = op
      PROVE  Reserved(req[r])'
  BY <1>3 DEF Reserved
<1>4. ASSUME NEW a \in People, NEW p \in People, NEW newRole \in AskedRoles,
             StartUpdateRole(r, a, p, newRole)
      PROVE  Reserved(req[r])'
  <2>1. req'[r].pc = "writing" /\ req'[r].op = "role"
    BY <1>1, <1>4 DEF StartUpdateRole, Begin, Idle
  <2> QED
    BY <1>3, <2>1 DEF SeatOps
<1>5. ASSUME NEW a \in People, NEW p \in People, StartRemoveMember(r, a, p) \/ StartLeave(r, p)
      PROVE  Reserved(req[r])'
  <2>1. req'[r].pc = "writing" /\ req'[r].op \in {"remove", "leave"}
    BY <1>1, <1>5 DEF StartRemoveMember, StartLeave, Begin, Idle
  <2> QED
    BY <1>3, <2>1 DEF SeatOps
<1>6. ASSUME NEW p \in People, StartDropAccount(r, p)
      PROVE  Reserved(req[r])'
  <2>1. req'[r].pc = "writing" /\ req'[r].op = "drop"
    BY <1>1, <1>6 DEF StartDropAccount, Begin, Idle
  <2> QED
    BY <1>3, <2>1 DEF SeatOps
<1>7. ASSUME NEW a \in People, NEW i \in InviteIds,
             StartRevokeInvite(r, a, i) \/ StartResendInvite(r, a, i) \/ StartAcceptInvite(r, a, i)
      PROVE  Reserved(req[r])'
  <2>1. req'[r].pc = "writing" /\ req'[r].op \in {"revoke", "resend", "accept"}
    <3>1. CASE StartRevokeInvite(r, a, i) \/ StartResendInvite(r, a, i)
      BY <1>1, <3>1 DEF StartRevokeInvite, StartResendInvite, StartInviteUpdate, Begin, Idle
    <3>2. CASE StartAcceptInvite(r, a, i)
      BY <1>1, <3>2 DEF StartAcceptInvite, Begin, Idle
    <3> QED
      BY <1>7, <3>1, <3>2
  <2> QED
    BY <1>3, <2>1 DEF SeatOps
<1> QED
  BY <1>2, <1>4, <1>5, <1>6, <1>7 DEF Start

LEMMA SeatCount ==
    ASSUME SeatInv, NEW r \in Requests, CountInvites(r)
    PROVE  Reserved(req[r])'
<1> DEFINE seats == req[r].seats + Cardinality(LivePending)
<1>1. /\ role' = role /\ invite' = invite /\ req[r] \in Request /\ r \in DOMAIN req
      /\ req[r].pc = "counting"
  BY DEF CountInvites, SeatInv, IndInv, TypeOK
<1>2. Members' = Members /\ LivePending' = LivePending /\ SeatsInUse' = SeatsInUse
  BY <1>1 DEF Members, LivePending, SeatsInUse
<1>3. /\ Cardinality(Members) \in Nat /\ Cardinality(LivePending) \in Nat
      /\ Cardinality(Members) <= req[r].seats /\ req[r].seats \in Nat
  BY <1>1, SeatsAreFinite DEF SeatInv, IndInv, Reserved, Request
<1>4. SeatsInUse \in Nat /\ seats \in Nat /\ SeatsInUse <= seats
  BY <1>3 DEF SeatsInUse
<1>5. CASE UnderLimit(seats, req[r].limit)
  <2>1. req'[r].pc = "writing" /\ req'[r].limit = req[r].limit
    BY <1>1, <1>5 DEF CountInvites, Request
  <2>2. UnderLimit(SeatsInUse, req[r].limit)
    BY <1>1, <1>4, <1>5 DEF UnderLimit, Request
  <2> QED
    BY <1>2, <2>1, <2>2 DEF Reserved, UnderLimit
<1>6. CASE ~UnderLimit(seats, req[r].limit)
  <2>1. req'[r] = Idle
    BY <1>1, <1>6 DEF CountInvites
  <2> QED
    BY <2>1 DEF Reserved, Idle
<1> QED
  BY <1>5, <1>6

\* The environment takes no seat.
LEMMA SeatsGivenBack ==
    ASSUME TypeOK, Environment
    PROVE  /\ req' = req /\ Members' = Members
           /\ SeatsInUse \in Nat /\ SeatsInUse' \in Nat /\ SeatsInUse' <= SeatsInUse
<1>1. req' = req /\ role' = role
  BY DEF Environment, SignIn, Expire, ChangePlan
<1>2. Members' = Members
  BY <1>1 DEF Members
<1>3. LivePending' \subseteq LivePending
  <2>1. invite' = invite \/ \E i \in InviteIds : Expire(i)
    BY DEF Environment, SignIn, ChangePlan
  <2>2. ASSUME NEW i \in InviteIds, Expire(i) PROVE LivePending' \subseteq LivePending
    <3>1. /\ invite[i].live /\ invite[i].status = "pending"
          /\ \A k \in InviteIds \ {i} : invite'[k] = invite[k]
      BY <2>2 DEF Expire, IsPending, TypeOK
    <3> QED
      BY <3>1 DEF LivePending
  <2> QED
    BY <2>1, <2>2 DEF LivePending
<1>4. /\ IsFiniteSet(LivePending) /\ Cardinality(LivePending) \in Nat
      /\ Cardinality(Members) \in Nat
  BY SeatsAreFinite
<1>5. Cardinality(LivePending') \in Nat /\ Cardinality(LivePending') <= Cardinality(LivePending)
  BY <1>3, <1>4, FS_Subset, FS_CardinalityType
<1> QED
  BY <1>1, <1>2, <1>4, <1>5 DEF SeatsInUse

LEMMA SeatNext == ASSUME Serial PROVE SeatInv /\ [Next]_vars => SeatInv'
<1> SUFFICES ASSUME SeatInv, [Next]_vars PROVE SeatInv'
  OBVIOUS
<1>1. IndInv /\ IndInv'
  BY NextInv DEF SeatInv
<1>2. ASSUME NEW r \in Requests, Start(r) PROVE \A s \in Requests : Reserved(req[s])'
  BY <1>2, SeatStart DEF Serial
<1>3. ASSUME NEW r \in Requests, CountInvites(r) PROVE \A s \in Requests : Reserved(req[s])'
  BY <1>3, SeatCount DEF Serial
<1>4. ASSUME NEW r \in Requests, Commit(r) PROVE \A s \in Requests : Reserved(req[s])'
  <2>1. req'[r] = Idle
    BY <1>1, <1>4, CommitEnds
  <2>2. Reserved(req[r])'
    BY <2>1 DEF Reserved, Idle
  <2> QED
    BY <2>2 DEF Serial
<1>5. ASSUME Environment, NEW s \in Requests PROVE Reserved(req[s])'
  <2>1. /\ req' = req /\ Members' = Members
        /\ SeatsInUse \in Nat /\ SeatsInUse' \in Nat /\ SeatsInUse' <= SeatsInUse
    BY <1>1, <1>5, SeatsGivenBack DEF IndInv
  <2>2. req[s].limit \in Nat \cup {Unlimited} /\ Reserved(req[s])
    BY <1>1 DEF IndInv, TypeOK, Request, SeatInv
  <2> QED
    BY <2>1, <2>2 DEF Reserved, UnderLimit
<1>6. ASSUME UNCHANGED vars, NEW s \in Requests PROVE Reserved(req[s])'
  BY <1>6 DEF vars, SeatInv, Reserved, Members, SeatsInUse, LivePending
<1> QED
  BY <1>1, <1>2, <1>3, <1>4, <1>5, <1>6 DEF Next, SeatInv

\* A commit takes one seat.
LEMMA OneSeatMore ==
    ASSUME IndInv, NEW r \in Requests,
           CommitAddMember(r) \/ \E i \in InviteIds : CommitCreateInvite(r, i)
    PROVE  SeatsInUse \in Nat /\ SeatsInUse' \in Nat /\ SeatsInUse' <= SeatsInUse + 1
<1>1. /\ IsFiniteSet(Members) /\ Cardinality(Members) \in Nat
      /\ IsFiniteSet(LivePending) /\ Cardinality(LivePending) \in Nat
  BY SeatsAreFinite DEF IndInv
<1>2. ASSUME NEW S, NEW T, NEW x, IsFiniteSet(S), T \subseteq S \cup {x}
      PROVE  Cardinality(T) \in Nat /\ Cardinality(T) <= Cardinality(S) + 1
  <2>1. /\ IsFiniteSet(S \cup {x}) /\ Cardinality(S) \in Nat
        /\ Cardinality(S \cup {x}) \in Nat /\ Cardinality(S \cup {x}) <= Cardinality(S) + 1
    <3>1. Cardinality(S) \in Nat
      BY <1>2, FS_CardinalityType
    <3>2. CASE x \in S
      <4>1. S \cup {x} = S
        BY <3>2
      <4> QED
        BY <1>2, <3>1, <4>1
    <3>3. CASE x \notin S
      <4>1. IsFiniteSet(S \cup {x}) /\ Cardinality(S \cup {x}) = Cardinality(S) + 1
        BY <1>2, <3>3, FS_AddElement
      <4> QED
        BY <3>1, <4>1
    <3> QED
      BY <3>2, <3>3
  <2>2. /\ IsFiniteSet(T) /\ Cardinality(T) <= Cardinality(S \cup {x})
        /\ Cardinality(T) \in Nat
    BY <1>2, <2>1, FS_Subset, FS_CardinalityType
  <2> QED
    BY <2>1, <2>2
<1>3. CASE CommitAddMember(r)
  <2>1. Members' \subseteq Members \cup {req[r].who}
    BY <1>3 DEF CommitAddMember, Members, IndInv, TypeOK
  <2>2. LivePending' = LivePending
    BY <1>3 DEF CommitAddMember, LivePending
  <2>3. Cardinality(Members') \in Nat /\ Cardinality(Members') <= Cardinality(Members) + 1
    BY <1>1, <1>2, <2>1
  <2> QED
    BY <1>1, <2>2, <2>3 DEF SeatsInUse
<1>4. ASSUME NEW i \in InviteIds, CommitCreateInvite(r, i)
      PROVE  SeatsInUse \in Nat /\ SeatsInUse' \in Nat /\ SeatsInUse' <= SeatsInUse + 1
  <2>1. LivePending' \subseteq LivePending \cup {i}
    BY <1>4 DEF CommitCreateInvite, LivePending, IndInv, TypeOK
  <2>2. Members' = Members
    BY <1>4 DEF CommitCreateInvite, Members
  <2>3. /\ Cardinality(LivePending') \in Nat
        /\ Cardinality(LivePending') <= Cardinality(LivePending) + 1
    BY <1>1, <1>2, <2>1
  <2> QED
    BY <1>1, <2>2, <2>3 DEF SeatsInUse
<1> QED
  BY <1>3, <1>4

\* Without overlapping requests the seat check means what it says: what add_member and
\* create_invite commit leaves the seats in use within the limit they have read, although the
\* two halves of the count are apart and an invite may expire at any moment
\* (plan_limits.seats_in_use_for_workspace).
THEOREM SeatsCorrect == ASSUME Serial PROVE Spec => SeatCheckHolds
<1>1. Init => SeatInv
  BY InitInv DEF Init, SeatInv, Reserved, Idle
<1> DEFINE Checked(r) ==
      (Writing(r, "add") \/ Writing(r, "invite")) /\ req'[r] = Idle =>
          req[r].limit = Unlimited \/ SeatsInUse' <= req[r].limit
<1>2. ASSUME SeatInv, [Next]_vars PROVE (\A r \in Requests : Checked(r)) \/ UNCHANGED vars
  <2> SUFFICES ASSUME NEW r \in Requests, Writing(r, "add") \/ Writing(r, "invite"),
                      req'[r] = Idle
               PROVE  req[r].limit = Unlimited \/ SeatsInUse' <= req[r].limit
    OBVIOUS
  <2>1. IndInv /\ req[r].pc = "writing" /\ req[r].op \in SeatOps
    BY <1>2 DEF SeatInv, Writing, SeatOps
  <2>2. Commit(r)
    <3>1. req' # req
      BY <2>1 DEF Idle
    <3>2. ~Start(r) /\ ~CountInvites(r)
      BY <2>1 DEF Start, CountInvites, StartAddMember, StartUpdateRole, StartCreateInvite,
         StartRemoveMember, StartLeave, StartDropAccount, StartRevokeInvite, StartResendInvite,
         StartInviteUpdate, StartAcceptInvite, Begin
    <3> QED
      BY <1>2, <3>1, <3>2 DEF Next, Serial, vars, Environment, SignIn, Expire, ChangePlan
  <2>3. CommitAddMember(r) \/ \E i \in InviteIds : CommitCreateInvite(r, i)
    BY <2>1, <2>2 DEF Commit, CommitUpdateRole, CommitDelete, CommitRevokeInvite,
       CommitResendInvite, CommitAcceptInvite, CommitDropAccount, Writing, SeatOps
  <2>4. SeatsInUse \in Nat /\ SeatsInUse' \in Nat /\ SeatsInUse' <= SeatsInUse + 1
    BY <2>1, <2>3, OneSeatMore
  <2>5. UnderLimit(SeatsInUse, req[r].limit) /\ req[r].limit \in Nat \cup {Unlimited}
    BY <1>2, <2>1 DEF SeatInv, Reserved, IndInv, TypeOK, Request
  <2> QED
    BY <2>4, <2>5 DEF UnderLimit
<1> QED
  BY <1>1, <1>2, SeatNext, PTL DEF Spec, SeatCheckHolds
=============================================================================
