---------------------------- MODULE AccessProofs ----------------------------
(***************************************************************************)
(* Proofs about Access, for any number of accounts, workspaces, keys,      *)
(* requests and changes.                                                   *)
(*                                                                         *)
(* A call moves through its checks one query at a time and anything may    *)
(* change between two of them, so the inductive invariant cannot say that  *)
(* what was checked still holds: Covered says that a call at some point of *)
(* the sequence has the grounds of the checks behind it, and that the      *)
(* organization's row its session keeps was the row while it was served.   *)
(* Guarded says that an allowlist about to be saved passed the             *)
(* self-lockout guard.                                                     *)
(***************************************************************************)
EXTENDS Access, TLAPS

AllRights == {"key", "scope", "plan", "member", "address"}
Call == [pc : {"idle", "token", "key", "planned", "user", "member", "admitted"},
         key : Keys \cup {None}, user : Users \cup {None},
         to : Workspaces \cup {Elsewhere, OrgRoute}, write : BOOLEAN,
         from : Addresses \cup {None}, touch : BOOLEAN, org : OrgRow \cup {None}]
Admin == [pc : {"idle", "user", "owner", "loaded"},
          op : {"none", "create_key", "revoke_key", "set_ip_allowlist"},
          user : Users \cup {None}, key : Keys \cup {None}, scope : {"read", "read_write"},
          list : SUBSET Addresses, from : Addresses \cup {None}, loaded : SUBSET Addresses]

\* The rows, the requests, and what is remembered of them.
Rows ==
    /\ users \subseteq Users
    /\ role \in [Workspaces -> [Users -> Roles \cup {None}]]
    /\ \A w \in Workspaces, u \in Users : role[w][u] # None => u \in users
    /\ org \in OrgRow
    /\ key \in [Keys -> Key]
    /\ \A k \in Keys : KeyExists(k) => key[k].creator \in users
Served == call \in [Callers -> Call] /\ admin \in [Admins -> Admin]
Remembered == grounds \in [Callers -> SUBSET AllRights] /\ changes \in 0..MaxChanges

Types == Rows /\ Served /\ Remembered

Checked == {"key", "planned", "user", "member", "admitted"}
CoveredBy(q, g) ==
    /\ q.pc \in {"token", "key", "planned"} => q.key \in Keys
    /\ q.pc \in Checked => q.to \in Workspaces /\ q.user \in Users
    /\ q.pc \in Checked /\ q.key # None => {"key", "scope"} \subseteq g
    /\ q.pc \in Checked \ {"key"} /\ q.key # None => "plan" \in g
    /\ q.pc \in {"member", "admitted"} => "member" \in g
    /\ q.pc = "admitted" => "address" \in g
    /\ q.pc \in {"idle", "token", "key"} => q.org = None
    /\ q.org # None /\ Inside(q.org, q.from) => "address" \in g
Covered == \A c \in Callers : CoveredBy(call[c], grounds[c])

Guarded ==
    \A a \in Admins : admin[a].pc = "loaded" /\ admin[a].op = "set_ip_allowlist"
                        => GuardPasses(admin[a].list, admin[a].from)

IndInv == Types /\ Covered /\ Guarded

---------------------------------------------------------------------------
(* Types *)

LEMMA NoCallIsACall == NoCall \in Call
  BY DEF NoCall, Call

LEMMA NoAdminIsAnAdmin == NoAdmin \in Admin
  BY DEF NoAdmin, Admin

LEMMA InitTypes == Init => Types
<1> SUFFICES ASSUME Init PROVE Types
  OBVIOUS
<1>1. org \in OrgRow
  BY DEF Init, OrgRow
<1>2. key \in [Keys -> Key] /\ \A k \in Keys : ~KeyExists(k)
  BY DEF Init, NoKey, Key, KeyExists
<1>3. users \subseteq Users /\ role \in [Workspaces -> [Users -> Roles \cup {None}]]
        /\ \A w \in Workspaces, u \in Users : role[w][u] # None => u \in users
  BY DEF Init, Roles
<1>4. Served
  BY NoCallIsACall, NoAdminIsAnAdmin DEF Init, Served
<1>5. Remembered
  BY ChangesAssumption DEF Init, Remembered
<1> QED
  BY <1>1, <1>2, <1>3, <1>4, <1>5 DEF Types, Rows

LEMMA TypesImplyTypeOK == Types => TypeOK
  BY DEF Types, Rows, Served, Remembered, TypeOK, Call, Admin

---------------------------------------------------------------------------
(* A call's steps *)

LEMMA CoveredByGrows ==
    ASSUME NEW q, NEW g, NEW h, CoveredBy(q, g), g \subseteq h
    PROVE  CoveredBy(q, h)
  BY DEF CoveredBy

LEMMA IdleIsCovered ==
    ASSUME NEW q, q.pc = "idle", q.org = None
    PROVE  CoveredBy(q, {})
  BY DEF CoveredBy, Checked

\* Grounds are never lost while a call lasts.
LEMMA OthersStayCovered ==
    ASSUME IndInv, Remember, NEW d \in Callers, call'[d] = call[d]
    PROVE  CoveredBy(call'[d], grounds'[d])
<1>1. CoveredBy(call[d], grounds[d])
  BY DEF IndInv, Covered
<1>2. CASE call[d].pc = "idle"
  <2>1. grounds'[d] = {} /\ call[d].org = None
    BY <1>1, <1>2 DEF Remember, CoveredBy
  <2> QED
    BY <1>2, <2>1, IdleIsCovered
<1>3. CASE call[d].pc # "idle"
  <2>1. grounds[d] \subseteq grounds'[d]
    BY <1>3 DEF Remember
  <2> QED
    BY <1>1, <2>1, CoveredByGrows
<1> QED
  BY <1>2, <1>3

LEMMA RememberedTypes == ASSUME IndInv, Remember PROVE grounds' \in [Callers -> SUBSET AllRights]
  BY DEF IndInv, Types, Remembered, Remember, Rights, AllRights

\* What a call may count on after a step.
LEMMA RightsThen ==
    ASSUME NEW c \in Callers
    PROVE  (/\ call[c].key # None /\ Usable(call[c].key) => "key" \in Rights(c)
            /\ call[c].key # None /\ KeyExists(call[c].key) /\ ScopeAllows(call[c].key, call[c].write)
                 => "scope" \in Rights(c)
            /\ HasFeature(org.plan) => "plan" \in Rights(c)
            /\ call[c].to \in Workspaces /\ call[c].user # None
                 /\ MeetsFloor(call[c].to, call[c].user, call[c].write) => "member" \in Rights(c)
            /\ Inside(org, call[c].from) => "address" \in Rights(c))'
  BY DEF Rights

\* A step of one call: it ends, or goes on with what its new point needs.
LEMMA CallSteps ==
    ASSUME IndInv, Remember, NEW c \in Callers, NEW q \in Call, call' = [call EXCEPT ![c] = q],
           IF q.pc = "idle" THEN q.org = None ELSE CoveredBy(q, grounds[c] \cup Rights(c)')
    PROVE  call' \in [Callers -> Call] /\ Covered'
<1>1. call'[c] = q /\ call' \in [Callers -> Call] /\ \A d \in Callers \ {c} : call'[d] = call[d]
  BY DEF IndInv, Types, Served
<1>2. CoveredBy(call'[c], grounds'[c])
  <2>1. CASE q.pc = "idle"
    BY <1>1, <2>1, IdleIsCovered DEF Remember
  <2>2. CASE q.pc # "idle"
    BY <1>1, <2>2 DEF Remember
  <2> QED
    BY <2>1, <2>2
<1>3. \A d \in Callers : CoveredBy(call'[d], grounds'[d])
  BY <1>1, <1>2, OthersStayCovered
<1> QED
  BY <1>1, <1>3 DEF Covered

LEMMA CallEnds ==
    ASSUME IndInv, Remember, NEW c \in Callers, call' = [call EXCEPT ![c] = NoCall]
    PROVE  call' \in [Callers -> Call] /\ Covered'
  BY CallSteps, NoCallIsACall DEF NoCall

LEMMA PresentStep ==
    ASSUME IndInv, Remember, NEW c \in Callers, PresentKey(c) \/ PresentSession(c)
    PROVE  call' \in [Callers -> Call] /\ Covered'
<1>1. CASE PresentKey(c)
  <2>1. PICK k \in Keys, to \in Workspaces \cup {Elsewhere, OrgRoute}, write \in BOOLEAN,
             from \in Addresses :
           call' = [call EXCEPT ![c] = [NoCall EXCEPT !.pc = "token", !.key = k, !.to = to,
                                                      !.write = write, !.from = from]]
    BY <1>1 DEF PresentKey
  <2> DEFINE q == [NoCall EXCEPT !.pc = "token", !.key = k, !.to = to, !.write = write,
                                 !.from = from]
  <2>2. q \in Call /\ q.pc = "token" /\ q.key \in Keys /\ q.org = None
    BY DEF NoCall, Call
  <2>3. CoveredBy(q, grounds[c] \cup Rights(c)')
    BY <2>2 DEF CoveredBy, Checked
  <2> QED
    BY <2>1, <2>2, <2>3, CallSteps
<1>2. CASE PresentSession(c)
  <2>1. PICK u \in users, w \in Workspaces, write \in BOOLEAN, from \in Addresses :
           call' = [call EXCEPT ![c] = [NoCall EXCEPT !.pc = "user", !.user = u, !.to = w,
                                                      !.write = write, !.from = from]]
    BY <1>2 DEF PresentSession
  <2> DEFINE q == [NoCall EXCEPT !.pc = "user", !.user = u, !.to = w, !.write = write, !.from = from]
  <2>2. u \in Users
    BY DEF IndInv, Types, Rows
  <2>3. /\ q \in Call /\ q.pc = "user" /\ q.key = None /\ q.org = None
        /\ q.to \in Workspaces /\ q.user \in Users
    BY <2>2 DEF NoCall, Call
  <2>4. CoveredBy(q, grounds[c] \cup Rights(c)')
    BY <2>3 DEF CoveredBy, Checked
  <2> QED
    BY <2>1, <2>3, <2>4, CallSteps
<1> QED
  BY <1>1, <1>2

LEMMA FindKeyStep ==
    ASSUME IndInv, Remember, NEW c \in Callers, FindKey(c)
    PROVE  call' \in [Callers -> Call] /\ Covered'
<1> DEFINE k == call[c].key
           q == [call[c] EXCEPT !.pc = "key", !.user = key[k].creator, !.touch = ~key[k].recent]
           ok == Usable(k) /\ ScopeAllows(k, call[c].write) /\ call[c].to \in Workspaces
<1>1. CASE ~ok
  BY <1>1, CallEnds DEF FindKey, Proceed
<1>2. CASE ok
  <2>1. call[c] \in Call /\ call[c].pc = "token" /\ k \in Keys /\ k # None /\ call[c].org = None
    BY NobodyAssumption DEF FindKey, IndInv, Types, Served, Covered, CoveredBy
  <2>2. KeyExists(k) /\ key[k].creator \in Users /\ key[k].recent \in BOOLEAN
    BY <1>2, <2>1 DEF Usable, KeyExists, IndInv, Types, Rows, Key
  <2>3. /\ q \in Call /\ q.pc = "key" /\ q.key = k /\ q.user \in Users /\ q.to = call[c].to
        /\ q.org = None /\ q.write = call[c].write
    BY <2>1, <2>2 DEF Call
  <2>4. call' = [call EXCEPT ![c] = q] /\ call'[c] = q /\ UNCHANGED key
    BY <1>2, <2>1 DEF FindKey, Proceed, IndInv, Types, Served
  <2>5. {"key", "scope"} \subseteq Rights(c)'
    BY <1>2, <2>1, <2>2, <2>3, <2>4, RightsThen DEF Usable, KeyExists, ScopeAllows
  <2>6. CoveredBy(q, grounds[c] \cup Rights(c)')
    BY <1>2, <2>1, <2>3, <2>5 DEF CoveredBy, Checked
  <2> QED
    BY <2>3, <2>4, <2>6, CallSteps
<1> QED
  BY <1>1, <1>2

LEMMA CheckPlanStep ==
    ASSUME IndInv, Remember, NEW c \in Callers, CheckPlan(c)
    PROVE  call' \in [Callers -> Call] /\ Covered'
<1> DEFINE q == [call[c] EXCEPT !.pc = "planned", !.org = org]
<1>1. CASE ~HasFeature(org.plan)
  BY <1>1, CallEnds DEF CheckPlan, Proceed
<1>2. CASE HasFeature(org.plan)
  <2>1. call[c] \in Call /\ call[c].pc = "key" /\ org \in OrgRow /\ CoveredBy(call[c], grounds[c])
    BY DEF CheckPlan, IndInv, Types, Rows, Served, Covered
  <2>2. /\ q \in Call /\ q.pc = "planned" /\ q.key = call[c].key /\ q.user = call[c].user
        /\ q.to = call[c].to /\ q.org = org /\ q.from = call[c].from
    BY <2>1 DEF Call
  <2>3. call' = [call EXCEPT ![c] = q] /\ call'[c] = q /\ UNCHANGED org
    BY <1>2 DEF CheckPlan, Proceed, IndInv, Types, Served
  <2>4. "plan" \in Rights(c)' /\ (Inside(org, q.from) => "address" \in Rights(c)')
    BY <1>2, <2>3, RightsThen
  <2>5. CoveredBy(q, grounds[c] \cup Rights(c)')
    BY <2>1, <2>2, <2>4 DEF CoveredBy, Checked
  <2> QED
    BY <2>2, <2>3, <2>5, CallSteps
<1> QED
  BY <1>1, <1>2

LEMMA FindCreatorStep ==
    ASSUME IndInv, Remember, NEW c \in Callers, FindCreator(c)
    PROVE  call' \in [Callers -> Call] /\ Covered'
<1>1. call[c] \in Call /\ call[c].pc = "planned" /\ CoveredBy(call[c], grounds[c])
  BY DEF FindCreator, IndInv, Types, Served, Covered
<1>2. ASSUME NEW q \in Call, call' = [call EXCEPT ![c] = q], q.pc = "user",
             q.key = call[c].key, q.user = call[c].user, q.to = call[c].to,
             q.from = call[c].from, q.org \in {call[c].org, None}
      PROVE  call' \in [Callers -> Call] /\ Covered'
  <2>1. CoveredBy(q, grounds[c] \cup Rights(c)')
    BY <1>1, <1>2 DEF CoveredBy, Checked
  <2> QED
    BY <1>2, <2>1, CallSteps
<1> DEFINE q1 == [call[c] EXCEPT !.pc = "user", !.org = None]
           q2 == [call[c] EXCEPT !.pc = "user"]
<1>3. /\ q1 \in Call /\ q1.pc = "user" /\ q1.key = call[c].key /\ q1.user = call[c].user
      /\ q1.to = call[c].to /\ q1.from = call[c].from /\ q1.org = None
  BY <1>1 DEF Call
<1>4. /\ q2 \in Call /\ q2.pc = "user" /\ q2.key = call[c].key /\ q2.user = call[c].user
      /\ q2.to = call[c].to /\ q2.from = call[c].from /\ q2.org = call[c].org
  BY <1>1 DEF Call
<1>5. \/ call' = [call EXCEPT ![c] = NoCall]
      \/ call' = [call EXCEPT ![c] = q1]
      \/ call' = [call EXCEPT ![c] = q2]
  BY DEF FindCreator, Proceed
<1> QED
  BY <1>2, <1>3, <1>4, <1>5, CallEnds

LEMMA CheckMemberStep ==
    ASSUME IndInv, Remember, NEW c \in Callers, CheckMember(c)
    PROVE  call' \in [Callers -> Call] /\ Covered'
<1> DEFINE q == [call[c] EXCEPT !.pc = "member"]
           ok == MeetsFloor(call[c].to, call[c].user, call[c].write)
<1>1. CASE ~ok
  BY <1>1, CallEnds DEF CheckMember, Proceed
<1>2. CASE ok
  <2>1. call[c] \in Call /\ call[c].pc = "user" /\ CoveredBy(call[c], grounds[c])
    BY DEF CheckMember, IndInv, Types, Served, Covered
  <2>2. call[c].to \in Workspaces /\ call[c].user \in Users /\ call[c].user # None
    BY <2>1, NobodyAssumption DEF CoveredBy, Checked
  <2>3. /\ q \in Call /\ q.pc = "member" /\ q.key = call[c].key /\ q.user = call[c].user
        /\ q.to = call[c].to /\ q.org = call[c].org /\ q.from = call[c].from
        /\ q.write = call[c].write
    BY <2>1 DEF Call
  <2>4. call' = [call EXCEPT ![c] = q] /\ call'[c] = q /\ UNCHANGED role
    BY <1>2 DEF CheckMember, Proceed, IndInv, Types, Served
  <2>5. "member" \in Rights(c)'
    BY <1>2, <2>2, <2>3, <2>4, RightsThen DEF MeetsFloor
  <2>6. CoveredBy(q, grounds[c] \cup Rights(c)')
    BY <2>1, <2>3, <2>5 DEF CoveredBy, Checked
  <2> QED
    BY <2>3, <2>4, <2>6, CallSteps
<1> QED
  BY <1>1, <1>2

LEMMA CheckAddressStep ==
    ASSUME IndInv, Remember, NEW c \in Callers, CheckAddress(c)
    PROVE  call' \in [Callers -> Call] /\ Covered'
<1> DEFINE q == [call[c] EXCEPT !.pc = "admitted"]
           o == IF call[c].org = None THEN org ELSE call[c].org
<1>1. CASE ~Inside(o, call[c].from)
  BY <1>1, CallEnds DEF CheckAddress, Proceed
<1>2. CASE Inside(o, call[c].from)
  <2>1. call[c] \in Call /\ call[c].pc = "member" /\ CoveredBy(call[c], grounds[c])
    BY DEF CheckAddress, IndInv, Types, Served, Covered
  <2>2. /\ q \in Call /\ q.pc = "admitted" /\ q.key = call[c].key /\ q.user = call[c].user
        /\ q.to = call[c].to /\ q.org = call[c].org /\ q.from = call[c].from
    BY <2>1 DEF Call
  <2>3. call' = [call EXCEPT ![c] = q] /\ call'[c] = q /\ UNCHANGED org
    BY <1>2 DEF CheckAddress, Proceed, IndInv, Types, Served
  <2>4. "address" \in grounds[c] \cup Rights(c)'
    <3>1. CASE call[c].org = None
      BY <1>2, <2>2, <2>3, <3>1, RightsThen
    <3>2. CASE call[c].org # None
      BY <1>2, <2>1, <3>2 DEF CoveredBy
    <3> QED
      BY <3>1, <3>2
  <2>5. CoveredBy(q, grounds[c] \cup Rights(c)')
    BY <2>1, <2>2, <2>4 DEF CoveredBy, Checked
  <2> QED
    BY <2>2, <2>3, <2>5, CallSteps
<1> QED
  BY <1>1, <1>2

LEMMA NoCallMoves ==
    ASSUME IndInv, Remember, UNCHANGED call
    PROVE  call' \in [Callers -> Call] /\ Covered'
  BY OthersStayCovered DEF IndInv, Types, Served, Covered

---------------------------------------------------------------------------
(* The rows.  Only five actions write the keys. *)

\* A change to keys that makes no key and keeps the creators of those there are.
LEMMA KeysKept ==
    ASSUME Rows, UNCHANGED <<users, role, org>>, key' \in [Keys -> Key],
           \A k \in Keys : KeyExists(k)' => KeyExists(k) /\ key'[k].creator = key[k].creator
    PROVE  Rows'
  BY DEF Rows

LEMMA RowsUnchanged == ASSUME Rows, UNCHANGED <<users, role, org, key>> PROVE Rows'
  BY DEF Rows, KeyExists

LEMMA CallRows ==
    ASSUME IndInv, NEW c \in Callers,
           \/ PresentKey(c) \/ FindKey(c) \/ CheckPlan(c) \/ FindCreator(c)
           \/ PresentSession(c) \/ CheckMember(c) \/ CheckAddress(c) \/ Answer(c)
    PROVE  Rows' /\ UNCHANGED admin
<1>1. Rows
  BY DEF IndInv, Types
<1>2. CASE FindCreator(c)
  <2>1. CASE UNCHANGED key
    BY <1>1, <1>2, <2>1, RowsUnchanged DEF FindCreator
  <2>2. CASE key' # key
    <3> DEFINE k == call[c].key
    <3>1. key' = [key EXCEPT ![k].recent = TRUE]
      BY <1>2, <2>2 DEF FindCreator, Touch
    <3>2. k \in Keys
      BY <1>2 DEF FindCreator, IndInv, Covered, CoveredBy
    <3>3. [key[k] EXCEPT !.recent = TRUE] \in Key /\ key \in [Keys -> Key]
      BY <1>1, <3>2 DEF Rows, Key
    <3>4. key' \in [Keys -> Key]
      BY <3>1, <3>3
    <3>5. \A j \in Keys : key'[j].state = key[j].state /\ key'[j].creator = key[j].creator
      BY <3>1, <3>2, <3>3 DEF Key
    <3> QED
      BY <1>1, <1>2, <3>4, <3>5, KeysKept DEF FindCreator, KeyExists
  <2> QED
    BY <1>2, <2>1, <2>2 DEF FindCreator
<1>3. CASE ~FindCreator(c)
  BY <1>1, <1>3, RowsUnchanged DEF PresentKey, FindKey, CheckPlan, PresentSession, CheckMember,
     CheckAddress, Answer
<1> QED
  BY <1>2, <1>3

---------------------------------------------------------------------------
(* The administrators' requests. *)

LEMMA ToAdminSteps ==
    ASSUME IndInv, NEW a \in Admins, NEW ok, NEW q, ok => q \in Admin, ToAdmin(a, ok, q),
           ok /\ q.pc = "loaded" /\ q.op = "set_ip_allowlist" => GuardPasses(q.list, q.from)
    PROVE  admin' \in [Admins -> Admin] /\ Guarded'
<1>1. admin \in [Admins -> Admin]
  BY DEF IndInv, Types, Served
<1>2. CASE ok
  BY <1>1, <1>2 DEF ToAdmin, IndInv, Guarded
<1>3. CASE ~ok
  <2>1. admin' = [admin EXCEPT ![a] = NoAdmin] /\ NoAdmin.pc = "idle"
    BY <1>3 DEF ToAdmin, NoAdmin
  <2> QED
    BY <1>1, <2>1, NoAdminIsAnAdmin DEF IndInv, Guarded
<1> QED
  BY <1>2, <1>3

LEMMA AskAdminStep ==
    ASSUME IndInv, NEW a \in Admins, AskAdmin(a)
    PROVE  Rows' /\ admin' \in [Admins -> Admin] /\ Guarded' /\ UNCHANGED <<call, key, org>>
<1>1. PICK u \in users :
         LET asks == [NoAdmin EXCEPT !.pc = "user", !.user = u] IN
         \/ \E s \in {"read", "read_write"} :
              admin' = [admin EXCEPT ![a] = [asks EXCEPT !.op = "create_key", !.scope = s]]
         \/ \E k \in Keys : /\ key[k].state # "unborn"
                            /\ admin' = [admin EXCEPT ![a] = [asks EXCEPT !.op = "revoke_key",
                                                                          !.key = k]]
         \/ \E l \in SUBSET Addresses, from \in Addresses :
              admin' = [admin EXCEPT ![a] = [asks EXCEPT !.op = "set_ip_allowlist",
                                                         !.list = l, !.from = from]]
  BY DEF AskAdmin
<1>2. u \in Users /\ Rows /\ admin \in [Admins -> Admin]
  BY DEF IndInv, Types, Rows, Served
<1> DEFINE asks == [NoAdmin EXCEPT !.pc = "user", !.user = u]
<1>3. \A s \in {"read", "read_write"} :
         LET q == [asks EXCEPT !.op = "create_key", !.scope = s] IN q \in Admin /\ q.pc = "user"
  BY <1>2 DEF NoAdmin, Admin
<1>4. \A k \in Keys :
         LET q == [asks EXCEPT !.op = "revoke_key", !.key = k] IN q \in Admin /\ q.pc = "user"
  BY <1>2 DEF NoAdmin, Admin
<1>5. \A l \in SUBSET Addresses, from \in Addresses :
         LET q == [asks EXCEPT !.op = "set_ip_allowlist", !.list = l, !.from = from] IN
         q \in Admin /\ q.pc = "user"
  BY <1>2 DEF NoAdmin, Admin
<1>6. \E q \in Admin : q.pc = "user" /\ admin' = [admin EXCEPT ![a] = q]
  BY <1>1, <1>3, <1>4, <1>5
<1> HIDE DEF asks
<1>7. admin' \in [Admins -> Admin] /\ Guarded'
  BY <1>2, <1>6 DEF IndInv, Guarded
<1> QED
  BY <1>2, <1>7, RowsUnchanged DEF AskAdmin

LEMMA CheckOwnerStep ==
    ASSUME IndInv, NEW a \in Admins, CheckOwner(a)
    PROVE  Rows' /\ admin' \in [Admins -> Admin] /\ Guarded' /\ UNCHANGED <<call, key, org>>
<1> DEFINE q == [admin[a] EXCEPT !.pc = "owner"]
<1>1. q \in Admin /\ q.pc = "owner"
  BY DEF IndInv, Types, Served, Admin
<1>2. admin' \in [Admins -> Admin] /\ Guarded'
  BY <1>1, ToAdminSteps DEF CheckOwner
<1> QED
  BY <1>2, RowsUnchanged DEF CheckOwner, IndInv, Types

LEMMA LoadStep ==
    ASSUME IndInv, NEW a \in Admins, Load(a)
    PROVE  Rows' /\ admin' \in [Admins -> Admin] /\ Guarded' /\ UNCHANGED <<call, key, org>>
<1> DEFINE q == [admin[a] EXCEPT !.pc = "loaded", !.loaded = org.list]
           ok == CASE admin[a].op = "create_key" -> HasFeature(org.plan)
                   [] admin[a].op = "revoke_key" -> key[admin[a].key].state = "live"
                   [] admin[a].op = "set_ip_allowlist" -> HasFeature(org.plan)
                        /\ GuardPasses(admin[a].list, admin[a].from)
<1>1. /\ q \in Admin /\ q.op = admin[a].op /\ q.list = admin[a].list /\ q.from = admin[a].from
  BY DEF IndInv, Types, Rows, OrgRow, Served, Admin
<1>2. ok /\ q.op = "set_ip_allowlist" => GuardPasses(q.list, q.from)
  BY <1>1
<1>3. ToAdmin(a, ok, q)
  BY DEF Load
<1> HIDE DEF ok, q
<1>4. admin' \in [Admins -> Admin] /\ Guarded'
  BY <1>1, <1>2, <1>3, ToAdminSteps
<1> QED
  BY <1>4, RowsUnchanged DEF Load, IndInv, Types

LEMMA CommitTypes ==
    ASSUME IndInv, NEW a \in Admins, ToAdmin(a, FALSE, NoAdmin)
    PROVE  admin' \in [Admins -> Admin] /\ Guarded'
  BY ToAdminSteps

LEMMA CommitCreateKeyStep ==
    ASSUME IndInv, NEW a \in Admins, CommitCreateKey(a)
    PROVE  Rows' /\ admin' \in [Admins -> Admin] /\ Guarded' /\ UNCHANGED <<call, org>>
<1>1. Rows
  BY DEF IndInv, Types
<1>2. CASE UNCHANGED key
  BY <1>1, <1>2, RowsUnchanged, CommitTypes DEF CommitCreateKey
<1>3. CASE key' # key
  <2> DEFINE u == admin[a].user
             new == [NoKey EXCEPT !.state = "live", !.creator = u, !.scope = admin[a].scope]
  <2>1. PICK k \in Keys : key' = [key EXCEPT ![k] = new]
    BY <1>3 DEF CommitCreateKey
  <2>2. u \in users /\ u \in Users
    BY <1>1, <1>3 DEF CommitCreateKey, AccountThere, Rows
  <2>3. new \in Key /\ new.creator = u
    BY <2>2 DEF NoKey, Key, IndInv, Types, Served, Admin
  <2>4. key' \in [Keys -> Key] /\ \A j \in Keys : KeyExists(j)' => key'[j].creator \in users
    BY <1>1, <2>1, <2>2, <2>3 DEF Rows, KeyExists
  <2> QED
    BY <1>1, <2>4, CommitTypes DEF CommitCreateKey, Rows
<1> QED
  BY <1>2, <1>3

LEMMA CommitRevokeKeyStep ==
    ASSUME IndInv, NEW a \in Admins, CommitRevokeKey(a)
    PROVE  Rows' /\ admin' \in [Admins -> Admin] /\ Guarded' /\ UNCHANGED <<call, org>>
<1>1. Rows
  BY DEF IndInv, Types
<1> DEFINE k == admin[a].key
<1>2. CASE k \in Keys /\ KeyExists(k)
  <2>1. key' = [key EXCEPT ![k].state = "revoked"]
    BY <1>2 DEF CommitRevokeKey
  <2>2. [key[k] EXCEPT !.state = "revoked"] \in Key /\ key \in [Keys -> Key]
    BY <1>1, <1>2 DEF Rows, Key
  <2>3. key' \in [Keys -> Key]
    BY <2>1, <2>2
  <2>4. \A j \in Keys : /\ key'[j].creator = key[j].creator
                        /\ j # k => key'[j] = key[j]
    BY <1>2, <2>1, <2>2 DEF Key
  <2> QED
    BY <1>1, <1>2, <2>3, <2>4, KeysKept, CommitTypes DEF CommitRevokeKey, KeyExists
<1>3. CASE ~(k \in Keys /\ KeyExists(k))
  <2>1. UNCHANGED key
    BY <1>1, <1>3 DEF CommitRevokeKey, Rows
  <2> QED
    BY <1>1, <2>1, RowsUnchanged, CommitTypes DEF CommitRevokeKey
<1> QED
  BY <1>2, <1>3

LEMMA CommitAllowlistStep ==
    ASSUME IndInv, NEW a \in Admins, CommitAllowlist(a)
    PROVE  Rows' /\ admin' \in [Admins -> Admin] /\ Guarded' /\ UNCHANGED <<call, key>>
<1>1. Rows /\ admin[a].list \in SUBSET Addresses
  BY DEF IndInv, Types, Served, Admin
<1>2. org' \in OrgRow
  BY <1>1 DEF CommitAllowlist, Rows, OrgRow
<1> QED
  BY <1>1, <1>2, CommitTypes DEF CommitAllowlist, Rows, KeyExists

---------------------------------------------------------------------------
(* What changes meanwhile. *)

LEMMA ChangeRows == ASSUME Rows, Change PROVE Rows'
<1>1. CASE ChangeRole
  <2>1. PICK w \in Workspaces, u \in users, r \in Roles \cup {None} :
           role' = [role EXCEPT ![w][u] = r]
    BY <1>1 DEF ChangeRole
  <2>2. u \in Users
    BY DEF Rows
  <2>3. role' \in [Workspaces -> [Users -> Roles \cup {None}]]
    BY <2>1, <2>2 DEF Rows
  <2>4. \A x \in Workspaces, v \in Users : role'[x][v] # None => v \in users
    BY <2>1, <2>2 DEF Rows
  <2> QED
    BY <1>1, <2>3, <2>4 DEF ChangeRole, Rows, KeyExists
<1>2. CASE ChangePlan
  BY <1>2 DEF ChangePlan, Rows, OrgRow, KeyExists
<1>3. CASE DropUser
  <2>1. PICK u \in users :
           /\ users' = users \ {u}
           /\ role' = [w \in Workspaces |-> [role[w] EXCEPT ![u] = None]]
           /\ key' = [k \in Keys |-> IF KeyExists(k) /\ key[k].creator = u
                                     THEN [NoKey EXCEPT !.state = "gone"] ELSE key[k]]
    BY <1>3 DEF DropUser
  <2>2. [NoKey EXCEPT !.state = "gone"] \in Key /\ [NoKey EXCEPT !.state = "gone"].state = "gone"
    BY DEF NoKey, Key
  <2>3. role' \in [Workspaces -> [Users -> Roles \cup {None}]]
    BY <2>1 DEF Rows
  <2>4. \A w \in Workspaces, v \in Users : role'[w][v] # None => v \in users'
    BY <2>1 DEF Rows
  <2>5. key' \in [Keys -> Key]
    BY <2>1, <2>2 DEF Rows
  <2>6. \A k \in Keys : KeyExists(k)' => key'[k].creator \in users'
    BY <2>1, <2>2 DEF Rows, KeyExists
  <2> QED
    BY <1>3, <2>1, <2>3, <2>4, <2>5, <2>6 DEF DropUser, Rows
<1>4. CASE Expire
  <2>1. PICK k \in Keys : key' = [key EXCEPT ![k].expired = TRUE]
    BY <1>4 DEF Expire
  <2>2. [key[k] EXCEPT !.expired = TRUE] \in Key /\ key \in [Keys -> Key]
    BY DEF Rows, Key
  <2>3. key' \in [Keys -> Key]
    BY <2>1, <2>2
  <2>4. \A j \in Keys : key'[j].state = key[j].state /\ key'[j].creator = key[j].creator
    BY <2>1, <2>2 DEF Key
  <2> QED
    BY <1>4, <2>3, <2>4, KeysKept DEF Expire, KeyExists
<1> QED
  BY <1>1, <1>2, <1>3, <1>4 DEF Change

LEMMA FiveMinutesRows == ASSUME Rows, FiveMinutesPass PROVE Rows'
<1>1. \A k \in Keys : [key[k] EXCEPT !.recent = FALSE] \in Key
  BY DEF Rows, Key
<1>2. key' \in [Keys -> Key] /\ \A k \in Keys : key'[k] = [key[k] EXCEPT !.recent = FALSE]
  BY <1>1 DEF FiveMinutesPass
<1>3. \A k \in Keys : key'[k].state = key[k].state /\ key'[k].creator = key[k].creator
  BY <1>2 DEF Rows, Key
<1> QED
  BY <1>2, <1>3, KeysKept DEF FiveMinutesPass, KeyExists

---------------------------------------------------------------------------
LEMMA InitInv == Init => IndInv
<1> SUFFICES ASSUME Init PROVE IndInv
  OBVIOUS
<1>1. Covered
  BY IdleIsCovered DEF Init, Covered, NoCall
<1>2. Guarded
  BY DEF Init, Guarded, NoAdmin
<1> QED
  BY <1>1, <1>2, InitTypes DEF IndInv

LEMMA NextInv == IndInv /\ [Next]_vars => IndInv'
<1> SUFFICES ASSUME IndInv, [Next]_vars PROVE IndInv'
  OBVIOUS
<1>1. CASE Next
  <2>1. Remember
    BY <1>1 DEF Next
  <2>2. Remembered'
    <3>1. changes' \in 0..MaxChanges
      BY <1>1, ChangesAssumption DEF Next, Counted, IndInv, Types, Remembered
    <3> QED
      BY <2>1, <3>1, RememberedTypes DEF Remembered, AllRights
  <2>3. ASSUME NEW c \in Callers,
               \/ PresentKey(c) \/ FindKey(c) \/ CheckPlan(c) \/ FindCreator(c)
               \/ PresentSession(c) \/ CheckMember(c) \/ CheckAddress(c) \/ Answer(c)
        PROVE  Rows' /\ Served' /\ Covered' /\ Guarded'
    <3>1. call' \in [Callers -> Call] /\ Covered'
      BY <2>1, <2>3, PresentStep, FindKeyStep, CheckPlanStep, FindCreatorStep, CheckMemberStep,
         CheckAddressStep, CallEnds DEF Answer, EndCall
    <3>2. Rows' /\ UNCHANGED admin
      BY <2>3, CallRows
    <3> QED
      BY <3>1, <3>2 DEF IndInv, Types, Served, Guarded
  <2>4. ASSUME NEW a \in Admins,
               \/ AskAdmin(a) \/ CheckOwner(a) \/ Load(a)
               \/ CommitCreateKey(a) \/ CommitRevokeKey(a) \/ CommitAllowlist(a)
        PROVE  Rows' /\ Served' /\ Covered' /\ Guarded'
    <3>1. Rows' /\ admin' \in [Admins -> Admin] /\ Guarded' /\ UNCHANGED call
      BY <2>4, AskAdminStep, CheckOwnerStep, LoadStep, CommitCreateKeyStep, CommitRevokeKeyStep,
         CommitAllowlistStep
    <3> QED
      BY <2>1, <3>1, NoCallMoves DEF Served
  <2>5. ASSUME Change \/ FiveMinutesPass PROVE Rows' /\ Served' /\ Covered' /\ Guarded'
    <3>1. Rows' /\ UNCHANGED <<call, admin>>
      BY <2>5, ChangeRows, FiveMinutesRows DEF Change, FiveMinutesPass, IndInv, Types
    <3> QED
      BY <2>1, <3>1, NoCallMoves DEF Served, Guarded, IndInv, Types
  <2> QED
    BY <1>1, <2>2, <2>3, <2>4, <2>5 DEF Next, Serve, IndInv, Types
<1>2. CASE UNCHANGED vars
  BY <1>2 DEF vars, IndInv, Types, Rows, Served, Remembered, Covered, Guarded, KeyExists
<1> QED
  BY <1>1, <1>2

LEMMA Inductive == Spec => []IndInv
  BY InitInv, NextInv, PTL DEF Spec

\* However requests, administrators, webhooks and time interleave, every row and request keeps to
\* its kind; a membership and a key that exists always belong to an account that does
\* (models/workspace_member.py and models/api_key.py, whose rows go with their account).
THEOREM TypeCorrect == Spec => []TypeOK
<1>1. IndInv => TypeOK
  BY TypesImplyTypeOK DEF IndInv
<1> QED
  BY <1>1, Inductive, PTL

\* A request is never admitted on a right it did not have at some moment while it was served,
\* although each of its checks is a query of its own and anything may change between two of them
\* (get_current_user, require_workspace_role, _enforce_ip_allowlist).
THEOREM AdmissionIsGrounded == Spec => []AdmittedOnGrounds
<1>1. IndInv => AdmittedOnGrounds
  BY DEF IndInv, Covered, CoveredBy, Checked, AdmittedOnGrounds
<1> QED
  BY <1>1, Inductive, PTL

---------------------------------------------------------------------------
LEMMA RevokedStays ==
    ASSUME IndInv, [Next]_vars, NEW k \in Keys, key[k].state = "revoked"
    PROVE  key'[k].state \in {"revoked", "gone"}
<1>1. key \in [Keys -> Key] /\ key[k] \in Key
  BY DEF IndInv, Types, Rows
<1>2. CASE UNCHANGED key
  BY <1>2
<1>3. ASSUME NEW c \in Callers, FindCreator(c) PROVE key'[k].state \in {"revoked", "gone"}
  BY <1>1, <1>3 DEF FindCreator, Touch, Key
<1>4. ASSUME NEW a \in Admins, CommitCreateKey(a) PROVE key'[k].state \in {"revoked", "gone"}
  BY <1>1, <1>4 DEF CommitCreateKey
<1>5. ASSUME NEW a \in Admins, CommitRevokeKey(a) PROVE key'[k].state \in {"revoked", "gone"}
  BY <1>1, <1>5 DEF CommitRevokeKey, Key
<1>6. CASE DropUser
  BY <1>1, <1>6 DEF DropUser, NoKey
<1>7. CASE Expire \/ FiveMinutesPass
  BY <1>1, <1>7 DEF Expire, FiveMinutesPass, Key
<1> QED
  BY <1>2, <1>3, <1>4, <1>5, <1>6, <1>7 DEF Next, Serve, Change, vars, PresentKey, FindKey, CheckPlan,
     PresentSession, CheckMember, CheckAddress, Answer, AskAdmin, CheckOwner, Load,
     CommitAllowlist, ChangeRole, ChangePlan

\* No request that carries a key brings it back: last_used_at is written long after the key was
\* read, and the key may have been revoked in between (_authenticate_api_key, revoke_api_key).
THEOREM RevokedForGood == Spec => RevocationIsFinal
<1>1. IndInv /\ [Next]_vars
        => [\A k \in Keys : key[k].state = "revoked" => key'[k].state \in {"revoked", "gone"}]_vars
  BY RevokedStays
<1> QED
  BY <1>1, Inductive, PTL DEF Spec, RevocationIsFinal

LEMMA ListedByItsSetter ==
    ASSUME IndInv, [Next]_vars, org'.list # org.list
    PROVE  \E a \in Admins : admin[a].pc = "loaded" /\ Inside(org', admin[a].from)
<1>1. org \in OrgRow
  BY DEF IndInv, Types, Rows
<1>2. ~ChangePlan
  BY <1>1 DEF ChangePlan, OrgRow
<1>3. PICK a \in Admins : CommitAllowlist(a)
  BY <1>2 DEF Next, Serve, Change, vars, PresentKey, FindKey, CheckPlan, FindCreator,
     PresentSession, CheckMember, CheckAddress, Answer, AskAdmin, CheckOwner, Load, CommitCreateKey,
     CommitRevokeKey, ChangeRole, DropUser, Expire, FiveMinutesPass
<1>4. org'.list = admin[a].list /\ GuardPasses(admin[a].list, admin[a].from)
  BY <1>1, <1>3 DEF CommitAllowlist, OrgRow, IndInv, Guarded
<1> QED
  BY <1>3, <1>4 DEF CommitAllowlist, GuardPasses, Inside

\* Whatever two owners save at once, each list that comes into force admits the address of the one
\* whose request put it there (set_ip_allowlist's self-lockout guard, checked before the save).
THEOREM NobodyShutsHimselfOut == Spec => SetterIsInside
<1>1. IndInv /\ [Next]_vars
        => [org'.list # org.list =>
              \E a \in Admins : admin[a].pc = "loaded" /\ Inside(org', admin[a].from)]_vars
  BY ListedByItsSetter
<1> QED
  BY <1>1, Inductive, PTL DEF Spec, SetterIsInside
=============================================================================
