------------------------------- MODULE Access -------------------------------
(***************************************************************************)
(* Who may do what: the dependencies every request passes                  *)
(* (app/api/deps.py) and the enterprise routes that change what they look  *)
(* at (app/api/enterprise.py, app/services/enterprise.py): API keys, their *)
(* scope and life, the plan, workspace roles, and the address allowlist.   *)
(*                                                                         *)
(* One organization.  A request checks one thing per query, each in a      *)
(* thread of its own, so everything it has checked may have changed when   *)
(* it is admitted.  A caller asks for a workspace, with a session or a key *)
(* of the organization; an administrator asks for one of the               *)
(* organization's own routes, with a session.                              *)
(***************************************************************************)
EXTENDS Integers, FiniteSets

CONSTANTS
    Users,
    Workspaces,    \* the organization's workspaces
    Elsewhere,     \* stands for a workspace of another organization
    OrgRoute,      \* stands for a path without a workspace_id
    Keys,          \* rows of api_keys that can be made (the bound on them)
    Addresses,
    Callers,       \* requests for a workspace served at once
    Admins,        \* requests for the organization's routes served at once
    None,
    MaxChanges     \* bound on the administrators' requests and on the changes made elsewhere

ASSUME TargetAssumption == Elsewhere \notin Workspaces /\ OrgRoute \notin Workspaces
ASSUME ChangesAssumption == MaxChanges \in Nat
ASSUME NobodyAssumption == None \notin Users \cup Keys \cup Addresses

VARIABLES
    users,         \* the accounts
    role,          \* workspace_members: workspace -> user -> role, or None
    org,           \* the organization's plan and ip_allowlist
    key,           \* api_keys
    call,          \* caller -> its request
    admin,         \* admin -> its request
    grounds,       \* caller -> what has been true since its request came; for the properties
    changes        \* how many of both there were

vars == <<users, role, org, key, call, admin, grounds, changes>>

Roles == {"viewer", "editor", "admin", "owner"}
Rank == [viewer |-> 0, editor |-> 1, admin |-> 2, owner |-> 3]

\* plan_has_feature: all three features come with one plan; an unknown plan has none.
Plans == {"pro", "enterprise"}
HasFeature(plan) == plan = "enterprise"

NoKey == [state |-> "unborn", creator |-> None, scope |-> "read", expired |-> FALSE,
          recent |-> FALSE]
Key == [state : {"unborn", "live", "revoked", "gone"}, creator : Users \cup {None},
        scope : {"read", "read_write"}, expired : BOOLEAN, recent : BOOLEAN]
KeyExists(k) == key[k].state \in {"live", "revoked"}

NoCall == [pc |-> "idle", key |-> None, user |-> None, to |-> OrgRoute, write |-> FALSE,
           from |-> None, touch |-> FALSE, org |-> None]
NoAdmin == [pc |-> "idle", op |-> "none", user |-> None, key |-> None, scope |-> "read",
            list |-> {}, from |-> None, loaded |-> {}]

OrgRow == [plan : Plans, list : SUBSET Addresses]

TypeOK ==
    /\ users \subseteq Users
    /\ role \in [Workspaces -> [Users -> Roles \cup {None}]]
    /\ \A w \in Workspaces, u \in Users : role[w][u] # None => u \in users
    /\ org \in OrgRow
    /\ key \in [Keys -> Key]
    /\ \A k \in Keys : KeyExists(k) => key[k].creator \in users
    /\ call \in [Callers -> [pc : {"idle", "token", "key", "planned", "user", "member", "admitted"},
                             key : Keys \cup {None}, user : Users \cup {None},
                             to : Workspaces \cup {Elsewhere, OrgRoute}, write : BOOLEAN,
                             from : Addresses \cup {None}, touch : BOOLEAN,
                             org : OrgRow \cup {None}]]
    /\ \A a \in Admins : admin[a].pc \in {"idle", "user", "owner", "loaded"}
    /\ changes \in 0..MaxChanges

---------------------------------------------------------------------------
(* _authenticate_api_key, one query after another. *)

\* The row of the presented prefix, whose hash is right: key_unusable_reason.
Usable(k) == key[k].state = "live" /\ ~key[k].expired

\* scope_allows: a read key makes safe requests only.
ScopeAllows(k, write) == key[k].scope = "read_write" \/ ~write

EndCall(c) == call' = [call EXCEPT ![c] = NoCall]
Proceed(c, ok, q) == call' = [call EXCEPT ![c] = IF ok THEN q ELSE NoCall]

PresentKey(c) ==
    /\ call[c].pc = "idle"
    /\ \E k \in Keys, to \in Workspaces \cup {Elsewhere, OrgRoute}, write \in BOOLEAN,
          from \in Addresses :
         call' = [call EXCEPT ![c] = [NoCall EXCEPT !.pc = "token", !.key = k, !.to = to,
                                                    !.write = write, !.from = from]]
    /\ UNCHANGED <<users, role, org, key, admin>>

\* Key row, scope, path and workspace; a workspace row never changes its organization.
FindKey(c) ==
    /\ call[c].pc = "token"
    /\ LET q == call[c] IN
         Proceed(c, Usable(q.key) /\ ScopeAllows(q.key, q.write) /\ q.to \in Workspaces,
                 [q EXCEPT !.pc = "key", !.user = key[q.key].creator,
                           !.touch = ~key[q.key].recent])
    /\ UNCHANGED <<users, role, org, key, admin>>

\* The organization's row stays in the session, which answers later lookups from it.
CheckPlan(c) ==
    /\ call[c].pc = "key"
    /\ Proceed(c, HasFeature(org.plan), [call[c] EXCEPT !.pc = "planned", !.org = org])
    /\ UNCHANGED <<users, role, org, key, admin>>

\* The key's creator, and last_used_at at most once in five minutes.  The UPDATE names that
\* column only; its commit expires the rows the session holds, and fails if the key is gone.
TouchWholeRow(k) == [key EXCEPT ![k].recent = TRUE, ![k].state = "live"]
Touch(k) == [key EXCEPT ![k].recent = TRUE]

FindCreator(c) ==
    /\ call[c].pc = "planned"
    /\ LET q == call[c]
           found == q.user \in users
       IN  IF found /\ q.touch
           THEN /\ key' = IF KeyExists(q.key) THEN Touch(q.key) ELSE key
                /\ Proceed(c, KeyExists(q.key), [q EXCEPT !.pc = "user", !.org = None])
           ELSE /\ Proceed(c, found, [q EXCEPT !.pc = "user"])
                /\ UNCHANGED key
    /\ UNCHANGED <<users, role, org, admin>>

---------------------------------------------------------------------------
(* get_current_user with a session, and require_workspace_role. *)

PresentSession(c) ==
    /\ call[c].pc = "idle"
    /\ \E u \in users, w \in Workspaces, write \in BOOLEAN, from \in Addresses :
         call' = [call EXCEPT ![c] = [NoCall EXCEPT !.pc = "user", !.user = u, !.to = w,
                                                    !.write = write, !.from = from]]
    /\ UNCHANGED <<users, role, org, key, admin>>

\* What a route asks for: viewers read, editors write; these two stand for every floor.
Floor(write) == IF write THEN "editor" ELSE "viewer"
MeetsFloor(w, u, write) == role[w][u] # None /\ Rank[role[w][u]] >= Rank[Floor(write)]

CheckMemberAnyRole(c) ==
    /\ call[c].pc = "user"
    /\ LET q == call[c] IN Proceed(c, role[q.to][q.user] # None, [q EXCEPT !.pc = "member"])
    /\ UNCHANGED <<users, role, org, key, admin>>

CheckMember(c) ==
    /\ call[c].pc = "user"
    /\ LET q == call[c] IN
         Proceed(c, MeetsFloor(q.to, q.user, q.write), [q EXCEPT !.pc = "member"])
    /\ UNCHANGED <<users, role, org, key, admin>>

\* ip_allowed, behind _enforce_ip_allowlist's two conditions: no list admits everyone, a list
\* that the plan no longer includes is not looked at.
Inside(o, from) == o.list = {} \/ ~HasFeature(o.plan) \/ from \in o.list

CheckAddress(c) ==
    /\ call[c].pc = "member"
    /\ LET q == call[c]
           o == IF q.org = None THEN org ELSE q.org
       IN  Proceed(c, Inside(o, q.from), [q EXCEPT !.pc = "admitted"])
    /\ UNCHANGED <<users, role, org, key, admin>>

Answer(c) ==
    /\ call[c].pc = "admitted"
    /\ EndCall(c)
    /\ UNCHANGED <<users, role, org, key, admin>>

---------------------------------------------------------------------------
(* The organization's routes: require_organization_owner, then the handler. *)

ToAdmin(a, ok, q) == admin' = [admin EXCEPT ![a] = IF ok THEN q ELSE NoAdmin]

AskAdmin(a) ==
    /\ admin[a].pc = "idle"
    /\ \E u \in users :
         LET asks == [NoAdmin EXCEPT !.pc = "user", !.user = u] IN
         \/ \E s \in {"read", "read_write"} :
              admin' = [admin EXCEPT ![a] = [asks EXCEPT !.op = "create_key", !.scope = s]]
         \/ \E k \in Keys : /\ key[k].state # "unborn"
                            /\ admin' = [admin EXCEPT ![a] = [asks EXCEPT !.op = "revoke_key",
                                                                          !.key = k]]
         \/ \E l \in SUBSET Addresses, from \in Addresses :
              admin' = [admin EXCEPT ![a] = [asks EXCEPT !.op = "set_ip_allowlist",
                                                         !.list = l, !.from = from]]
    /\ UNCHANGED <<users, role, org, key, call>>

\* An owner of any of the organization's workspaces.
OwnsSomewhere(u) == \E w \in Workspaces : role[w][u] = "owner"

CheckOwner(a) ==
    /\ admin[a].pc = "user"
    /\ ToAdmin(a, OwnsSomewhere(admin[a].user), [admin[a] EXCEPT !.pc = "owner"])
    /\ UNCHANGED <<users, role, org, key, call>>

\* create_api_key and set_ip_allowlist are gated by the plan, revoke_api_key is not; the
\* self-lockout guard wants the caller's own address in a list that is not empty.
NoGuard(list, from) == TRUE
GuardPasses(list, from) == list = {} \/ from \in list

Load(a) ==
    /\ admin[a].pc = "owner"
    /\ LET q == admin[a] IN
         ToAdmin(a, CASE q.op = "create_key" -> HasFeature(org.plan)
                      [] q.op = "revoke_key" -> key[q.key].state = "live"
                      [] q.op = "set_ip_allowlist" -> HasFeature(org.plan)
                                                        /\ GuardPasses(q.list, q.from),
                 [q EXCEPT !.pc = "loaded", !.loaded = org.list])
    /\ UNCHANGED <<users, role, org, key, call>>

\* api_keys.created_by_user_id: the foreign key rejects a row whose account is gone.
AccountUnchecked(u) == TRUE
AccountThere(u) == u \in users

\* A key is born live and unused, and some day expires (compute_expiry, Expire).
CommitCreateKey(a) ==
    /\ admin[a].pc = "loaded" /\ admin[a].op = "create_key"
    /\ IF AccountThere(admin[a].user)
       THEN \E k \in Keys : /\ key[k].state = "unborn"
                            /\ key' = [key EXCEPT ![k] = [NoKey EXCEPT !.state = "live",
                                                            !.creator = admin[a].user,
                                                            !.scope = admin[a].scope]]
       ELSE UNCHANGED key
    /\ ToAdmin(a, FALSE, NoAdmin)
    /\ UNCHANGED <<users, role, org, call>>

CommitRevokeKey(a) ==
    /\ admin[a].pc = "loaded" /\ admin[a].op = "revoke_key"
    /\ key' = IF KeyExists(admin[a].key) THEN [key EXCEPT ![admin[a].key].state = "revoked"]
              ELSE key
    /\ ToAdmin(a, FALSE, NoAdmin)
    /\ UNCHANGED <<users, role, org, call>>

\* Only a list that differs from the loaded one is written.
CommitAllowlist(a) ==
    /\ admin[a].pc = "loaded" /\ admin[a].op = "set_ip_allowlist"
    /\ org' = IF admin[a].list # admin[a].loaded THEN [org EXCEPT !.list = admin[a].list]
              ELSE org
    /\ ToAdmin(a, FALSE, NoAdmin)
    /\ UNCHANGED <<users, role, key, call>>

---------------------------------------------------------------------------
(* What other requests, webhooks and time do meanwhile. *)

Counted == changes < MaxChanges /\ changes' = changes + 1

ChangeRole ==
    /\ \E w \in Workspaces, u \in users, r \in Roles \cup {None} :
         role[w][u] # r /\ role' = [role EXCEPT ![w][u] = r]
    /\ UNCHANGED <<users, org, key>>

ChangePlan ==
    /\ \E p \in Plans \ {org.plan} : org' = [org EXCEPT !.plan = p]
    /\ UNCHANGED <<users, role, key>>

\* Memberships and keys go with the account.
DropUser ==
    /\ \E u \in users :
         /\ users' = users \ {u}
         /\ role' = [w \in Workspaces |-> [role[w] EXCEPT ![u] = None]]
         /\ key' = [k \in Keys |-> IF KeyExists(k) /\ key[k].creator = u
                                   THEN [NoKey EXCEPT !.state = "gone"] ELSE key[k]]
    /\ UNCHANGED org

Expire ==
    /\ \E k \in Keys : /\ KeyExists(k) /\ ~key[k].expired
                       /\ key' = [key EXCEPT ![k].expired = TRUE]
    /\ UNCHANGED <<users, role, org>>

FiveMinutesPass ==
    /\ \E k \in Keys : key[k].recent
    /\ key' = [k \in Keys |-> [key[k] EXCEPT !.recent = FALSE]]
    /\ UNCHANGED <<users, role, org, call, admin>>

---------------------------------------------------------------------------
Serve ==
    \/ \E c \in Callers : \/ PresentKey(c) \/ FindKey(c) \/ CheckPlan(c) \/ FindCreator(c)
                          \/ PresentSession(c) \/ CheckMember(c) \/ CheckAddress(c) \/ Answer(c)
    \/ \E a \in Admins : \/ CheckOwner(a) \/ Load(a)
                         \/ CommitCreateKey(a) \/ CommitRevokeKey(a) \/ CommitAllowlist(a)

Change == (ChangeRole \/ ChangePlan \/ DropUser \/ Expire) /\ UNCHANGED <<call, admin>>

\* What speaks for the caller's request now.
Rights(c) ==
    LET q == call[c] IN
    {right \in {"key", "scope", "plan", "member", "address"} :
        CASE right = "key" -> q.key # None /\ Usable(q.key)
          [] right = "scope" -> q.key # None /\ KeyExists(q.key) /\ ScopeAllows(q.key, q.write)
          [] right = "plan" -> HasFeature(org.plan)
          [] right = "member" -> q.to \in Workspaces /\ q.user # None
                                   /\ MeetsFloor(q.to, q.user, q.write)
          [] right = "address" -> Inside(org, q.from)}

Remember == grounds' = [c \in Callers |-> IF call'[c].pc = "idle" THEN {}
                                          ELSE grounds[c] \cup Rights(c)']

Init ==
    /\ users = Users
    /\ \E u \in Users :
         role = [w \in Workspaces |-> [v \in Users |-> IF v = u THEN "owner" ELSE "editor"]]
    /\ org \in [plan : Plans, list : {{}}]
    /\ key = [k \in Keys |-> NoKey]
    /\ call = [c \in Callers |-> NoCall]
    /\ admin = [a \in Admins |-> NoAdmin]
    /\ grounds = [c \in Callers |-> {}]
    /\ changes = 0

Next ==
    /\ \/ (Serve \/ FiveMinutesPass) /\ UNCHANGED changes
       \/ (Change \/ \E a \in Admins : AskAdmin(a)) /\ Counted
    /\ Remember

Spec == Init /\ [][Next]_vars

---------------------------------------------------------------------------
(* Properties *)

\* A request is admitted only on rights that it had while it was served: whatever another request
\* changed in between, there was a moment after its arrival at which it met its route's floor, was
\* inside the allowlist and, with a key, at which the key was neither revoked nor expired, had the
\* scope, and was paid for.  A key revoked before a request, a role lost before it, or an allowlist
\* in force before it can therefore never let it through (app/api/deps.py).
AdmittedOnGrounds ==
    \A c \in Callers :
        call[c].pc = "admitted" =>
            /\ call[c].to \in Workspaces
            /\ {"member", "address"} \subseteq grounds[c]
            /\ call[c].key # None => {"key", "scope", "plan"} \subseteq grounds[c]

\* A revoked key stays revoked, although every request that carries it may be about to write its
\* row (deps._authenticate_api_key's last_used_at against enterprise.revoke_api_key).
RevocationIsFinal ==
    [][\A k \in Keys : key[k].state = "revoked" => key'[k].state \in {"revoked", "gone"}]_vars

\* Nobody shuts himself out: a list that comes into force lists the address of the owner who set
\* it, and every key and session used from there still passes it (enterprise.set_ip_allowlist).
SetterIsInside ==
    [][org'.list # org.list =>
          \E a \in Admins : admin[a].pc = "loaded" /\ Inside(org', admin[a].from)]_vars
=============================================================================
