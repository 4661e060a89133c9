---------------------------- MODULE UserMirror ----------------------------
(***************************************************************************)
(* The users table as a mirror of the identity provider: get_current_user  *)
(* of app/api/deps.py makes a row at a person's first request,             *)
(* clerk_webhook of app/api/auth.py makes, changes and deletes rows as the *)
(* provider reports it.  Both read the row first and write it later, and   *)
(* only the unique keys on auth_provider_id and email stand between them.  *)
(*                                                                         *)
(* The provider delivers an event until it is answered with success, or    *)
(* gives up; events may overtake one another.                              *)
(***************************************************************************)
EXTENDS Integers, SequencesExt

CONSTANTS
    Identities,    \* auth_provider_id
    Emails,
    Calls,         \* requests of signed-in people in flight at once
    MaxEvents,     \* bound on what happens at the provider
    None

VARIABLES
    account,       \* at the provider: identity -> its e-mail, None if it has none, or a state
    happened,      \* how many things have happened there
    events,        \* identity -> the events still to be delivered, oldest first
    users,         \* the table: identity -> the e-mail of its row, or None
    hook,          \* identity -> which of them is being handled, 0 for none, and the row it saw
    call,          \* slot -> the request being authenticated
    claims,        \* identity -> the e-mails its tokens may carry
    astray         \* identities with an event overtaken or given up, or a token outliving them

vars == <<account, happened, events, users, hook, call, claims, astray>>

Maybe == Emails \cup {None}
Event == [type : {"user.created", "user.updated", "user.deleted"}, email : Maybe]
Accounts == Maybe \cup {"unborn", "gone"}

NoHook == [at |-> 0, saw |-> None]
NoCall == [stage |-> "idle", of |-> None, email |-> None]

TypeOK ==
    /\ account \in [Identities -> Accounts]
    /\ happened \in 0..MaxEvents
    /\ \A i \in Identities : \A k \in DOMAIN events[i] : events[i][k] \in Event
    /\ users \in [Identities -> Maybe]
    /\ \A i \in Identities : hook[i].at \in {0} \cup DOMAIN events[i] /\ hook[i].saw \in Maybe
    /\ call \in [Calls -> [stage : {"idle", "unknown"}, of : Identities \cup {None},
                           email : Maybe]]
    /\ claims \in [Identities -> SUBSET Emails]
    /\ astray \subseteq Identities

Taken(e, i) == \E k \in Identities \ {i} : users[k] = e

---------------------------------------------------------------------------
(* The provider *)

Report(i, type, e) ==
    /\ happened < MaxEvents
    /\ happened' = happened + 1
    /\ events' = [events EXCEPT ![i] = Append(@, [type |-> type, email |-> e])]
    /\ UNCHANGED <<users, hook, call, astray>>

Held(e) == e # None /\ \E i \in Identities : account[i] = e

SignUp(i, e) ==
    /\ account[i] = "unborn" /\ ~Held(e)
    /\ account' = [account EXCEPT ![i] = e]
    /\ claims' = [claims EXCEPT ![i] = {e} \ {None}]
    /\ Report(i, "user.created", e)

ChangeEmail(i, e) ==
    /\ account[i] \in Maybe /\ account[i] # e /\ ~Held(e)
    /\ account' = [account EXCEPT ![i] = e]
    /\ claims' = [claims EXCEPT ![i] = @ \cup ({e} \ {None})]
    /\ Report(i, "user.updated", e)

CloseAccount(i) ==
    /\ account[i] \in Maybe
    /\ account' = [account EXCEPT ![i] = "gone"]
    /\ Report(i, "user.deleted", None)
    /\ UNCHANGED claims

---------------------------------------------------------------------------
(* clerk_webhook: what the SELECT saw decides between INSERT and UPDATE. *)

Deliver(i, k) ==
    /\ hook[i].at = 0
    /\ k \in DOMAIN events[i]
    /\ hook' = [hook EXCEPT ![i] = [at |-> k, saw |-> users[i]]]
    /\ astray' = IF k = 1 THEN astray ELSE astray \cup {i}
    /\ UNCHANGED <<account, happened, events, users, call, claims>>

Handled(i) == events[i][hook[i].at]
Settle(i) ==
    /\ events' = [events EXCEPT ![i] = RemoveAt(@, hook[i].at)]
    /\ hook' = [hook EXCEPT ![i] = NoHook]

\* email or user.email
NewEmail(i) == IF Handled(i).email # None THEN Handled(i).email ELSE hook[i].saw

\* What the commit refuses: an e-mail that is missing or taken, a second row, an UPDATE of none.
Refused(i) ==
    /\ Handled(i).type # "user.deleted"
    /\ \/ NewEmail(i) = None
       \/ Taken(NewEmail(i), i)
       \/ hook[i].saw = None /\ users[i] # None
       \/ hook[i].saw # None /\ users[i] = None

\* An UPDATE names the columns that differ from what was read.
Written(i) ==
    IF Handled(i).type = "user.deleted" THEN (IF hook[i].saw = None THEN users[i] ELSE None)
    ELSE IF NewEmail(i) = hook[i].saw THEN users[i] ELSE NewEmail(i)

Commit(i) ==
    /\ hook[i].at # 0 /\ ~Refused(i)
    /\ users' = [users EXCEPT ![i] = Written(i)]
    /\ Settle(i)
    /\ UNCHANGED <<account, happened, call, claims, astray>>

FailAnswering(i) ==
    /\ hook[i].at # 0 /\ Refused(i)
    /\ Settle(i)
    /\ UNCHANGED <<account, happened, users, call, claims, astray>>
\* 500, or a success whose answer is lost: the event is delivered again later.
Fail(i) ==
    /\ hook[i].at # 0
    /\ \/ Refused(i) /\ UNCHANGED users
       \/ ~Refused(i) /\ users' = [users EXCEPT ![i] = Written(i)]
    /\ hook' = [hook EXCEPT ![i] = NoHook]
    /\ UNCHANGED <<account, happened, events, call, claims, astray>>

GiveUp(i) ==
    /\ hook[i].at = 0 /\ events[i] # <<>>
    /\ events' = [events EXCEPT ![i] = Tail(@)]
    /\ astray' = astray \cup {i}
    /\ UNCHANGED <<account, happened, users, hook, call, claims>>

---------------------------------------------------------------------------
(* get_current_user *)

\* A token with an e-mail claim; a row that is there is used as it is.
FirstSight(c, i, e) ==
    /\ call[c].stage = "idle"
    /\ users[i] = None
    /\ e \in claims[i]
    /\ call' = [call EXCEPT ![c] = [stage |-> "unknown", of |-> i, email |-> e]]
    /\ UNCHANGED <<account, happened, events, users, hook, claims, astray>>

Insert(c) ==
    /\ call[c].stage = "unknown"
    /\ LET i == call[c].of  e == call[c].email IN
        /\ users[i] = None /\ ~Taken(e, i)
        /\ users' = [users EXCEPT ![i] = e]
        /\ astray' = IF account[i] = "gone" THEN astray \cup {i} ELSE astray
    /\ call' = [call EXCEPT ![c] = NoCall]
    /\ UNCHANGED <<account, happened, events, hook, claims>>

\* The unique key: 500 for this request.
Collide(c) ==
    /\ call[c].stage = "unknown"
    /\ users[call[c].of] # None \/ Taken(call[c].email, call[c].of)
    /\ call' = [call EXCEPT ![c] = NoCall]
    /\ UNCHANGED <<account, happened, events, users, hook, claims, astray>>

Init ==
    /\ account = [i \in Identities |-> "unborn"]
    /\ happened = 0
    /\ events = [i \in Identities |-> <<>>]
    /\ users = [i \in Identities |-> None]
    /\ hook = [i \in Identities |-> NoHook]
    /\ call = [c \in Calls |-> NoCall]
    /\ claims = [i \in Identities |-> {}]
    /\ astray = {}

Next ==
    \/ \E i \in Identities :
        \/ \E e \in Maybe : SignUp(i, e) \/ ChangeEmail(i, e)
        \/ CloseAccount(i) \/ Commit(i) \/ Fail(i) \/ GiveUp(i)
        \/ \E k \in 1..MaxEvents : Deliver(i, k)
    \/ \E c \in Calls :
        \/ \E i \in Identities, e \in Emails : FirstSight(c, i, e)
        \/ Insert(c) \/ Collide(c)

Spec == Init /\ [][Next]_vars

---------------------------------------------------------------------------
(* Properties *)

\* A row's e-mail is one its identity has had.  And whatever inserts, updates, deletions and
\* refusals met on the way: when all events of an identity have been answered, none overtaken or
\* given up, its row has the e-mail it has at the provider, if it has one, and there is none of
\* an account that is gone, unless a token outlived it (app/api/auth.py, app/api/deps.py).
Follows(i) == /\ account[i] \in Emails => users[i] = account[i]
              /\ account[i] \in {"unborn", "gone"} => users[i] = None
MirrorFollows ==
    \A i \in Identities :
        /\ users[i] \in claims[i] \cup {None}
        /\ events[i] = <<>> /\ i \notin astray => Follows(i)
===========================================================================
