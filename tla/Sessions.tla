------------------------------ MODULE Sessions ------------------------------
(***************************************************************************)
(* Database sessions of one server process: the connection pool            *)
(* (app/core/database.py), the workspace a transaction is confined to      *)
(* (app/core/rls.py, the policies of migration 0010), and the event loop   *)
(* that hands requests to threads.                                         *)
(*                                                                         *)
(* FastAPI runs each dependency, each synchronous handler and the closing  *)
(* of the session in a thread, one after another, and goes back to the     *)
(* event loop in between.  A session holds its connection from its first   *)
(* query to its commit, or else until it is closed.  An async handler (the *)
(* Stripe webhook) runs on the loop and waits for its connection there.    *)
(* The threads are limited in number, but for those that close sessions.   *)
(***************************************************************************)
EXTENDS Naturals, FiniteSets

CONSTANTS
    Requests,      \* request slots
    Connections,   \* pool_size + max_overflow of them
    Threads,       \* how many threads the server runs its dependencies and handlers in
    Workspaces,
    None

VARIABLES
    setting,       \* connection -> app.current_workspace_id
    request,       \* slot -> the request it serves
    loop           \* the request whose code is running on the event loop, or None

vars == <<setting, request, loop>>

\* current_setting(..., true) of a connection: NULL before anyone has set it, the empty
\* string once a transaction that had set it has ended.
Settings == {"null", "empty"} \cup Workspaces

\* routes: of a workspace; of an organization, a caller without workspace; the webhook
Idle == [route |-> "none", ws |-> None, stage |-> "idle", thread |-> FALSE, conn |-> None,
         saw |-> "nothing", confined |-> FALSE]
Request == [route : {"none", "workspace", "organization", "webhook"}, ws : Workspaces \cup {None},
            stage : {"idle", "auth", "role", "handler", "refresh", "hook", "close"},
            thread : BOOLEAN, conn : Connections \cup {None},
            saw : {"nothing", "own", "all", "other", "error"}, confined : BOOLEAN]

TypeOK ==
    /\ setting \in [Connections -> Settings]
    /\ request \in [Requests -> Request]
    /\ loop \in Requests \cup {None}
    /\ \A r, s \in Requests : r # s /\ request[r].conn # None => request[r].conn # request[s].conn

Free == Connections \ {request[r].conn : r \in Requests}

---------------------------------------------------------------------------
(* PostgreSQL *)

\* The policies: workspace_id = current_setting(...)::uuid OR current_setting(...) IS NULL.
\* The empty string is not a uuid, so the cast raises.
Rows(s, ws) == IF s = "null" THEN "all"
               ELSE IF s = "empty" THEN "error"
               ELSE IF s = ws THEN "own" ELSE "other"

\* set_config(..., is_local = true) lasts until the transaction ends.
AfterSessionWide(s) == s
AfterTransaction(s) == IF s \in Workspaces THEN "empty" ELSE s

EndTransaction(c) == setting' = [setting EXCEPT ![c] = AfterTransaction(@)]

---------------------------------------------------------------------------
(* A request *)

Arrive(r) ==
    /\ request[r].stage = "idle"
    /\ \/ \E w \in Workspaces :
            request' = [request EXCEPT ![r] = [Idle EXCEPT !.route = "workspace", !.ws = w,
                                                           !.stage = "auth"]]
       \/ request' = [request EXCEPT ![r] = [Idle EXCEPT !.route = "organization",
                                                         !.stage = "auth"]]
       \/ request' = [request EXCEPT ![r] = [Idle EXCEPT !.route = "webhook", !.stage = "hook"]]
    /\ UNCHANGED <<setting, loop>>

InThread(r, stage) == request[r].stage = stage /\ request[r].thread

\* The limit counts dependencies and handlers; FastAPI lets a session's end pass it by.
Busy == {r \in Requests : request[r].thread /\ request[r].stage # "close"}
ThreadLeft == Cardinality(Busy) < Threads

\* The loop hands the request's next piece to a thread, or starts the async handler itself.
CanDispatch(r) ==
    /\ loop = None
    /\ request[r].stage # "idle" /\ ~request[r].thread
    /\ request[r].stage \in {"hook", "close"} \/ ThreadLeft

Dispatch(r) ==
    /\ CanDispatch(r)
    /\ IF request[r].stage = "hook"
       THEN loop' = r /\ UNCHANGED request
       ELSE request' = [request EXCEPT ![r].thread = TRUE] /\ UNCHANGED loop
    /\ UNCHANGED setting

\* Who begins a transaction asks the pool for a connection, and has its answer: a connection, or
\* in the end that there is none.
AsksPool(r) == InThread(r, "auth") \/ InThread(r, "refresh") \/ loop = r
NeverGivesUp(r) == FALSE
GivesUp(r) == AsksPool(r) /\ Free = {}

\* get_current_user opens the transaction; users carries no policy.
Authenticate(r) ==
    /\ InThread(r, "auth")
    /\ \E c \in Free : request' = [request EXCEPT ![r].conn = c, ![r].stage = "role",
                                                  ![r].thread = FALSE]
    /\ UNCHANGED <<setting, loop>>

\* require_workspace_role or require_organization_owner: both look up workspace_members, which
\* has a policy; only the former confines the rest of the transaction to its workspace.
Authorize(r) ==
    /\ InThread(r, "role")
    /\ \E allowed \in BOOLEAN :
         LET q == request[r]
             rows == Rows(setting[q.conn], q.ws)
             passes == allowed /\ rows # "error"
             confines == passes /\ q.route = "workspace"
         IN
          /\ setting' = IF confines THEN [setting EXCEPT ![q.conn] = q.ws] ELSE setting
          /\ request' = [request EXCEPT ![r].saw = rows, ![r].thread = FALSE,
                                        ![r].confined = confines,
                                        ![r].stage = IF passes THEN "handler" ELSE "close"]
    /\ UNCHANGED loop

\* The handler's queries, and its commit if it writes: the connection goes back to the pool.
Handle(r) ==
    /\ InThread(r, "handler")
    /\ LET q == request[r]
           rows == Rows(setting[q.conn], q.ws)
       IN  \/ /\ request' = [request EXCEPT ![r].saw = rows, ![r].stage = "close",
                                            ![r].thread = FALSE]
              /\ UNCHANGED setting
           \/ /\ rows # "error"
              /\ EndTransaction(q.conn)
              /\ request' = [request EXCEPT ![r].saw = rows, ![r].stage = "refresh",
                                            ![r].conn = None]
    /\ UNCHANGED loop

\* db.refresh after the commit, or the reload of an expired row: a new transaction, on any
\* connection, that nobody confines.
Refresh(r) ==
    /\ InThread(r, "refresh")
    /\ \E c \in Free :
         request' = [request EXCEPT ![r].conn = c, ![r].stage = "close", ![r].thread = FALSE,
                                    ![r].saw = Rows(setting[c], request[r].ws),
                                    ![r].confined = FALSE]
    /\ UNCHANGED <<setting, loop>>

\* get_db's finally, whatever happened before it.
Close(r) ==
    /\ InThread(r, "close")
    /\ IF request[r].conn = None THEN UNCHANGED setting ELSE EndTransaction(request[r].conn)
    /\ request' = [request EXCEPT ![r] = Idle]
    /\ UNCHANGED loop

\* The pool gives up after thirty seconds: the request fails, the loop goes on.
TimesOut(r) ==
    /\ GivesUp(r)
    /\ request' = [request EXCEPT ![r].stage = "close", ![r].thread = FALSE]
    /\ loop' = IF loop = r THEN None ELSE loop
    /\ UNCHANGED setting

\* stripe_webhook from its first query to its commit: organizations and billing_events carry
\* no policy.
RunHook(r) ==
    /\ loop = r
    /\ Free # {}
    /\ loop' = None
    /\ request' = [request EXCEPT ![r].stage = "close"]
    /\ UNCHANGED setting

\* An idle connection is closed (one of the overflow, or found dead by pool_pre_ping); the
\* next checkout opens a new one.
Replace(c) ==
    /\ c \in Free
    /\ setting' = [setting EXCEPT ![c] = "null"]
    /\ UNCHANGED <<request, loop>>

Init ==
    /\ setting = [c \in Connections |-> "null"]
    /\ request = [r \in Requests |-> Idle]
    /\ loop = None

\* What a thread, or the handler on the loop, does next.
Run(r) == \/ Authenticate(r) \/ Authorize(r) \/ Handle(r) \/ Refresh(r) \/ Close(r)
          \/ TimesOut(r) \/ RunHook(r)

Next ==
    \/ \E r \in Requests : Arrive(r) \/ Dispatch(r) \/ Run(r)
    \/ \E c \in Connections : Replace(c)

Spec == Init /\ [][Next]_vars

---------------------------------------------------------------------------
(* Properties *)

\* Whatever passed through a connection before, no query of a request is answered with another
\* workspace's rows, and from the authorization to the commit its queries see its own
\* workspace's rows and nothing else (app/core/rls.py).
ConfinedToWorkspace ==
    \A r \in Requests :
        LET q == request[r] IN
        /\ q.saw # "other"
        /\ q.confined /\ q.stage # "handler" => q.saw = "own"

\* What a thread that wants nothing of the pool does next, and what any code that runs does.
Proceeds(r) == InThread(r, "role") \/ InThread(r, "handler") \/ InThread(r, "close")
CanRun(r) == Proceeds(r) \/ (AsksPool(r) /\ Free # {}) \/ GivesUp(r)

\* Nobody waits on somebody who waits on him.  A request that has come can move, or waits for the
\* loop or for a thread, and then one that has it can: also when every connection is held by
\* requests that need the loop or a thread to give it back, and the loop and the threads wait for
\* a connection, which only the pool's timeout resolves.  Nobody needs that timeout while the loop
\* is free and a thread is left: of the requests that hold the connections one can go on
\* (app/core/database.py, app/api/billing.py).
EveryRequestCanMove ==
    \A r \in Requests :
        request[r].stage # "idle" =>
            /\ \/ CanRun(r) \/ CanDispatch(r)
               \/ loop # None /\ CanRun(loop)
               \/ ~ThreadLeft /\ \E s \in Busy : CanRun(s)
            /\ AsksPool(r) /\ Free = {} /\ loop = None /\ ThreadLeft =>
                 \E s \in Requests : request[s].conn # None /\ (Proceeds(s) \/ CanDispatch(s))

\* tests/integration/test_rls_postgres.py: a query without workspace, on a connection that
\* served one before, does not fail.
UnscopedQueriesWork == \A r \in Requests : request[r].saw # "error"
=============================================================================
