# Verification of the AI data analyst backend

TLA+ models of the FastAPI backend (`src/apps/api/app`), TLC configurations that check them on small
instances, and TLAPS proofs of what holds for every instance. Paths below are relative to
`src/apps/api/app` unless they say otherwise.

The backend is a set of request handlers over PostgreSQL, an object store (MinIO), Redis, Stripe and
Clerk. It is deployed as two uvicorn processes (`src/infra/docker/api.Dockerfile:25`). A synchronous
handler runs in a thread of the process's pool; the few `async` ones (`stripe_webhook`, `clerk_webhook`,
`upload_dataset`) run on its event loop, one at a time. Every request has a SQLAlchemy session of its own
(`core/database.py`), at READ COMMITTED, without row locks other than those of its own writes, with
autoflush off. So whatever a handler reads may be out of date when it commits, and what stops two handlers
from breaking an invariant is, in nearly every case, a unique key, a foreign key, or nothing. That is
where these models look.

## 1. The system

| component | state | operations | models |
| --- | --- | --- | --- |
| Workspace membership (`api/workspaces.py`, `api/invites.py`, `services/plan_limits.py`) | `workspace_members`, `workspace_invites`, the organization's plan | add, change role, remove, leave; create, revoke, resend, accept an invite | Membership |
| Dashboards and history (`api/dashboards.py`, `api/dashboard_versions.py`, `services/dashboard_versioning.py`) | `dashboards`, `dashboard_widgets`, `dashboard_versions` | create, generate, rename, delete; add, update, delete a widget; restore, compare versions | DashboardHistory |
| Billing (`api/billing.py`, `services/billing.py`) | `organizations`' billing columns, `billing_events` | checkout, Stripe webhook | Billing, Ledger |
| Datasets and cleaning (`api/datasets.py`, `api/cleaning.py`, dataset part of `api/connections.py`) | `datasets`, `dataset_versions`, their objects | upload, clean, import a table, preview, lineage | Artifacts |
| Reports, models, forecasts (`api/reports.py`, `api/ml_models.py`, `api/forecasts.py`) | a row each, and an object for reports and models | generate, download, predict, delete | Artifacts |
| Authorization, API keys, plan gating, allowlist (`api/deps.py`, `api/enterprise.py`, `services/enterprise.py`) | `api_keys`, roles, the organization's plan and allowlist | authenticate and admit a request; create and revoke a key, set the allowlist | Access |
| User mirror (`api/deps.py`, `api/auth.py`) | `users` | first sight of a user, `user.created`, `user.updated`, `user.deleted` | UserMirror |
| Row-level security, connection pool (`core/rls.py`, `core/database.py`, migration 0010) | a setting per connection, a pool and an event loop per process | open a session, confine it, commit, go on, close | Sessions |
| Rate limiter (`api/deps.py`) | a Redis counter per user and window | count a request | RateLimit |
| Answers and their cache (`core/cache.py`, `api/query.py`, `api/insights.py`, `api/eda.py`, `services/nl_to_sql.py`, `sql_guard.py`, `ai_narration.py`, `ai_client.py`) | Redis entries keyed by dataset version and question | look up, compute, generate and guard SQL, put into words, keep | Answers |
| Comments (`api/comments.py`) | comment rows of a dashboard | create, answer, edit, resolve, delete | Comments |
| Dashboard generator (`api/dashboard_generator.py`, `services/dashboard_generator.py`) | none but the new dashboard | build candidates, read the model's choice, lay out | Generator, and its transaction in DashboardHistory |
| Cleaning operations (`services/data_cleaning.py`) | a frame and the log of what was done to it | six operations | Cleaning |
| Model training (`services/automl.py`) | none but the trained model | choose features, fit, choose a winner, explain | Training |
| Organizations, activity log | organization row, log rows | create; log | not modelled |
| Forecasting, EDA, insight detection, aggregation, report layout | none | numeric and text computations | not modelled |
| Configuration, logging, health, mail | none that outlives a call | checks at start-up | not modelled |
| Web frontend (`src/apps/web`) | React state | pages over the API | not modelled |

How they interact. All of them share the organization's row: billing writes its plan, membership, the API
keys and the allowlist read it. A user's deletion (Clerk's webhook) cascades into members, and a dataset's
deletion clears the references of widgets. A report reads its dashboard's widgets and disappears with the
dashboard. Cleaning, training and forecasting start from a dataset version's object. Outside services call
in (Stripe, Clerk), at least once and in any order.

What is hard here, and what makes each component correct:

- **Membership.** Guards read a state that other requests change before the commit. Correct means: an
  owner is always left, a member always has an account, an invite is settled once and admits exactly its
  addressee, and seats in use stay within the plan.
- **Dashboards.** A snapshot is taken from an ORM session that mixes loaded, changed and committed rows,
  while other edits commit. Correct means: the history only grows, every edit is in it, a version shows
  the dashboard it was made for, and a restore brings its target back.
- **Billing.** Events arrive late, twice, out of order, and the process may die at any point. Correct
  means: each is applied once, none is lost, and the organization ends up on the plan its subscription
  has.
- **Artifacts.** Two stores and no transaction over both; a long computation between two commits of a row
  that others can see and delete. Correct means: a row never names an object that is not there, a finished
  run never changes, lineage leads to an ingested file, and nothing stays unfinished unless its process
  died.
- **Access.** A request checks its key, the plan, its role and its address one query at a time, while all
  of them change. Correct means: it is admitted only on rights it had while it was served, a revoked key
  stays revoked, and an allowlist that comes into force admits the owner who set it.
- **Sessions.** A connection remembers what its last transaction did, and a handler commits, gives its
  connection back and goes on with another. Correct means: no query sees another workspace's rows, and
  nobody waits for somebody who waits for him.
- **User mirror, rate limit, answers.** Something outside (Clerk, Redis, a language model) is late,
  repeated, gone, or answers with anything. Correct means: the table follows the provider, a limit is a
  window's own, and an answer is of the question that was asked.
- **Comments, generator, cleaning, training.** Short programs with many paths. Correct means: a discussion
  stays one level deep, widgets do not overlap, a log accounts for what was done, and a column's
  importance is its own.

`PROJECT.json` lists every hazard at its line, with the properties that watch it, or why none does.

## 2. The modules, and how they correspond to the code

**Membership** is one workspace. `account`, `role`, `invite` and `plan` are the tables; `req` holds what
each request slot has read. A handler is `Start…` (authorization, lookups, guards: a guard that fails has
no step), `CountInvites` where the seat count needs its second query, and `Commit…` (one transaction). A
commit that the database rejects (a membership row that is gone, a broken foreign key, the unique key on
workspace and user) ends the request without a write; `gone` marks the requests whose row was deleted
after they loaded it. `Expire`, `ChangePlan` and `SignIn` are the clock, the billing webhook and first
sign-ins.

**DashboardHistory** is one dashboard. A `session` is what the ORM session of a request holds. A request
is `Load…`, `ReadNumbers`, `ReadWidgets` and `Commit`, which are the handler's own queries, the two
queries of `create_version`, and the commit. `Snapshot` says which rows `dashboard.widgets` yields at that
point: rows loaded earlier as they were loaded, the request's own changes, and the rows that the second
query found. `Waits` is PostgreSQL's row lock on what another request has flushed. A restore's new rows
stand one for one for the snapshot's, under new ids in whichever way: ids are random and the rows of one
transaction have the same `created_at`, so that widgets have no order of their own after a restore. The
pure functions (`NextVersionNumber`, `DiffSnapshots`) are operators.

**Billing** is one organization, `start_checkout` and `stripe_webhook` step by step, and Stripe as far as
they rely on it: customers, sessions, subscriptions, and a numbered list of events that is delivered until
answered. `hook` is the webhook a process handles (at most one, for the endpoint is `async`), with the
columns its session has loaded, because an UPDATE writes only the columns that differ from those.
**Ledger** is what the webhook promises: a row, a list of events, and a set of those applied; an event is
applied at most once, in one step, and sets some of the columns it tells to what it tells. `EachEventOnce`
of Billing is `Ledger!Spec` under the mapping: the row is the organization's billing columns, the events
are what Stripe's tell of each column (`Told`), and applied are those with a `billing_events` row.
`AsItIs`, which stands for a column that an event leaves alone, is a constant, told apart from every plan
and status by `AsItIsAssumption`.

**Artifacts** is a workspace's rows that have, or are made from, an object. `rows` and `objects` are the
two stores; a `job` is one request at a point of its handler. A dataset is stored and then committed
(`StoreObject`, `CommitUpload`, `CommitClean`, `CommitTable`). An artifact is committed unfinished,
refreshed, computed, stored, committed and refreshed again (`BeginArtifact` … `Answer`). `Crash` ends a
job at every point, which also stands for each exception a handler does not catch. `RowIsGone` is what
SQLAlchemy raises when the row was deleted under the job. `dead` is not in the code: it records whose job
died, for the liveness property. `Ancestors` is `get_lineage`'s walk along parents, as the rows that
belong to every set of rows which has the start and, with a row, its parent; a definition without
recursion, so that it can be proved about.

**Access** is one organization. A `call` is a request for a workspace, by session or by API key; its steps
are the queries of `_authenticate_api_key`, `require_workspace_role` and `_enforce_ip_allowlist`, one
each. `CheckAddress` judges by the organization's row that the session already holds when there is one (an
API key's plan check loads it; the commit that touches `last_used_at` drops it). An `admin` is a request
that changes keys or the allowlist: owner check, load, commit. `ChangeRole`, `ChangePlan`, `DropUser`,
`Expire` and `FiveMinutesPass` are everyone else and the clock. `grounds` is not in the code: it collects
the rights a call has had since it came, which is what `AdmittedOnGrounds` is about.

**Sessions** is one server process: each connection's `app.current_workspace_id`, each request's place in
its chain of dependencies, its threads, and the event loop. FastAPI runs every synchronous dependency and
handler in a thread and returns to the loop in between (`Dispatch`); the Stripe webhook runs on the loop
itself and waits there. The number of threads is a constant, `Threads`: the code leaves FastAPI's default,
and closing a session does not count against it. `CanDispatch` and `CanRun` say what of a request can
move, as predicates of the state; they are the guards of its steps put together. `Rows` is migration
0010's policy: everything for a connection that has never had the setting, the workspace's rows while it
is set, an error for the empty string that a local setting leaves. `Refresh` is what a handler reads
after its commit, on whatever connection the pool gives it.

**RateLimit** is one user. INCR, EXPIRE and the comparison are steps of their own; the process may die
after each, Redis may go away and come back with or without its data, and keys expire as the clock moves.
`disturbed` marks the windows whose counter may be lost or late; a request that comes without Redis
passes.

**UserMirror** is the `users` table, the provider's accounts, and its events. A delivery reads the row
(`Deliver`) and commits or fails; what fails is delivered again. A first request reads (`FirstSight`) and
inserts, or collides with a unique key. `astray` marks identities one of whose events was overtaken or
given up.

**Comments** is one dashboard's discussion. A request checks what it loads (`Start…`) and commits the
columns that differ (`Merged`), with the foreign keys and cascades of migration 0007; widgets and accounts
are deleted meanwhile. `raced` marks comments two updates of which overlapped.

**Answers** is a reader's path through cache, computation, language model and cache again. A generated
statement is whether it is a SELECT, how many rows it is limited to, and what the guard's search for
`LIMIT <digits>` in its text finds: its count of rows, nothing, or something else (`Limited`). A narration
is the model's, a template's, or nobody's. `Key` is the cache key, and `Forget` its expiry.

**Generator** is `generate_dashboard` once: candidates, the reply entry by entry or the fallback, and
`pack_layout` widget by widget. **Cleaning** is `apply_operations` on a frame with a text and a number
column, cell by cell, with its log. A cell is missing, a number, or a text, which is a word or the digits
of a number: a trim makes texts of the numbers of the column it is given, and a cast makes numbers of
digits. What kind of column it is after each operation (`dtype`) decides which columns a trim of the whole
frame takes; `Text` is what the CSV of the new version shows of a cell. A frame is a function from row
labels to rows, as pandas has it, for rows that are dropped keep the labels of the others; so the cells
that changed are a set, and what the log adds up is compared with its size. **Training** is
`train_automl_model` with columns reduced to kind and width and metrics to small numbers. A feature has a
place, which its kind and the order of the list decide, and its outputs are those behind the widths of the
places before it; an importance is the names of the columns its outputs came from, so that a wrong
attribution shows.

**Backend** puts the last nine beside each other. They share no state, so a behaviour is one of a single
component, its `subject`; the others rest in a state of their own. Nothing is lost by that: each property
names variables of one component, and the behaviours of the subject are exactly those of its own
specification. Backend extends Access and has instances of the others, with names for their variables
where two would collide; the constants' assumptions stand there. **MCRequests** gives it a small instance.

The other **MC…** modules give the constants their values. Definitions whose names extend another's
(`IsPendingUnchecked`, `CommitReadyMerging`, …) are plausible mistakes in that definition. They are used
only to confirm that each property notices the mistake it is meant to notice.

## 3. The runs

Times are for two workers on a small machine.

| run | instance | checks | shows |
| --- | --- | --- | --- |
| membership_serial | 3 people, 2 invites, 1 slot, two plans (cap 2 and none) | OwnersNeverLost, InviteSettledOnce, SeatCheckHolds | the guards mean what they say when handlers do not overlap; 243k states |
| membership_race | 2 people, 2 invites, 2 slots | TypeOK, MembersHaveAccounts, AcceptIsAtomic, NoReviveByRoleChange | what survives two overlapping handlers; 690k states |
| membership_owner_race | same | OwnersNeverLost fails | finding 1 |
| membership_seat_resend | 3 people, 1 slot, cap 2 | SeatCapNeverExceeded fails | finding 2 |
| dashboard_edits | 2 slots, 2 titles, 1 dataset, 4 widget rows, 3 versions | eight properties | what history and restore guarantee under two edits at once and deletions; 1.8M states |
| dashboard_restore | same | RestoreShowsReplacement fails | finding 3 |
| billing_in_order | 1 process, 1 thread, 2 customers, 2 subscriptions, 4 events in order | TypeOK, PayerIsKnown, InSync, ChangesAreAttributed | crashes, retries and lost answers do no harm by themselves |
| billing_race | 2 processes, 1 customer, 2 events in any order | EachEventOnce, EveryEventRecorded | the webhook implements Ledger when duplicates overlap, and no event is lost |
| billing_reordered | 1 process, 2 events in any order | InSync fails | finding 4 |
| artifacts | 2 jobs, 3 rows | TypeOK, ReadersFindTheirObject, LineageEndsAtUpload, RunsAreImmutable, UnfinishedIsWorkedOn, FinishedUnlessItsJobDies | two stores, crashes and deletions; 176k states |
| requests | see below | TypesOK and twelve properties of nine components | what a request passes, and what it asks for; 530k states |
| row_security_reuse | 1 request, 1 connection, 2 workspaces | UnscopedQueriesWork fails | finding 5 |

The properties of `requests`, and the instance of each component:

| property | component, instance | says |
| --- | --- | --- |
| AdmittedOnGrounds | Access: 2 users, 1 workspace, 1 key, 2 addresses, 1 caller, 1 administrator, 3 changes | whoever is admitted had, while he was served, the role, the address and, with a key, a live key of that scope and a plan that pays for it |
| RevocationIsFinal | | the touch of `last_used_at` does not bring a key back |
| SetterIsInside | | an allowlist in force has the address of the owner who set it |
| LimitIsPerWindow | RateLimit: 2 requests at once, limit 1, windows of 2 ticks, 2 windows | a window lets its limit through and refuses only beyond it |
| ConfinedToWorkspace | Sessions: 3 requests, 1 connection, 2 threads, 2 workspaces | no query sees another workspace's rows |
| EveryRequestCanMove | | whoever cannot move waits for the loop or a thread whose holder can; with both free, nobody waits for a connection whose holder cannot go on |
| MirrorFollows | UserMirror: 2 identities, 2 e-mails, 1 request, 4 happenings | once its events are answered an identity's row is what the provider has |
| DiscussionIsSound | Comments: 2 people, 1 widget, 2 requests at once, 3 in all | comments are listed, pinned and authored by what is there |
| AnswersFit | Answers: 3 versions, 1 question, 2 readers, 3 requests | an answer, kept or fresh, is of what was asked, and of a limited statement unless the text search errs |
| LayoutIsSound | Generator: up to 1 column of each type, replies of up to 7 entries | widgets are within the grid and do not overlap |
| LineageAccounts | Cleaning: 24 frames of five rows, 2 operations | the log accounts for the rows that are gone and the cells that are written differently |
| ModelIsExplained | Training: 2 columns of every kind and width, 2 candidates | the winner is the best, and an importance is its own column's |

**Why the bounds are enough.** Every hazard of section 1 needs at most two requests in flight, one that
has read and one that changes what it read. Both fit. Two people are the fewest among whom two owners can
remove each other. Three are needed, with a cap of two, for an expired invite's seat to be given away. Two
invites make a first and a second row for one email possible. Four widget rows and three versions allow a
dashboard of two widgets to be edited, restored with new ids, and edited once more. Four events are a
subscription's creation, two changes and its end, or an end and a second subscription. Three rows let a
cleaning start from a cleaning of an upload, which is the shortest chain in which lineage has to pass a
middle. In `requests`, one caller is enough for `AdmittedOnGrounds`, since requests change nothing that
another reads but a key's `last_used_at`; three changes are a key's making, its revocation and a change of
role or plan between a call's steps. One connection makes
every reuse. With two threads and three requests, one may hold the connection while the others fill the
threads or the loop and wait for it, which is the least that makes each of the waits. Four
happenings are a sign-up, two changes and a closed account, or two people trading an address. Three
comments are a thread and a request that disturbs it. Seven entries are one more than fit on a dashboard,
with three charts to fill more than a row. Two operations are the fewest of which one can count what the
other did. All bounds are in the guards of the actions that would pass them (`InviteIds`, `MaxWidgets`,
`MaxVersions`, `MaxEvents`, `Subs`, `Customers`, `MaxRows`, and the `Max…` and `EndOfTime` of Backend).

**Symmetry** is declared for people, invites, slots, titles, workers, customers and subscriptions where
the run checks no liveness property. In `requests` two pairs of model values stand for whatever comes in
twos (users, requests, people, readers; addresses, e-mails, posts) and three for Sessions' requests, so
that few permutations serve every component.

**Deadlock** is checked, except for dashboards, artifacts and `requests`, where a deleted dashboard,
used-up row ids, or a finished training or used-up requests leave nothing to do. For Sessions
`EveryRequestCanMove` says more than the absence of a deadlock: no request is stuck, whatever else can
move. The pool's timeout is what unties the knots in which everyone waits for a connection; the property
also says when it is not needed. Unfinished rows have both kinds of property: `UnfinishedIsWorkedOn` says
who is at work on one, `FinishedUnlessItsJobDies` that the work ends.

**Fairness.** Two runs check liveness. `billing_race` assumes that Stripe goes on delivering an event that
was not answered, that a handler which has begun goes on, and that no event meets a crash at the same
point of every one of its deliveries (strong fairness of the steps of one event). The code relies on that:
it has no other way to learn of an event. `artifacts` assumes only that a handler goes on until it ends or
dies (weak fairness of `Continue`). It runs in a thread of its own and waits for no other request.

## 4. Findings

1. **The last owner can be lost** (`membership_owner_race`). `update_member_role`, `remove_member` and
   `leave_workspace` count owners and write in a transaction that locks nothing. `api/workspaces.py:5`
   says they are "all guarded so the last OWNER can never be demoted, removed, or leave". Two that overlap
   each count the other's owner.
2. **A resend goes over the seat cap** (`membership_seat_resend`). `resend_invite` revives an expired
   invite without a seat check. `services/plan_limits.py:65` says a workspace at its cap "can't be
   over-invited past it". No overlap is needed.
3. **A restore's version shows what it replaced** (`dashboard_restore`). `restore_version` snapshots the
   collection loaded before it deleted and added widgets, so the new version lists the deleted widgets.
   `services/dashboard_versioning.py:55` says its diff "will show as a full removed+added set".
4. **Reordered events leave an old plan** (`billing_reordered`). `_apply_webhook_event` compares neither
   the event's time nor its subscription. `api/billing.py:3` says the webhook keeps the organization "in
   sync with what actually happened on Stripe's side".
5. **Row-level security fails on a reused connection** (`row_security_reuse`). `set_config(…, true)`
   leaves the empty string, not NULL, on a connection when its transaction ends. The policies of
   `src/apps/api/alembic/versions/0010_security_rls_enforcement.py:85` cast it to `uuid`, which raises
   (the other arm, IS NULL, is false of it). So the first query without a workspace on such a connection
   fails: the lookup of `workspace_members` that authorizes the next request. The test
   `tests/integration/test_rls_postgres.py:129` is named
   `test_unset_context_on_a_reused_connection_does_not_error`. (It matters where the application's role is
   subject to the policies, which migration 0010 forces.)

Smaller divergences, met while modelling and noted here only; the properties state the exceptions they
make:

- `trim_whitespace` turns missing values into the text "nan" and the numbers of a column it is given into
  texts; the log counts neither (`services/data_cleaning.py:187`). A number is written to the CSV as its
  text is, so only the first shows there.
- A feature without a single value shifts the importances of the columns behind it, for the imputer drops
  it and `_feature_segments` does not (`services/automl.py:190`).
- The narrators' docstrings promise a fallback whenever the model fails; an exception of the client itself
  is not a `NarrationError` and becomes a 500 (`services/ai_client.py:140`). So it is in the dashboard
  generator.
- `_enforce_limit` takes the first LIMIT with digits in the text for the statement's own
  (`services/sql_guard.py:65`). A subquery's, an offset (`LIMIT 5, 100000`), an expression
  (`LIMIT 1*100000`), or one in a literal or a comment leaves the whole with the limit it had, or none.
- A fallback insight is kept seven days, though the model may be back sooner (`api/insights.py:100`).
- `api/enterprise.py:13` lets an owner clear an allowlist after a downgrade; `set_ip_allowlist` refuses
  any list without the plan (`api/enterprise.py:231`).
- Two overlapping updates of a comment can leave it open and naming a resolver (`api/comments.py:225`).

The properties that hold are stated for the conditions under which they do: `membership_serial` shows that
the guards of finding 1 are right apart from the race, `billing_in_order` that order is all that finding 4
lacks, and `SnapshotListsLiveWidgets` speaks of adds, updates and renames because a restore (finding 3)
and a deletion (whose DELETE is pending, with autoflush off, when the snapshot is taken) record the rows
they remove.

## 5. Proofs

The theorems hold for every value of the constants that satisfies the modules' named assumptions
(`RolesAssumption`, `LimitAssumption`, `BoundAssumption`, …): any number of people, invites, requests,
jobs, rows, processes, events, connections, threads and columns. The assumptions say what the code's
configuration or the types of its columns say: a bound is a natural number, what is counted (slots, rows,
columns) is finite, there is a connection and a thread at least, and a value that stands for "nothing" is
not one of the values. TLC evaluates them in every run.

Each proof has the same plan. The property is not inductive, since it says nothing of what a handler in
flight has read and will write. An invariant is stated that does, shown to hold at first (`Init…`,
`…Start`) and to be kept by every action (a lemma for each action or group of actions), and the property
follows from it. An action property follows from the invariant at the step's two ends.

**MembershipProofs.** `TypeOK /\ MembersHaveAccounts` is not inductive: a request in flight could hold a
row that no longer exists and commit it. `IndInv` adds `Sound(req[r])` for every slot: a role change, a
removal or a leave that is not marked `gone` has its membership; an accept or an account's deletion that
is not `gone` has its account; an accept agrees with its invite in email and role. Every step preserves
it, so, with any number of overlapping requests:

- `TypeCorrect`, `AccountsCorrect` (MembersHaveAccounts), `AcceptIsAtomicCorrect` (an accept that ends
  has changed nothing, or has both admitted its invite's addressee, who was no member, and left the invite
  accepted; and no other step makes an invite accepted) and `NoReviveCorrect` (only an add or an accept
  admits). That an invite admits only once does not follow: of two overlapping accepts the second admits
  again, if the member was removed between their commits.

What the guards have read does not survive interleaving, and the findings say so. Under the hypothesis
`Serial` (at most one slot) `SerialInv` adds `StillHolds`: the owner count and the invite's status, as
they were read, still hold at the commit. From it:

- `OwnersCorrect` and `OutcomesCorrect` (OwnersNeverLost and InviteSettledOnce, each `ASSUME Serial`).
- `SeatsCorrect` (SeatCheckHolds, `ASSUME Serial`), with `SeatInv`: what a request has counted of seats
  is no less than are in use, for between the two halves of the count, and up to the commit, the clock
  only gives seats back.

**DashboardProofs.** Nothing locks a dashboard while it is edited; what an edit has read is current at its
commit only because its version number would be taken otherwise. `DashInv` says just that, of every edit
in flight: its number is the next one or has been used since (`Numbered`); as long as the number is free,
its snapshot lists the rows that there will be, each as the session leaves it or else as it is, but for
references to datasets that are gone (`Current`); a row loaded to be changed keeps its dataset unless that
is gone (`Refers`); as long as no version was added since the edit began, the name and the rows it has
loaded are those in the tables (`Undimmed`); and what a restore adds are its target's rows, one for one
(`Restores`, a bijection). Around it: versions are numbered without a gap (`Gapless`), new rows have ids
that no row has and no session has loaded (`OwnIds`), and only a live dashboard has rows
(`OnlyTheLiving`). For any number of overlapping edits:

- `TypeCorrect`, `NothingIsLeftBehind` (NothingLeftBehind), `HistoryOnlyGrows` (HistoryAppendOnly),
  `EditsAreRecorded` (EveryEditRecorded), `SnapshotsListLiveWidgets` (SnapshotListsLiveWidgets).
- `SnapshotsShowDashboard` (SnapshotShowsDashboard), also for an edit that others have overtaken between
  its own queries and `create_version`'s. What it has loaded and leaves unchanged, the row of an update
  without effect and the name, may then be stale and is excepted: of that the theorem speaks only where
  no other edit was committed meanwhile.
- `RestoresBringBack` (RestoreBringsBack), also for restores that overlap: what one removes is what it has
  loaded, and what it adds is its target. That nothing else is left, and that the name is the target's,
  is said of a restore that no other edit overtakes.
- `DiffsAreFaithful` (DiffIsFaithful): a fact on `DiffSnapshots` for any two tables of rows, by counting
  what is kept, changed, added and removed.

**BillingProofs.** `Types` strengthens `TypeOK`: a webhook or a checkout under way carries what its later
steps rely on. It alone gives, with any number of processes, checkouts, duplicates and crashes:

- `TypeCorrect`, and `ImplementsLedger` (EachEventOnce): the refinement of Ledger. The initial state maps
  to Ledger's; a commit maps to the application of its event, for an event that was not recorded before;
  every other step maps to a stutter, or to Ledger's sending of an event.

What a webhook finds of the organization depends on the customer, and two checkouts that overlap each make
one. The hypothesis `[]OneCheckoutAtATime` (which the run billing_in_order meets with its single slot)
rules that out. Then `OneCustomer` and `AllKnown` hold: whatever is at Stripe belongs to the one customer
the organization has or is about to commit, and every webhook found the organization. From them:

- `PayerStaysKnown` (PayerIsKnown) and `ChangesStayAttributed` (ChangesAreAttributed).
- `OrganizationInSync` (InSync), under `InOrder` and `OneLive` as well, the switches of billing_in_order.
  `Mirrored`: the recorded events are a prefix of Stripe's; a webhook whose event is not recorded yet
  holds the row as it is; the organization shows what the last recorded event tells, and the last event
  of all tells what Stripe has. InSync is the case in which the prefix is the whole. Any number of
  processes may handle the same event at once. billing_reordered shows that `InOrder` is needed.

**ArtifactsProofs.** `ReadersFindTheirObject` alone is not inductive: a commit that names an object must
know that its own upload is still there. `IndInv` adds `Objects` (a job past its upload has its object),
`Placed` (which points of which handler a job can be at) and `Owned` (an id belongs to one job; a job that
has not made its row finds none under its id; one that has not finished it finds it unfinished or gone).
From it, for any number of jobs, crashes and deletions:

- `ArtifactTypeCorrect`, `ReadersCorrect` (ReadersFindTheirObject) and `ImmutableCorrect`
  (RunsAreImmutable). `ReadersCorrect` rests on a fact of the code one might take for a leak: no deletion
  removes an object. A `DeleteRow` that removed it as well would break the reader that has just looked
  its row up.
- `UnfinishedStaysWorkedOn` (UnfinishedIsWorkedOn). No id is taken twice, so the job that made a row is
  the only one to write it, and leaves it unfinished only by dying; each of its steps shows its own rows
  still worked on and leaves the other jobs' to them.
- `LineageCorrect` (LineageEndsAtUpload). `Traced` says of every row with a parent, and of every job that
  will make one, that the parent is an older upload or cleaned version, and stays. What a walk visits is
  contained in every set that is closed under parents: in the rows up to the first parent, so it never
  comes round, and in the uploads and cleaned versions (and the start), so it never meets a connected
  table. The least id it visits (by well-foundedness, no induction over the walk) has no parent, and is
  an upload.

**AccessProofs.** A request's checks are separate queries and anything may change between two of them, so
no invariant can say that what was checked still holds. `Covered` says that a call has the grounds of the
checks behind it, and that an organization's row its session keeps was the row at a moment while it was
served; `Guarded`, that an allowlist about to be saved passed the guard against locking oneself out. For
any number of callers, keys, workspaces and administrators:

- `AdmissionIsGrounded` (AdmittedOnGrounds), `RevokedForGood` (RevocationIsFinal), `NobodyShutsHimselfOut`
  (SetterIsInside); `TypeCorrect` on the way.

**PassageProofs** and **ContentProofs** are about Backend, whose steps they first reduce to those of one
component (a step that ends with a subject began with it).

- `LimitHolds` (LimitIsPerWindow), for every limit, window length and number of requests. The invariant
  is the books of one window: those let through and those that will be are as many as the counter says,
  up to the limit, as long as the window lasts; the counter's key cannot expire before that (`Outlives`).
- `MirrorKeepsUp` (MirrorFollows). While an event is refused and delivered again the table says less than
  the provider. `InTurn` says what the last event still to come will say, `Seen` what the one at hand has
  read, `Claimed` that every address around is one its identity has had.
- `RowsStayConfined` (ConfinedToWorkspace). A connection that is free is set to no workspace; one that is
  held is set to none but its holder's, and between the authorization and the commit to exactly that one
  (`Seated`).
- `RequestsKeepMoving` (EveryRequestCanMove). Where a request waits for the loop, its holder runs or asks
  the pool, which has a connection or gives up; where for a thread, the limit is reached, so somebody
  occupies one and the same holds of him. Where the pool is empty, somebody holds a connection: with the
  loop free and a thread left he goes on or is dispatched. It follows from the types and from who can hold
  what (`Seated`) alone.
- `DiscussionStaysSound` (DiscussionIsSound). What a request has loaded still holds when it commits, in
  these respects: the comment to be answered, if it is there, is at the top, for ids are not used again;
  the comment to be changed, if no update overlapped, is as resolved as it was.
- `AnswersStayFit` (AnswersFit). An answer is followed from where it is computed, through the entry whose
  key says what it answers, to whoever reads it there. Its statement is limited, or one of those in whose
  text the guard's search goes astray, for which nothing is claimed.
- `LayoutStaysSound` (LayoutIsSound), for any number of columns and any reply. What is placed is above the
  cursor's row, or in it and to the left (`Packed`); so no two widgets meet.

**ComputationProofs** is about Cleaning and Training, and about Backend's variables as a whole.

- `LineageIsAccounted` (LineageAccounts), for every set of words and numbers, every length of the columns
  and any number of operations. A sum over a log is the size of a set, that of the log's entries each
  stacked as high as its number (`Stacks`): an appended entry is a disjoint union, and no induction over
  the log is needed. `CleanInv` says that the rows lost are as many as the log's drops, and that the cells
  of a column that were altered at all are no more than the log counts for it. That is more than the
  property needs and it is what each operation keeps: a cell changed twice is counted twice, a row dropped
  takes its changes with it. So the theorem is a bound: a log may count more than is different in the end.
  Cells are compared as the CSV shows them, a number like its digits; a trim that makes texts of numbers
  changes none. Where a trim made text of missing values (`Blind`) the property adds those cells, and the
  invariant leaves them open.
- `ModelsAreExplained` (ModelIsExplained), for any number of columns of any kind and width and any scores.
  `TrainInv` says that the best candidate so far beats or is before every other, that no feature is listed
  twice once they are chosen, and what the importances are by definition. The segments of two places do
  not meet, since a place's outputs come behind the widths of all before it (again by sets stacked, not by
  a sum); so a feature has all of its own outputs, and none but those, as long as neither it nor any
  before it is without an output.
- `TypesStayCorrect` (TypesOK): the types of all nine components. They follow from the invariants of the
  proofs above, with two counts that no other proof needs: of the provider's happenings (`EventsCounted`)
  and of the questions asked (`AsksCounted`).

**Only model-checked.** The two liveness properties, `EveryEventRecorded` and `FinishedUnlessItsJobDies`:
the prover does not handle fairness. Every other property of the passing runs is stated by a theorem.
`EveryRequestCanMove` speaks of what can happen next; ENABLED is out of the prover's reach, so it uses the
guards, written out (`CanRun`, `CanDispatch`). TLC finds them equal to ENABLED of the steps they guard in
every state of the small instance.

## 6. What is abstracted, and what is not modelled

Abstracted: names, titles, emails and file contents are members of small sets; a widget's kind, config and
layout are one title (the diff compares field by field, so the model has two fields, title and dataset);
what a report or a forecast computes is success, a caught error, or an exception; a dataset and its first
version are one row, because no handler makes or deletes one without the other. A token's signature, an
API key's hash and an address's network are whether they match. Prompts, wording and SQL text are left out
but for what the guard looks at. Real arithmetic is integer arithmetic on small values (quartiles are kept
exact by a factor; a mean is not modelled, since its effect on the log is a median's). Numbers are whole,
so that one and its text are the same in a CSV. Casts to boolean and datetime are left out. Response
bodies, logging, the activity log (append-only, in its caller's transaction) and mail (sent after the
commit, its failure caught) are left out.

Not modelled: `services/forecasting.py`, `services/insights.py`'s detectors, `services/eda.py` but for the
charts it suggests, `report_generator.py` (real arithmetic, third-party estimators, document layout),
`schema_inference.py` (guesses on text), configuration and logging (no state), and the web frontend (no
state that outlives a page). `create_organization` is one insert behind a unique slug. One workspace of an
organization is modelled in Membership, so the limit on workspaces is not.

## 7. Plan

Done are the modules of section 2, the runs of section 3 and the eight proof modules of section 5. Left,
most important first:

1. The limit on workspaces (`create_workspace`), with the organization and its workspaces in a module of
   their own.
2. `detect_issues` and `schema_inference` as functions against reference definitions.
