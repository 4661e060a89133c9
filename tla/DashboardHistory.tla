------------------------- MODULE DashboardHistory -------------------------
(***************************************************************************)
(* One dashboard, its widgets and its version history.                     *)
(*                                                                         *)
(* Every edit takes a snapshot in its own transaction (create_version in   *)
(* app/services/dashboard_versioning.py).  Which rows the snapshot holds   *)
(* depends on what SQLAlchemy's session has loaded, and when: a row read   *)
(* once in a request is not read again, a loaded collection is not         *)
(* reloaded, and without autoflush a pending DELETE is invisible to a      *)
(* query.  A request is therefore Load (the handler's own queries),        *)
(* ReadNumbers (what it flushes before create_version, and that function's *)
(* first query), ReadWidgets (the second) and Commit.  Requests interleave *)
(* at READ COMMITTED; what stops them is the row locks of what they have   *)
(* flushed and the unique key on (dashboard_id, version_number).           *)
(***************************************************************************)
EXTENDS Integers, Sequences, FiniteSetsExt, Functions

CONSTANTS
    Requests,      \* request slots
    Names,         \* dashboard names and widget titles
    DatasetIds,    \* datasets that may exist in the workspace
    None,          \* an empty field
    Generated,     \* the widget lists generate_dashboard may choose (their titles)
    MaxWidgets,    \* bound on the widget rows ever inserted
    MaxVersions    \* bound on the edits

ASSUME NoneAssumption == None \notin DatasetIds \cup Names
ASSUME RequestsAssumption == IsFiniteSet(Requests)
ASSUME BoundAssumption == MaxWidgets \in Nat /\ MaxVersions \in Nat \ {0}
ASSUME GeneratedAssumption == \A titles \in Generated : titles \in Seq(Names) /\ Len(titles) <= MaxWidgets

VARIABLES
    dash,          \* "none", "live" or "gone": the dashboard's row
    name,          \* dashboards.name
    widgets,       \* dashboard_widgets: id -> row
    versions,      \* dashboard_versions: version_number -> snapshot
    datasets,      \* the ids in datasets
    nextId,        \* ids below it have been given to a widget row
    session        \* request slot -> what its ORM session holds

vars == <<dash, name, widgets, versions, datasets, nextId, session>>

WidgetIds == 1..MaxWidgets
Row == [title : Names, dataset : DatasetIds \cup {None}]

\* Rows by their ids, and what a version holds.
IsWidgets(f) == DOMAIN f \subseteq WidgetIds /\ f \in [DOMAIN f -> Row]
IsSnapshot(v) == v.name \in Names /\ IsWidgets(v.widgets)

\* One table laid over another, and a table of one row.
Over(f, g) == [k \in DOMAIN f \cup DOMAIN g |-> IF k \in DOMAIN f THEN f[k] ELSE g[k]]
At(k, row) == [x \in {k} |-> row]

Edits == {"add", "update", "delete", "rename", "restore"}

(***************************************************************************)
(* A session: name, loaded and new are the dashboard's name, the rows      *)
(* loaded and the rows added, as the session sees them; target is the      *)
(* version to restore; number and snap are what create_version has         *)
(* computed.  base, the versions that existed when the handler began, is   *)
(* not in the code: the properties use it to tell whether another edit was *)
(* committed meanwhile.                                                    *)
(***************************************************************************)
NoSession == [pc |-> "idle", op |-> "none", name |-> None, renames |-> FALSE,
              loaded |-> <<>>, new |-> <<>>, target |-> 0, number |-> 0, snap |-> <<>>,
              base |-> {}]

TypeOK ==
    /\ dash \in {"none", "live", "gone"}
    /\ name \in Names \cup {None}
    /\ IsWidgets(widgets)
    /\ DOMAIN versions \subseteq 1..MaxVersions
    /\ \A n \in DOMAIN versions : IsSnapshot(versions[n])
    /\ datasets \subseteq DatasetIds
    /\ nextId \in 1..(MaxWidgets + 1)
    /\ \A r \in Requests :
         /\ session[r].pc \in {"idle", "loaded", "numbered", "read"}
         /\ session[r].op \in Edits \cup {"none"}
         /\ IsWidgets(session[r].loaded) /\ IsWidgets(session[r].new)
         /\ IsWidgets(session[r].snap)

---------------------------------------------------------------------------
(* dashboard_versioning.py: the pure functions. *)

NextVersionNumberFromZero(numbers) == IF numbers = {} THEN 0 ELSE Max(numbers) + 1
NextVersionNumber(numbers) == IF numbers = {} THEN 1 ELSE Max(numbers) + 1

\* diff_widget_snapshots: the ids on one side only, and the fields that differ.
ChangedFieldsTitleOnly(old, new) == {f \in {"title"} : old[f] # new[f]}
ChangedFields(old, new) == {f \in {"title", "dataset"} : old[f] # new[f]}

DiffSnapshots(old, new) ==
    LET modified == {w \in DOMAIN old \cap DOMAIN new : ChangedFields(old[w], new[w]) # {}}
        added == DOMAIN new \ DOMAIN old IN
    [ added |-> Restrict(new, added),
      removed |-> Restrict(old, DOMAIN old \ DOMAIN new),
      modified |-> [w \in modified |-> Restrict(new[w], ChangedFields(old[w], new[w]))],
      unchanged |-> Cardinality(DOMAIN new) - Cardinality(modified) - Cardinality(added) ]

---------------------------------------------------------------------------
(* What a session has sent to the database before its COMMIT. *)

\* create_widget and restore_version flush before create_version.
Flushed(r) == session[r].op \in {"add", "restore"} /\ session[r].pc \in {"numbered", "read"}

\* The rows loaded that the session deletes, or changes.
Deleted(r) == IF session[r].op \in {"delete", "restore"} THEN DOMAIN session[r].loaded ELSE {}
Retitled(r) ==
    IF session[r].op = "update"
    THEN {w \in DOMAIN session[r].new : session[r].new[w].title # session[r].loaded[w].title}
    ELSE {}

\* A row locked by another session's flush makes this one wait.
Waits(r) ==
    \E q \in Requests \ {r} :
      /\ Flushed(q)
      /\ \/ (Deleted(r) \cup Retitled(r)) \cap Deleted(q) \cap DOMAIN widgets # {}
         \/ session[r].renames /\ session[q].renames

\* The keys a new row refers to: its dashboard and its dataset.
DashboardThereUnchecked == TRUE
DashboardThere == dash = "live"
RowsInsertable(rows) ==
    DashboardThere /\ \A w \in DOMAIN rows : rows[w].dataset \in datasets \cup {None}

---------------------------------------------------------------------------
(* The dashboard itself. *)

CreateDashboard(newName) ==
    /\ dash = "none"
    /\ dash' = "live"
    /\ name' = newName
    /\ versions' = At(1, [name |-> newName, widgets |-> <<>>])
    /\ UNCHANGED <<widgets, datasets, nextId, session>>

\* dashboard_generator.py: the widgets come from a dataset, and no version is created.
GenerateDashboard(newName, d, titles) ==
    /\ dash = "none"
    /\ d \in datasets
    /\ dash' = "live"
    /\ name' = newName
    /\ widgets' = [w \in DOMAIN titles |-> [title |-> titles[w], dataset |-> d]]
    /\ nextId' = Len(titles) + 1
    /\ UNCHANGED <<versions, datasets, session>>

\* The versions and the widgets go with the dashboard.
DeleteDashboard ==
    /\ dash = "live"
    /\ ~\E r \in Requests : Flushed(r)
    /\ dash' = "gone"
    /\ widgets' = <<>>
    /\ versions' = <<>>
    /\ UNCHANGED <<name, datasets, nextId, session>>

\* Code outside app/ removes a dataset: ondelete="SET NULL" on the widgets.
DropDataset(d) ==
    /\ d \in datasets
    /\ ~\E r \in Requests : /\ Flushed(r)
                            /\ \/ \E w \in DOMAIN session[r].new : session[r].new[w].dataset = d
                               \/ \E w \in Deleted(r) \cap DOMAIN widgets : widgets[w].dataset = d
    /\ datasets' = datasets \ {d}
    /\ widgets' = [w \in DOMAIN widgets |->
                     IF widgets[w].dataset = d THEN [widgets[w] EXCEPT !.dataset = None]
                     ELSE widgets[w]]
    /\ UNCHANGED <<dash, name, versions, nextId, session>>

---------------------------------------------------------------------------
(* Load: the queries of each handler. *)

\* The bound on edits: every edit in flight finds a version number to use.
RoomForEdit ==
    Cardinality(DOMAIN versions) + Cardinality({r \in Requests : session[r].pc # "idle"})
        < MaxVersions

Opened(op) == [NoSession EXCEPT !.pc = "loaded", !.op = op, !.name = name,
                                !.base = DOMAIN versions]

Load(r, s) ==
    /\ dash = "live"
    /\ session[r].pc = "idle"
    /\ RoomForEdit
    /\ session' = [session EXCEPT ![r] = s]
    /\ UNCHANGED <<dash, name, widgets, versions, datasets>>

\* A chart or a KPI needs a dataset of the workspace, a text widget none.
LoadCreateWidget(r, title, d) ==
    /\ d \in datasets \cup {None}
    /\ nextId <= MaxWidgets
    /\ nextId' = nextId + 1
    /\ Load(r, [Opened("add") EXCEPT !.new = At(nextId, [title |-> title, dataset |-> d])])

LoadUpdateWidget(r, w, title) ==
    /\ w \in DOMAIN widgets
    /\ Load(r, [Opened("update") EXCEPT !.loaded = At(w, widgets[w]),
                                        !.new = At(w, [widgets[w] EXCEPT !.title = title])])
    /\ UNCHANGED nextId

LoadDeleteWidget(r, w) ==
    /\ w \in DOMAIN widgets
    /\ Load(r, [Opened("delete") EXCEPT !.loaded = At(w, widgets[w])])
    /\ UNCHANGED nextId

LoadRename(r, newName) ==
    /\ Load(r, [Opened("rename") EXCEPT !.name = newName, !.renames = newName # name])
    /\ UNCHANGED nextId

\* The new rows of a restore: one for each of the snapshot's, under an id of its own, without
\* the references to datasets that are gone.  Which id is whose means nothing: ids are random, and
\* rows of one transaction have the same created_at.
RestoredRowBare(row) == [row EXCEPT !.dataset = None]
RestoredRow(row) == IF row.dataset \in datasets THEN row ELSE [row EXCEPT !.dataset = None]

RestoredRows(snapshot, place) == [w \in DOMAIN place |-> RestoredRow(snapshot[place[w]])]

LoadRestore(r, n) ==
    /\ n \in DOMAIN versions
    /\ nextId' = nextId + Cardinality(DOMAIN versions[n].widgets)
    /\ nextId' <= MaxWidgets + 1
    /\ \E place \in Bijection(nextId..(nextId' - 1), DOMAIN versions[n].widgets) :
         Load(r, [Opened("restore") EXCEPT !.target = n, !.loaded = widgets,
                                           !.name = versions[n].name,
                                           !.renames = versions[n].name # name,
                                           !.new = RestoredRows(versions[n].widgets, place)])

---------------------------------------------------------------------------
(* create_version, and the handler's COMMIT. *)

End(r) == session' = [session EXCEPT ![r] = NoSession]

\* An early flush of rows whose dashboard or dataset is gone fails the request.
FlushFails(r) ==
    /\ session[r].pc = "loaded"
    /\ session[r].op \in {"add", "restore"}
    /\ ~RowsInsertable(session[r].new)
    /\ End(r)
    /\ UNCHANGED <<dash, name, widgets, versions, datasets, nextId>>

ReadNumbers(r) ==
    /\ session[r].pc = "loaded"
    /\ session[r].op \in {"add", "restore"} => RowsInsertable(session[r].new) /\ ~Waits(r)
    /\ session' = [session EXCEPT ![r].pc = "numbered",
                                  ![r].number = NextVersionNumber(DOMAIN versions)]
    /\ UNCHANGED <<dash, name, widgets, versions, datasets, nextId>>

\* dashboard.widgets: the committed rows, the session's own version of those it has
\* loaded, and those it has inserted; in a restore, the collection loaded before.
SnapshotCommitted(r) == widgets
Snapshot(r) ==
    IF session[r].op = "restore" THEN session[r].loaded
    ELSE IF session[r].op = "add" THEN Over(widgets, session[r].new)
    ELSE Restrict(Over(session[r].new, Over(session[r].loaded, widgets)), DOMAIN widgets)

ReadWidgets(r) ==
    /\ session[r].pc = "numbered"
    /\ session' = [session EXCEPT ![r].pc = "read", ![r].snap = Snapshot(r)]
    /\ UNCHANGED <<dash, name, widgets, versions, datasets, nextId>>

\* uq_dashboard_version_number.
NumberTakenUnchecked(r) == FALSE
NumberTaken(r) == session[r].number \in DOMAIN versions

\* The version's INSERT, and an UPDATE that finds no row (StaleDataError).
Rejected(r) == ~DashboardThere \/ NumberTaken(r) \/ ~(Retitled(r) \subseteq DOMAIN widgets)

CommitFails(r) ==
    /\ session[r].pc = "read"
    /\ ~Waits(r)
    /\ Rejected(r)
    /\ End(r)
    /\ UNCHANGED <<dash, name, widgets, versions, datasets, nextId>>

\* What is left of the rows, a title the session has changed, and the rows it has added.
Kept(r) == Restrict(widgets, DOMAIN widgets \ Deleted(r))
Written(r) ==
    IF session[r].op \in {"add", "restore"} THEN Over(Kept(r), session[r].new)
    ELSE [w \in DOMAIN Kept(r) |->
            IF w \in Retitled(r) THEN [widgets[w] EXCEPT !.title = session[r].new[w].title]
            ELSE widgets[w]]

CommitRenameUnrecorded(r) ==
    /\ session[r].pc = "read"
    /\ ~Waits(r)
    /\ ~Rejected(r)
    /\ versions' = IF session[r].op = "rename" THEN versions
                   ELSE Over(At(session[r].number, [name |-> session[r].name,
                                                    widgets |-> session[r].snap]), versions)
    /\ widgets' = Written(r)
    /\ name' = IF session[r].renames THEN session[r].name ELSE name
    /\ End(r)
    /\ UNCHANGED <<dash, datasets, nextId>>

Commit(r) ==
    /\ session[r].pc = "read"
    /\ ~Waits(r)
    /\ ~Rejected(r)
    /\ versions' = Over(At(session[r].number, [name |-> session[r].name,
                                               widgets |-> session[r].snap]), versions)
    /\ widgets' = Written(r)
    /\ name' = IF session[r].renames THEN session[r].name ELSE name
    /\ End(r)
    /\ UNCHANGED <<dash, datasets, nextId>>

---------------------------------------------------------------------------
Init ==
    /\ dash = "none"
    /\ name = None
    /\ widgets = <<>>
    /\ versions = <<>>
    /\ datasets = DatasetIds
    /\ nextId = 1
    /\ session = [r \in Requests |-> NoSession]

Next ==
    \/ \E n \in Names : CreateDashboard(n)
    \/ \E n \in Names, d \in DatasetIds, titles \in Generated : GenerateDashboard(n, d, titles)
    \/ DeleteDashboard
    \/ \E d \in DatasetIds : DropDataset(d)
    \/ \E r \in Requests :
         \/ \E t \in Names, d \in DatasetIds \cup {None} : LoadCreateWidget(r, t, d)
         \/ \E w \in WidgetIds, t \in Names : LoadUpdateWidget(r, w, t)
         \/ \E w \in WidgetIds : LoadDeleteWidget(r, w)
         \/ \E n \in Names : LoadRename(r, n)
         \/ \E n \in 1..MaxVersions : LoadRestore(r, n)
         \/ FlushFails(r)
         \/ ReadNumbers(r)
         \/ ReadWidgets(r)
         \/ CommitFails(r)
         \/ Commit(r)

Spec == Init /\ [][Next]_vars

---------------------------------------------------------------------------
(* Properties. *)

Committed(r) == session[r].pc = "read" /\ session'[r].pc = "idle" /\ versions' # versions

\* The dashboard the editor saw is the one the edit was applied to.
Undisturbed(r) == session[r].base = DOMAIN versions

\* Rows that differ at most in a reference to a dataset that is gone.
SameRow(old, new) ==
    /\ old.title = new.title
    /\ new.dataset = old.dataset \/ (new.dataset = None /\ old.dataset \notin datasets')
SameRows(old, new) ==
    DOMAIN old = DOMAIN new /\ \A w \in DOMAIN old : SameRow(old[w], new[w])

\* A version is never changed or lost while its dashboard lives, and at most one, with
\* the next number, is added in a step: the "immutable" of models/dashboard_version.py,
\* for edits that are computed concurrently.
AppendsHistory ==
    dash = "live" /\ dash' = "live" =>
      \/ versions' = versions
      \/ \E v \in {versions'[n] : n \in DOMAIN versions'} :
            versions' = Over(versions, At(NextVersionNumber(DOMAIN versions), v))
HistoryAppendOnly == [][AppendsHistory]_vars

\* Widgets and name change only together with a new version, except that a dataset's
\* deletion clears references: no edit escapes the history of an existing dashboard.
RecordsEdit ==
    /\ dash = "live" /\ dash' = "live"
    /\ ~(name' = name /\ SameRows(widgets, widgets'))
    => versions' # versions
EveryEditRecorded == [][RecordsEdit]_vars

\* The version of an added or updated widget, or of a new name, lists exactly the widgets
\* that are live when it is committed, however edits were interleaved: the unique key
\* makes the numbers read before the widgets a check that nothing was committed between.
ListsLiveWidgets ==
    \A r \in Requests :
      Committed(r) /\ session[r].op \in {"add", "update", "rename"}
      => DOMAIN versions'[session[r].number].widgets = DOMAIN widgets'
SnapshotListsLiveWidgets == [][ListsLiveWidgets]_vars

\* ... and it shows each of them as it then is, though the session mixes rows as it has loaded them,
\* as it has changed them and as others have committed them.  What the session has loaded and leaves
\* as it is - the row of an update that changes nothing, the name of any edit but a new name - it may
\* show as it was before another edit, but not when no other was committed since the handler began.
ShowsDashboard ==
    \A r \in Requests :
      Committed(r) /\ session[r].op \in {"add", "update", "rename"}
      => LET shown == versions'[session[r].number] IN
         /\ Undisturbed(r) \/ session[r].renames => shown.name = name'
         /\ \A w \in DOMAIN shown.widgets \cap DOMAIN widgets' :
              Undisturbed(r) \/ w \notin DOMAIN session[r].loaded \/ w \in Retitled(r)
              => SameRow(shown.widgets[w], widgets'[w])
SnapshotShowsDashboard == [][ShowsDashboard]_vars

\* However edits overlap, a restore adds its target's rows one for one, under new ids, and drops only
\* the references to datasets that are gone; it takes away what it has loaded, and leaves what
\* others have added since, such as the rows of a restore that overtook it.  If no other edit
\* was committed since it began, the target's rows are all there are, under the target's name.
BringsBack ==
    \A r \in Requests :
      Committed(r) /\ session[r].op = "restore"
      => LET target == versions[session[r].target]
             back == DOMAIN widgets' \ DOMAIN widgets IN
         /\ \E place \in Bijection(back, DOMAIN target.widgets) :
              \A w \in back : SameRow(target.widgets[place[w]], widgets'[w])
         /\ \A w \in DOMAIN widgets :
              IF w \in DOMAIN session[r].loaded THEN w \notin DOMAIN widgets'
              ELSE w \in DOMAIN widgets' /\ widgets'[w] = widgets[w]
         /\ Undisturbed(r) => name' = target.name /\ DOMAIN widgets' = back
RestoreBringsBack == [][BringsBack]_vars

\* Nothing of a deleted dashboard is left or comes back, whatever edits were in flight.
NothingLeftBehind == dash = "gone" => widgets = <<>> /\ versions = <<>>

\* A diff between any two versions, applied to the older, gives the newer: the diff
\* endpoint leaves out nothing that changed, and counts the rest.
ApplyDiff(old, diff) ==
    LET kept == DOMAIN old \ DOMAIN diff.removed IN
    Over([w \in kept |-> IF w \in DOMAIN diff.modified THEN Over(diff.modified[w], old[w])
                         ELSE old[w]],
         diff.added)
DiffIsFaithful ==
    \A m, n \in DOMAIN versions :
      LET old == versions[m].widgets
          new == versions[n].widgets
          diff == DiffSnapshots(old, new) IN
      /\ ApplyDiff(old, diff) = new
      /\ diff.unchanged = Cardinality({w \in DOMAIN old \cap DOMAIN new : old[w] = new[w]})

\* dashboard_versioning.py's diff docstring: a restore's version, against the one before
\* it, shows the old widgets removed and the restored ones added.
ShowsReplacement ==
    \A r \in Requests :
      Committed(r) /\ Undisturbed(r) /\ session[r].op = "restore"
      => DOMAIN versions'[session[r].number].widgets = DOMAIN session[r].new
RestoreShowsReplacement == [][ShowsReplacement]_vars
=============================================================================
