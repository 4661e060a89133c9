----------------------------- MODULE Artifacts -----------------------------
(***************************************************************************)
(* What a workspace keeps in the database and in the object store: the     *)
(* datasets (app/api/datasets.py, cleaning.py, connections.py) and what is *)
(* computed from them (app/api/reports.py, ml_models.py, forecasts.py).    *)
(*                                                                         *)
(* No transaction spans the two stores.  A dataset's object is stored      *)
(* first and its rows are committed after it.  A report, a model or a      *)
(* forecast is committed first, as an unfinished row that others can see   *)
(* and delete, then computed, stored and committed again.  A job is one    *)
(* such request; it may die at any point, of an exception its handler does *)
(* not catch, of a failed call to the object store, or with its process.   *)
(***************************************************************************)
EXTENDS Integers

CONSTANTS
    Jobs,          \* request slots
    MaxRows        \* bound on the rows ever made

ASSUME BoundAssumption == MaxRows \in Nat

VARIABLES
    rows,          \* datasets (with their version), reports, ml_models, forecasts: id -> row
    objects,       \* the ids whose object is in the bucket
    dashboard,     \* the reports' dashboard exists
    job,           \* slot -> the request that runs in it
    nextId,        \* ids below it have been given to a row
    dead           \* the ids whose job died; not in the code, for the properties

vars == <<rows, objects, dashboard, job, nextId, dead>>

RowIds == 1..MaxRows

\* upload_dataset, clean_version and create_dataset_from_table make a dataset and its
\* version; the others an artifact.
DatasetOps == {"upload", "clean", "table"}
ArtifactOps == {"report", "model", "forecast"}

\* Where the handler puts bytes into the bucket: a connected table and a forecast have none.
StoresObject(op) == op \notin {"table", "forecast"}

\* parent: a cleaned version's parent_version_id; the dataset of a model or a forecast.
Row == [op : DatasetOps \cup ArtifactOps, status : {"working", "ready", "failed"},
        key : BOOLEAN, parent : RowIds \cup {0}]

NoJob == [pc |-> "idle", op |-> "none", id |-> 0, parent |-> 0]

Job == [pc : {"idle", "loaded", "begun", "working", "storing", "stored", "failing",
              "answering", "reading"},
        op : DatasetOps \cup ArtifactOps \cup {"read", "none"},
        id : RowIds \cup {0}, parent : RowIds \cup {0}]

TypeOK ==
    /\ DOMAIN rows \subseteq RowIds /\ rows \in [DOMAIN rows -> Row]
    /\ objects \subseteq RowIds
    /\ dashboard \in BOOLEAN
    /\ job \in [Jobs -> Job]
    /\ nextId \in 1..(MaxRows + 1)
    /\ dead \subseteq RowIds

Exists(i) == i \in DOMAIN rows
Readable(i) == Exists(i) /\ rows[i].status = "ready" /\ rows[i].key
IsDataset(i) == Exists(i) /\ rows[i].op \in DatasetOps

Inserted(i, row) == [k \in DOMAIN rows \cup {i} |-> IF k = i THEN row ELSE rows[k]]
Without(ids) == [i \in DOMAIN rows \ ids |-> rows[i]]

Step(j, pc) == job' = [job EXCEPT ![j].pc = pc]
End(j) == job' = [job EXCEPT ![j] = NoJob]

\* An exception nothing catches; the session is closed and rolls back what it holds.
Die(j) ==
    /\ End(j)
    /\ dead' = dead \cup {job[j].id}
    /\ UNCHANGED <<rows, objects, dashboard, nextId>>

---------------------------------------------------------------------------
(* The lookups of each handler, and the download of the file it works on. *)

Load(j, op, parent) ==
    /\ job[j].pc = "idle"
    /\ nextId <= MaxRows
    /\ job' = [job EXCEPT ![j] = [pc |-> "loaded", op |-> op, id |-> nextId, parent |-> parent]]
    /\ nextId' = nextId + 1
    /\ UNCHANGED <<rows, objects, dashboard, dead>>

LoadUpload(j) == Load(j, "upload", 0)
LoadTable(j) == Load(j, "table", 0)

\* _load_version_dataframe and _get_dataset_and_version refuse a version without a file.
WorkableUnchecked(i) == IsDataset(i)
Workable(i) == IsDataset(i) /\ rows[i].key

LoadClean(j, parent) == Workable(parent) /\ Load(j, "clean", parent)
LoadModel(j, parent) == Workable(parent) /\ Load(j, "model", parent)
LoadForecast(j, parent) == Workable(parent) /\ Load(j, "forecast", parent)
LoadReport(j) == dashboard /\ Load(j, "report", 0)

\* An empty or unreadable file, operations that leave no row, a table that cannot be read.
Refuse(j) ==
    /\ job[j].pc = "loaded"
    /\ job[j].op \in DatasetOps
    /\ End(j)
    /\ UNCHANGED <<rows, objects, dashboard, nextId, dead>>

---------------------------------------------------------------------------
(* upload_bytes; the key is made of the row's id. *)

StoreObject(j) ==
    /\ StoresObject(job[j].op)
    /\ job[j].pc = IF job[j].op \in DatasetOps THEN "loaded" ELSE "storing"
    /\ objects' = objects \cup {job[j].id}
    /\ Step(j, "stored")
    /\ UNCHANGED <<rows, dashboard, nextId, dead>>

ReadyToCommit(j) ==
    IF StoresObject(job[j].op) THEN job[j].pc = "stored"
    ELSE job[j].pc = IF job[j].op \in DatasetOps THEN "loaded" ELSE "storing"

---------------------------------------------------------------------------
(* Datasets: one transaction, after the object is stored. *)

CommitDataset(j) ==
    /\ ReadyToCommit(j)
    /\ rows' = Inserted(job[j].id, [op |-> job[j].op, status |-> "ready",
                                      key |-> StoresObject(job[j].op), parent |-> job[j].parent])
    /\ Step(j, "answering")
    /\ UNCHANGED <<objects, dashboard, nextId, dead>>

CommitUpload(j) == job[j].op = "upload" /\ CommitDataset(j)
CommitClean(j) == job[j].op = "clean" /\ CommitDataset(j)
CommitTable(j) == job[j].op = "table" /\ CommitDataset(j)

---------------------------------------------------------------------------
(* Artifacts: an unfinished row, the computation, the finished row. *)

BeginArtifact(j) ==
    /\ job[j].op \in ArtifactOps
    /\ job[j].pc = "loaded"
    /\ job[j].op = "report" => dashboard
    /\ rows' = Inserted(job[j].id, [op |-> job[j].op, status |-> "working", key |-> FALSE,
                                      parent |-> job[j].parent])
    /\ Step(j, "begun")
    /\ UNCHANGED <<objects, dashboard, nextId, dead>>

\* db.refresh reads the row again.
Refresh(j) ==
    /\ job[j].pc = "begun"
    /\ Exists(job[j].id)
    /\ Step(j, "working")
    /\ UNCHANGED <<rows, objects, dashboard, nextId, dead>>

Compute(j) ==
    /\ job[j].pc = "working"
    /\ \/ Step(j, "storing")
       \/ Step(j, "failing")        \* ReportGenerationError, AutoMLError, ForecastingError
    /\ UNCHANGED <<rows, objects, dashboard, nextId, dead>>

CommitFailedUnsaved(j) ==
    /\ job[j].pc = "failing"
    /\ Exists(job[j].id)
    /\ End(j)
    /\ UNCHANGED <<rows, objects, dashboard, nextId, dead>>
CommitFailedAsError(j) ==
    /\ job[j].pc = "failing"
    /\ Exists(job[j].id)
    /\ rows' = [rows EXCEPT ![job[j].id].status = "error"]
    /\ End(j)
    /\ UNCHANGED <<objects, dashboard, nextId, dead>>
CommitFailed(j) ==
    /\ job[j].pc = "failing"
    /\ Exists(job[j].id)
    /\ rows' = [rows EXCEPT ![job[j].id].status = "failed"]
    /\ End(j)
    /\ UNCHANGED <<objects, dashboard, nextId, dead>>

CommitReadyMerging(j) ==
    /\ ReadyToCommit(j)
    /\ rows' = Inserted(job[j].id, [op |-> job[j].op, status |-> "ready",
                                      key |-> StoresObject(job[j].op), parent |-> job[j].parent])
    /\ Step(j, "answering")
    /\ UNCHANGED <<objects, dashboard, nextId, dead>>
CommitReady(j) ==
    /\ ReadyToCommit(j)
    /\ Exists(job[j].id)
    /\ rows' = [rows EXCEPT ![job[j].id].status = "ready", ![job[j].id].key = StoresObject(job[j].op)]
    /\ Step(j, "answering")
    /\ UNCHANGED <<objects, dashboard, nextId, dead>>

ReportReady(j) == job[j].op = "report" /\ CommitReady(j)
ReportFailed(j) == job[j].op = "report" /\ CommitFailed(j)
ModelReady(j) == job[j].op = "model" /\ CommitReady(j)
ModelFailed(j) == job[j].op = "model" /\ CommitFailed(j)
ForecastReady(j) == job[j].op = "forecast" /\ CommitReady(j)
ForecastFailed(j) == job[j].op = "forecast" /\ CommitFailed(j)

\* The refresh after the last commit, and the 201 that serializes what it read.
Answer(j) ==
    /\ job[j].pc = "answering"
    /\ Exists(job[j].id)
    /\ End(j)
    /\ UNCHANGED <<rows, objects, dashboard, nextId, dead>>

\* The row was deleted meanwhile: an UPDATE of no row raises StaleDataError, a refresh of
\* no row InvalidRequestError, and a report without its dashboard breaks the foreign key.
RowIsGone(j) ==
    /\ \/ job[j].pc \in {"begun", "failing", "answering"} /\ ~Exists(job[j].id)
       \/ job[j].op \in ArtifactOps /\ ReadyToCommit(j) /\ ~Exists(job[j].id)
       \/ job[j].op = "report" /\ job[j].pc = "loaded" /\ ~dashboard
    /\ Die(j)

Crash(j) == job[j].pc \notin {"idle", "reading"} /\ Die(j)

---------------------------------------------------------------------------
(* Readers: previews, profiles, predictions and downloads. *)

StartRead(j, i) ==
    /\ job[j].pc = "idle"
    /\ Readable(i)
    /\ job' = [job EXCEPT ![j] = [NoJob EXCEPT !.pc = "reading", !.op = "read", !.id = i]]
    /\ UNCHANGED <<rows, objects, dashboard, nextId, dead>>

Read(j) ==
    /\ job[j].pc = "reading"
    /\ End(j)
    /\ UNCHANGED <<rows, objects, dashboard, nextId, dead>>

---------------------------------------------------------------------------
(* Deletion, of the row alone. *)

\* delete_report, delete_model, delete_forecast: whatever the row's status.
DeleteRowAndObject(i, op) ==
    /\ Exists(i) /\ rows[i].op = op
    /\ rows' = Without({i})
    /\ objects' = objects \ {i}
    /\ UNCHANGED <<dashboard, job, nextId, dead>>
DeleteRow(i, op) ==
    /\ Exists(i) /\ rows[i].op = op
    /\ rows' = Without({i})
    /\ UNCHANGED <<objects, dashboard, job, nextId, dead>>

DeleteReport(i) == DeleteRow(i, "report")
DeleteModel(i) == DeleteRow(i, "model")
DeleteForecast(i) == DeleteRow(i, "forecast")

\* delete_dashboard: its reports go with it.
DeleteDashboard ==
    /\ dashboard
    /\ dashboard' = FALSE
    /\ rows' = Without({i \in DOMAIN rows : rows[i].op = "report"})
    /\ UNCHANGED <<objects, job, nextId, dead>>

---------------------------------------------------------------------------
Init ==
    /\ rows = <<>>
    /\ objects = {}
    /\ dashboard = TRUE
    /\ job = [j \in Jobs |-> NoJob]
    /\ nextId = 1
    /\ dead = {}

Continue(j) ==
    \/ StoreObject(j)
    \/ CommitUpload(j) \/ CommitClean(j) \/ CommitTable(j)
    \/ BeginArtifact(j) \/ Refresh(j) \/ Compute(j)
    \/ ReportReady(j) \/ ModelReady(j) \/ ForecastReady(j)
    \/ ReportFailed(j) \/ ModelFailed(j) \/ ForecastFailed(j)
    \/ Answer(j)
    \/ RowIsGone(j)
    \/ Read(j)

Next ==
    \/ \E j \in Jobs :
         \/ LoadUpload(j) \/ LoadTable(j) \/ LoadReport(j)
         \/ \E i \in RowIds : \/ LoadClean(j, i) \/ LoadModel(j, i) \/ LoadForecast(j, i)
                              \/ StartRead(j, i)
         \/ Refuse(j)
         \/ Continue(j)
         \/ Crash(j)
    \/ \E i \in RowIds : DeleteReport(i) \/ DeleteModel(i) \/ DeleteForecast(i)
    \/ DeleteDashboard

Spec == Init /\ [][Next]_vars

\* A handler runs in a thread of its own and goes on until it ends or dies.
FairSpec == Spec /\ \A j \in Jobs : WF_vars(Continue(j))

---------------------------------------------------------------------------
(* Properties. *)

\* Whoever is sent to the object store finds the object there: the object of every row
\* that names one is stored before the row says so, survives a crash between the two, and
\* is still there for a reader whose row is deleted under its feet.
ReadersFindTheirObject ==
    /\ \A i \in DOMAIN rows : rows[i].key => i \in objects
    /\ \A j \in Jobs : job[j].pc = "reading" => job[j].id \in objects

\* "Persisted, immutable runs": once finished, a row is never written again, and a row
\* that was deleted while it was computed does not come back finished.
Finished(i) == Exists(i) /\ rows[i].status # "working"
KeepsRuns ==
    \A i \in RowIds :
      /\ Finished(i) => ~Exists(i)' \/ rows'[i] = rows[i]
      /\ ~Exists(i) /\ Finished(i)' => rows'[i].op \in DatasetOps
RunsAreImmutable == [][KeepsRuns]_vars

\* get_lineage's walk, from any version it starts at, ends at a file that was ingested:
\* never at a connected table and never in a circle.  What it visits is in every set of rows
\* that has its start and, with a row, the row's parent.
WalksOn(S) == \A k \in S : rows[k].parent # 0 => rows[k].parent \in S
Ancestors(i) ==
    {k \in DOMAIN rows : \A S \in SUBSET DOMAIN rows : i \in S /\ WalksOn(S) => k \in S}
LineageEndsAtUpload ==
    \A i \in DOMAIN rows :
      rows[i].parent # 0 =>
        /\ rows[i].parent \in DOMAIN rows
        /\ i \notin Ancestors(rows[i].parent)
        /\ \E k \in Ancestors(i) : rows[k].op = "upload"

\* Whoever polls an unfinished row waits for somebody: the request that made the row is still at
\* work on it, in the same kind of work, unless it died (create_report, train_model,
\* create_forecast).
UnfinishedIsWorkedOn ==
    \A i \in DOMAIN rows :
      rows[i].status = "working" /\ i \notin dead =>
        \E j \in Jobs : /\ job[j].id = i /\ job[j].op = rows[i].op
                        /\ job[j].pc \in {"begun", "working", "storing", "stored", "failing"}

\* An unfinished row is finished or deleted in the end, unless the job that made it died:
\* nothing else in the code ever looks after it.
FinishedUnlessItsJobDies ==
    \A i \in RowIds :
      (Exists(i) /\ rows[i].status = "working") ~> (~Exists(i) \/ Finished(i) \/ i \in dead)
=============================================================================
