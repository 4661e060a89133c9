-------------------------- MODULE ArtifactsProofs --------------------------
(***************************************************************************)
(* Proofs about Artifacts, for any number of jobs and rows.                *)
(*                                                                         *)
(* The inductive invariant adds to the type invariant where the objects    *)
(* are (Objects: a job past its upload has its object in the bucket) and   *)
(* what a job may rely on about its row (Owned: an id belongs to one job,  *)
(* a job that has not made its row yet finds none under its id, and one    *)
(* that has not finished it yet finds it unfinished, or gone).             *)
(***************************************************************************)
EXTENDS Artifacts, WellFoundedInduction, TLAPS

\* A job that makes a row, and one whose row is not committed yet.
Makes(j) == job[j].op \in DatasetOps \cup ArtifactOps
Unborn(j) == Makes(j) /\ (job[j].pc = "loaded" \/ (job[j].op \in DatasetOps /\ job[j].pc = "stored"))
Unfinished(j) ==
    job[j].op \in ArtifactOps /\ job[j].pc \in {"begun", "working", "storing", "stored", "failing"}

Placed ==
    /\ \A j \in Jobs : /\ job[j].pc = "idle" => job[j].op = "none"
                       /\ job[j].pc = "reading" <=> job[j].op = "read"
                       /\ job[j].pc # "idle" => job[j].id \in RowIds /\ job[j].op # "none"
                       /\ job[j].op \in DatasetOps
                            => job[j].pc \in {"loaded", "stored", "answering"}

Objects ==
    /\ ReadersFindTheirObject
    /\ \A j \in Jobs : job[j].pc = "stored" => job[j].id \in objects

Owned ==
    /\ \A i \in DOMAIN rows : i < nextId
    /\ \A j \in Jobs : Makes(j) => job[j].id < nextId
    /\ \A j, k \in Jobs : Makes(j) /\ Makes(k) /\ job[j].id = job[k].id => j = k
    /\ \A j \in Jobs : Unborn(j) => job[j].id \notin DOMAIN rows
    /\ \A j \in Jobs : Unfinished(j) /\ Exists(job[j].id) => rows[job[j].id].status = "working"

IndInv == TypeOK /\ Placed /\ Objects /\ Owned

---------------------------------------------------------------------------
LEMMA NoJobIsAJob == NoJob \in Job
  BY DEF NoJob, Job

LEMMA InitInv == Init => IndInv
<1> SUFFICES ASSUME Init PROVE IndInv
  OBVIOUS
<1>1. TypeOK
  BY BoundAssumption, NoJobIsAJob DEF Init, TypeOK
<1>2. Placed /\ Objects /\ Owned
  BY DEF Init, NoJob, Placed, Objects, Owned, ReadersFindTheirObject, Makes, Unborn, Unfinished,
         DatasetOps, ArtifactOps, Exists
<1> QED
  BY <1>1, <1>2 DEF IndInv

\* A step that only moves one job on, without a claim it did not have.
LEMMA JobMoves ==
    ASSUME IndInv, NEW j \in Jobs, NEW pc,
           pc \in {"begun", "working", "storing", "failing"},
           Unfinished(j), job[j].pc # "stored",
           Step(j, pc), UNCHANGED <<rows, objects, dashboard, nextId, dead>>
    PROVE  IndInv'
<1>1. TypeOK'
  BY DEF IndInv, TypeOK, Step, Job
<1>2. Placed'
  BY DEF IndInv, TypeOK, Placed, Step, Job, Unfinished, ArtifactOps, DatasetOps
<1>3. Objects'
  BY DEF IndInv, TypeOK, Objects, ReadersFindTheirObject, Step, Job
<1>4. Owned'
  BY DEF IndInv, TypeOK, Owned, Step, Job, Makes, Unborn, Unfinished, Exists, ArtifactOps, DatasetOps
<1> QED
  BY <1>1, <1>2, <1>3, <1>4 DEF IndInv

\* A job ends, or dies.
LEMMA JobEnds ==
    ASSUME IndInv, NEW j \in Jobs, job[j].pc # "idle", End(j),
           dead' = dead \/ dead' = dead \cup {job[j].id},
           UNCHANGED <<rows, objects, dashboard, nextId>>
    PROVE  IndInv'
<1>1. TypeOK'
  BY NoJobIsAJob DEF IndInv, TypeOK, Placed, End
<1>2. Placed'
  BY DEF IndInv, TypeOK, Placed, End, NoJob, DatasetOps
<1>3. Objects'
  BY DEF IndInv, TypeOK, Objects, ReadersFindTheirObject, End, NoJob
<1>4. Owned'
  BY DEF IndInv, TypeOK, Owned, End, NoJob, Makes, Unborn, Unfinished, Exists, ArtifactOps, DatasetOps
<1> QED
  BY <1>1, <1>2, <1>3, <1>4 DEF IndInv

---------------------------------------------------------------------------
LEMMA LoadStep ==
    ASSUME IndInv, NEW j \in Jobs, NEW op \in DatasetOps \cup ArtifactOps,
           NEW parent \in RowIds \cup {0}, Load(j, op, parent)
    PROVE  IndInv'
<1> DEFINE q == [pc |-> "loaded", op |-> op, id |-> nextId, parent |-> parent]
<1>1. q \in Job /\ nextId \in RowIds /\ nextId \notin DOMAIN rows
  BY BoundAssumption DEF IndInv, TypeOK, Owned, Load, Job, RowIds
<1>2. job'[j] = q /\ \A k \in Jobs \ {j} : job'[k] = job[k]
  BY DEF IndInv, TypeOK, Load
<1>3. TypeOK'
  BY <1>1, BoundAssumption DEF IndInv, TypeOK, Load, RowIds
<1>4. Placed'
  BY <1>1, <1>2 DEF IndInv, Placed, DatasetOps, ArtifactOps
<1>5. Objects'
  BY <1>2 DEF IndInv, Objects, ReadersFindTheirObject, Load
<1>6. Owned'
  <2>1. \A i \in DOMAIN rows : i < nextId'
    BY <1>1 DEF IndInv, TypeOK, Owned, Load, RowIds
  <2>2. \A k \in Jobs : Makes(k)' => job'[k].id < nextId'
    BY <1>1, <1>2 DEF IndInv, TypeOK, Owned, Load, Makes, RowIds, Job
  <2>3. \A k \in Jobs \ {j} : Makes(k) => job[k].id # nextId
    BY DEF IndInv, Owned, TypeOK, Job, RowIds
  <2>4. \A k, l \in Jobs : Makes(k)' /\ Makes(l)' /\ job'[k].id = job'[l].id => k = l
    BY <1>2, <2>3 DEF IndInv, Owned, Makes
  <2>5. \A k \in Jobs : Unborn(k)' => job'[k].id \notin DOMAIN rows
    BY <1>1, <1>2 DEF IndInv, Owned, Unborn, Makes
  <2>6. \A k \in Jobs : Unfinished(k)' /\ Exists(job'[k].id) => rows[job'[k].id].status = "working"
    BY <1>1, <1>2 DEF IndInv, Owned, Unfinished, Exists
  <2> QED
    BY <2>1, <2>2, <2>4, <2>5, <2>6 DEF Owned, Load, Exists
<1> QED
  BY <1>3, <1>4, <1>5, <1>6 DEF IndInv

LEMMA StoreStep ==
    ASSUME IndInv, NEW j \in Jobs, StoreObject(j)
    PROVE  IndInv'
<1>1. /\ job'[j] = [job[j] EXCEPT !.pc = "stored"] /\ job[j] \in Job /\ job'[j] \in Job
      /\ \A k \in Jobs \ {j} : job'[k] = job[k]
  BY DEF IndInv, TypeOK, StoreObject, Step, Job
<1>2. Makes(j) /\ job[j].id \in RowIds
  BY DEF IndInv, TypeOK, Placed, StoreObject, StoresObject, Makes, Job, DatasetOps, ArtifactOps
<1>3. TypeOK'
  BY <1>1, <1>2 DEF IndInv, TypeOK, StoreObject, Step
<1>4. Placed'
  BY <1>1, <1>2 DEF IndInv, Placed, StoreObject, Makes, DatasetOps, ArtifactOps, Job
<1>5. Objects'
  BY <1>1 DEF IndInv, Objects, ReadersFindTheirObject, StoreObject, Job
<1>6. Unborn(j)' => Unborn(j)
  BY <1>1, <1>2 DEF StoreObject, Unborn, Makes, Job, DatasetOps, ArtifactOps
<1>7. Unfinished(j)' => Unfinished(j)
  BY <1>1, <1>2 DEF StoreObject, Unfinished, Job, DatasetOps, ArtifactOps
<1>8. Owned'
  BY <1>1, <1>6, <1>7 DEF IndInv, Owned, StoreObject, Makes, Unborn, Unfinished, Exists, Job
<1> QED
  BY <1>3, <1>4, <1>5, <1>8 DEF IndInv

\* A job gives a row to its id: a dataset, or an unfinished artifact.
LEMMA InsertStep ==
    ASSUME IndInv, NEW j \in Jobs, NEW row \in Row, NEW pc \in {"begun", "answering"},
           Unborn(j), rows' = Inserted(job[j].id, row), Step(j, pc),
           row.key => job[j].id \in objects,
           pc = "begun" => job[j].op \in ArtifactOps /\ row.status = "working",
           UNCHANGED <<objects, dashboard, nextId, dead>>
    PROVE  IndInv'
<1>1. /\ job'[j] = [job[j] EXCEPT !.pc = pc] /\ job[j] \in Job /\ job'[j] \in Job
      /\ \A k \in Jobs \ {j} : job'[k] = job[k]
  BY DEF IndInv, TypeOK, Step, Job
<1>2. Makes(j) /\ job[j].id \in RowIds /\ job[j].id \notin DOMAIN rows
  BY DEF IndInv, Placed, Owned, Unborn, Makes, DatasetOps, ArtifactOps
<1>3. /\ DOMAIN rows' = DOMAIN rows \cup {job[j].id} /\ rows'[job[j].id] = row
      /\ \A i \in DOMAIN rows : rows'[i] = rows[i]
  BY <1>2 DEF Inserted
<1>4. TypeOK'
  BY <1>1, <1>2 DEF IndInv, TypeOK, Step, Inserted
<1>5. Placed'
  BY <1>1, <1>2 DEF IndInv, Placed, Makes, DatasetOps, ArtifactOps, Job, Unborn
<1>6. Objects'
  BY <1>1, <1>3 DEF IndInv, Objects, ReadersFindTheirObject, Job
<1>7. ~Unborn(j)'
  BY <1>1 DEF Unborn, Job, DatasetOps, ArtifactOps
<1>8. Unfinished(j)' => row.status = "working"
  BY <1>1 DEF Unfinished, Job
<1>9. \A k \in Jobs \ {j} : Makes(k) => job[k].id # job[j].id
  BY <1>2 DEF IndInv, Owned
<1>10. Owned'
  <2>1. (\A i \in DOMAIN rows : i < nextId)'
    BY <1>2, <1>3 DEF IndInv, Owned
  <2>2. (\A k \in Jobs : Makes(k) => job[k].id < nextId)'
    BY <1>1, <1>2 DEF IndInv, Owned, Makes, Job
  <2>3. (\A k, l \in Jobs : Makes(k) /\ Makes(l) /\ job[k].id = job[l].id => k = l)'
    BY <1>1, <1>2 DEF IndInv, Owned, Makes, Job
  <2>4. (\A k \in Jobs : Unborn(k) => job[k].id \notin DOMAIN rows)'
    BY <1>1, <1>3, <1>7, <1>9 DEF IndInv, Owned, Unborn, Makes
  <2>5. ASSUME NEW k \in Jobs, Unfinished(k)', Exists(job[k].id)'
        PROVE  rows'[job'[k].id].status = "working"
    <3>1. CASE k = j
      BY <1>1, <1>3, <1>8, <2>5, <3>1 DEF Job
    <3>2. CASE k # j
      BY <1>1, <1>3, <1>9, <2>5, <3>2 DEF IndInv, Owned, Unfinished, Exists, Makes
    <3> QED
      BY <3>1, <3>2
  <2> QED
    BY <2>1, <2>2, <2>3, <2>4, <2>5 DEF Owned
<1> QED
  BY <1>4, <1>5, <1>6, <1>10 DEF IndInv

\* A job gives its unfinished row its end, and ends or goes on to answer.
LEMMA FinishStep ==
    ASSUME IndInv, NEW j \in Jobs, Unfinished(j), Exists(job[j].id),
           NEW row \in Row, row.key => job[j].id \in objects,
           rows' = [rows EXCEPT ![job[j].id] = row],
           End(j) \/ Step(j, "answering"),
           UNCHANGED <<objects, dashboard, nextId, dead>>
    PROVE  IndInv'
<1>1. /\ job'[j] = NoJob \/ job'[j] = [job[j] EXCEPT !.pc = "answering"]
      /\ job[j] \in Job /\ job'[j] \in Job
      /\ \A k \in Jobs \ {j} : job'[k] = job[k]
      /\ job' \in [Jobs -> Job]
  BY NoJobIsAJob DEF IndInv, TypeOK, Step, End, Job
<1>2. Makes(j) /\ job[j].id \in DOMAIN rows
  BY DEF Unfinished, Makes, Exists
<1>3. /\ DOMAIN rows' = DOMAIN rows /\ rows'[job[j].id] = row
      /\ \A i \in DOMAIN rows : i # job[j].id => rows'[i] = rows[i]
  BY <1>2 DEF IndInv, TypeOK
<1>4. TypeOK'
  BY <1>1, <1>3 DEF IndInv, TypeOK
<1>5. Placed'
  BY <1>1, <1>2 DEF IndInv, Placed, Unfinished, NoJob, DatasetOps, ArtifactOps, Job
<1>6. Objects'
  BY <1>1, <1>3 DEF IndInv, Objects, ReadersFindTheirObject, NoJob, Job
<1>7. ~Unborn(j)' /\ ~Unfinished(j)'
  BY <1>1 DEF Unborn, Unfinished, NoJob, Job, DatasetOps, ArtifactOps
<1>8. \A k \in Jobs \ {j} : Makes(k) => job[k].id # job[j].id
  BY <1>2 DEF IndInv, Owned
<1>9. Owned'
  <2>1. (\A i \in DOMAIN rows : i < nextId)'
    BY <1>3 DEF IndInv, Owned
  <2>2. (\A k \in Jobs : Makes(k) => job[k].id < nextId)'
    BY <1>1, <1>2 DEF IndInv, Owned, Makes, Job, NoJob, DatasetOps, ArtifactOps
  <2>3. (\A k, l \in Jobs : Makes(k) /\ Makes(l) /\ job[k].id = job[l].id => k = l)'
    BY <1>1, <1>2 DEF IndInv, Owned, Makes, Job, NoJob, DatasetOps, ArtifactOps
  <2>4. (\A k \in Jobs : Unborn(k) => job[k].id \notin DOMAIN rows)'
    BY <1>1, <1>3, <1>7 DEF IndInv, Owned, Unborn, Makes
  <2>5. (\A k \in Jobs : Unfinished(k) /\ Exists(job[k].id) => rows[job[k].id].status = "working")'
    BY <1>1, <1>3, <1>7, <1>8 DEF IndInv, Owned, Unfinished, Exists, Makes
  <2> QED
    BY <2>1, <2>2, <2>3, <2>4, <2>5 DEF Owned
<1> QED
  BY <1>4, <1>5, <1>6, <1>9 DEF IndInv

LEMMA ReadStep ==
    ASSUME IndInv, NEW j \in Jobs, NEW i \in RowIds, StartRead(j, i)
    PROVE  IndInv'
<1>1. /\ job'[j] = [pc |-> "reading", op |-> "read", id |-> i, parent |-> 0]
      /\ \A k \in Jobs \ {j} : job'[k] = job[k]
  BY DEF IndInv, TypeOK, StartRead, NoJob
<1>2. TypeOK'
  BY DEF IndInv, TypeOK, StartRead, NoJob, Job
<1>3. Placed'
  BY <1>1 DEF IndInv, Placed, DatasetOps
<1>4. Objects'
  BY <1>1 DEF IndInv, Objects, ReadersFindTheirObject, StartRead, Readable, Exists
<1>5. Owned'
  BY <1>1 DEF IndInv, Owned, StartRead, Makes, Unborn, Unfinished, Exists, DatasetOps, ArtifactOps
<1> QED
  BY <1>2, <1>3, <1>4, <1>5 DEF IndInv

\* Rows go, and nothing else but the dashboard.
LEMMA DeleteStep ==
    ASSUME IndInv, NEW ids, rows' = Without(ids), dashboard' \in BOOLEAN,
           UNCHANGED <<objects, job, nextId, dead>>
    PROVE  IndInv'
<1>1. /\ DOMAIN rows' = DOMAIN rows \ ids
      /\ \A i \in DOMAIN rows' : rows'[i] = rows[i]
  BY DEF Without
<1>2. TypeOK'
  BY <1>1 DEF IndInv, TypeOK, Without
<1>3. Placed'
  BY DEF IndInv, Placed
<1>4. Objects'
  BY <1>1 DEF IndInv, Objects, ReadersFindTheirObject
<1>5. Owned'
  BY <1>1 DEF IndInv, Owned, Makes, Unborn, Unfinished, Exists
<1> QED
  BY <1>2, <1>3, <1>4, <1>5 DEF IndInv

---------------------------------------------------------------------------
\* What the guards of the two commits say of the job.
LEMMA CommitsAnUnfinishedRow ==
    ASSUME IndInv, NEW j \in Jobs, ReadyToCommit(j), job[j].op \in ArtifactOps
    PROVE  Unfinished(j) /\ (StoresObject(job[j].op) => job[j].id \in objects)
  BY DEF IndInv, Objects, ReadyToCommit, StoresObject, Unfinished, DatasetOps, ArtifactOps

LEMMA DatasetCommitStep ==
    ASSUME IndInv, NEW j \in Jobs, job[j].op \in DatasetOps, CommitDataset(j)
    PROVE  IndInv'
<1> DEFINE row == [op |-> job[j].op, status |-> "ready", key |-> StoresObject(job[j].op),
                   parent |-> job[j].parent]
<1>1. Unborn(j) /\ (row.key => job[j].id \in objects)
  BY DEF IndInv, Objects, CommitDataset, ReadyToCommit, StoresObject, Unborn, Makes, DatasetOps
<1>2. row \in Row
  <2>1. job[j].parent \in RowIds \cup {0}
    BY DEF IndInv, TypeOK, Job
  <2>2. StoresObject(job[j].op) \in BOOLEAN
    BY DEF StoresObject
  <2> QED
    BY <2>1, <2>2 DEF Row
<1> QED
  BY <1>1, <1>2, InsertStep DEF CommitDataset

LEMMA ReadyStep ==
    ASSUME IndInv, NEW j \in Jobs, job[j].op \in ArtifactOps, CommitReady(j)
    PROVE  IndInv'
<1> DEFINE id == job[j].id
           row == [rows[id] EXCEPT !.status = "ready", !.key = StoresObject(job[j].op)]
<1>1. Unfinished(j) /\ (StoresObject(job[j].op) => id \in objects) /\ id \in DOMAIN rows
  BY CommitsAnUnfinishedRow DEF CommitReady, Exists
<1>2. rows[id] \in Row /\ StoresObject(job[j].op) \in BOOLEAN
  BY <1>1 DEF IndInv, TypeOK, StoresObject
<1>3. row \in Row /\ row.key = StoresObject(job[j].op)
  BY <1>2 DEF Row
<1>4. rows' = [rows EXCEPT ![id] = row]
  BY <1>1, <1>2 DEF CommitReady, Row, IndInv, TypeOK
<1> HIDE DEF row
<1> QED
  BY <1>1, <1>3, <1>4, FinishStep DEF CommitReady, Exists

LEMMA FailedStep ==
    ASSUME IndInv, NEW j \in Jobs, job[j].op \in ArtifactOps, CommitFailed(j)
    PROVE  IndInv'
<1> DEFINE id == job[j].id
           row == [rows[id] EXCEPT !.status = "failed"]
<1>1. Unfinished(j) /\ id \in DOMAIN rows
  BY DEF CommitFailed, Unfinished, Exists
<1>2. row \in Row /\ row.key = rows[id].key
  BY <1>1 DEF IndInv, TypeOK, Row
<1>3. row.key => id \in objects
  BY <1>1, <1>2 DEF IndInv, Objects, ReadersFindTheirObject
<1>4. rows' = [rows EXCEPT ![id] = row]
  BY DEF CommitFailed
<1> HIDE DEF row
<1> QED
  BY <1>1, <1>2, <1>3, <1>4, FinishStep DEF CommitFailed, Exists

LEMMA BeginStep ==
    ASSUME IndInv, NEW j \in Jobs, BeginArtifact(j)
    PROVE  IndInv'
<1> DEFINE row == [op |-> job[j].op, status |-> "working", key |-> FALSE, parent |-> job[j].parent]
<1>1. Unborn(j)
  BY DEF BeginArtifact, Unborn, Makes
<1>2. row \in Row
  BY DEF IndInv, TypeOK, Job, Row, BeginArtifact
<1> QED
  BY <1>1, <1>2, InsertStep DEF BeginArtifact

LEMMA WorkStep ==
    ASSUME IndInv, NEW j \in Jobs, Refresh(j) \/ Compute(j)
    PROVE  IndInv'
<1>1. Unfinished(j) /\ job[j].pc # "stored"
  <2>1. job[j].pc \in {"begun", "working"}
    BY DEF Refresh, Compute
  <2>2. job[j].op \in ArtifactOps
    BY <2>1 DEF IndInv, TypeOK, Placed, Job, DatasetOps, ArtifactOps
  <2> QED
    BY <2>1, <2>2 DEF Unfinished
<1>2. CASE Refresh(j)
  BY <1>1, <1>2, JobMoves DEF Refresh
<1>3. CASE Compute(j)
  BY <1>1, <1>3, JobMoves DEF Compute
<1> QED
  BY <1>2, <1>3

LEMMA DieStep ==
    ASSUME IndInv, NEW j \in Jobs, RowIsGone(j) \/ Crash(j)
    PROVE  IndInv'
<1>1. job[j].pc # "idle" /\ Die(j)
  BY DEF RowIsGone, Crash, ReadyToCommit
<1> QED
  BY <1>1, JobEnds DEF Die

LEMMA NextInv == IndInv /\ [Next]_vars => IndInv'
<1> SUFFICES ASSUME IndInv, [Next]_vars PROVE IndInv'
  OBVIOUS
<1>1. ASSUME NEW j \in Jobs, LoadUpload(j) \/ LoadTable(j) \/ LoadReport(j)
      PROVE  IndInv'
  BY <1>1, LoadStep DEF LoadUpload, LoadTable, LoadReport, DatasetOps, ArtifactOps
<1>2. ASSUME NEW j \in Jobs, NEW i \in RowIds, LoadClean(j, i) \/ LoadModel(j, i) \/ LoadForecast(j, i)
      PROVE  IndInv'
  BY <1>2, LoadStep DEF LoadClean, LoadModel, LoadForecast, DatasetOps, ArtifactOps
<1>3. ASSUME NEW j \in Jobs, NEW i \in RowIds, StartRead(j, i)
      PROVE  IndInv'
  BY <1>3, ReadStep
<1>4. ASSUME NEW j \in Jobs, Refuse(j) \/ Answer(j) \/ Read(j)
      PROVE  IndInv'
  BY <1>4, JobEnds DEF Refuse, Answer, Read
<1>5. ASSUME NEW j \in Jobs, RowIsGone(j) \/ Crash(j)
      PROVE  IndInv'
  BY <1>5, DieStep
<1>6. ASSUME NEW j \in Jobs, StoreObject(j)
      PROVE  IndInv'
  BY <1>6, StoreStep
<1>7. ASSUME NEW j \in Jobs, CommitUpload(j) \/ CommitClean(j) \/ CommitTable(j)
      PROVE  IndInv'
  BY <1>7, DatasetCommitStep DEF CommitUpload, CommitClean, CommitTable, DatasetOps
<1>8. ASSUME NEW j \in Jobs, BeginArtifact(j)
      PROVE  IndInv'
  BY <1>8, BeginStep
<1>9. ASSUME NEW j \in Jobs, Refresh(j) \/ Compute(j)
      PROVE  IndInv'
  BY <1>9, WorkStep
<1>10. ASSUME NEW j \in Jobs, ReportReady(j) \/ ModelReady(j) \/ ForecastReady(j)
       PROVE  IndInv'
  BY <1>10, ReadyStep DEF ReportReady, ModelReady, ForecastReady, ArtifactOps
<1>11. ASSUME NEW j \in Jobs, ReportFailed(j) \/ ModelFailed(j) \/ ForecastFailed(j)
       PROVE  IndInv'
  BY <1>11, FailedStep DEF ReportFailed, ModelFailed, ForecastFailed, ArtifactOps
<1>12. ASSUME NEW i \in RowIds, DeleteReport(i) \/ DeleteModel(i) \/ DeleteForecast(i)
       PROVE  IndInv'
  BY <1>12, DeleteStep DEF DeleteReport, DeleteModel, DeleteForecast, DeleteRow, IndInv, TypeOK
<1>13. ASSUME DeleteDashboard PROVE IndInv'
  BY <1>13, DeleteStep DEF DeleteDashboard
<1>14. ASSUME UNCHANGED vars PROVE IndInv'
  <2> USE <1>14 DEF vars
  <2>1. TypeOK'
    BY DEF IndInv, TypeOK
  <2>2. Placed'
    BY DEF IndInv, Placed
  <2>3. Objects'
    BY DEF IndInv, Objects, ReadersFindTheirObject
  <2>4. Owned'
    BY DEF IndInv, Owned, Makes, Unborn, Unfinished, Exists
  <2> QED
    BY <2>1, <2>2, <2>3, <2>4 DEF IndInv
<1> QED
  BY <1>1, <1>2, <1>3, <1>4, <1>5, <1>6, <1>7, <1>8, <1>9, <1>10, <1>11, <1>12, <1>13, <1>14
  DEF Next, Continue

THEOREM IndInvHolds == Spec => []IndInv
  BY InitInv, NextInv, PTL DEF Spec

---------------------------------------------------------------------------
\* The rows, the objects and the jobs are always of their types, of any number of jobs.
THEOREM ArtifactTypeCorrect == Spec => []TypeOK
<1>1. IndInv => TypeOK
  BY DEF IndInv
<1> QED
  BY <1>1, IndInvHolds, PTL

---------------------------------------------------------------------------
(* Who works on an unfinished row. *)

WorksOn(j, i) ==
    /\ job[j].id = i /\ job[j].op = rows[i].op
    /\ job[j].pc \in {"begun", "working", "storing", "stored", "failing"}

\* While a row stays as it is and whoever works on it stays at work, there is nothing to lose.
LEMMA WorkGoesOn ==
    ASSUME UnfinishedIsWorkedOn, DOMAIN rows' \subseteq DOMAIN rows, dead \subseteq dead',
           \A i \in DOMAIN rows' : rows'[i].status = "working" =>
              /\ rows'[i] = rows[i]
              /\ \A j \in Jobs : WorksOn(j, i) => WorksOn(j, i)' \/ i \in dead'
    PROVE  UnfinishedIsWorkedOn'
  BY DEF UnfinishedIsWorkedOn, WorksOn

\* A job that works on nothing, or goes on, or dies, while the rows stay.
LEMMA JobLeavesRows ==
    ASSUME IndInv, UnfinishedIsWorkedOn, NEW j \in Jobs, rows' = rows, dead \subseteq dead',
           \A k \in Jobs \ {j} : job'[k] = job[k],
           \/ job[j].op \notin ArtifactOps \/ ~Unfinished(j)
           \/ /\ job'[j].id = job[j].id /\ job'[j].op = job[j].op
              /\ job'[j].pc \in {"begun", "working", "storing", "stored", "failing"}
           \/ job[j].id \in dead'
    PROVE  UnfinishedIsWorkedOn'
<1>1. ASSUME NEW i \in DOMAIN rows, rows[i].status = "working", NEW k \in Jobs, WorksOn(k, i)
      PROVE  WorksOn(k, i)' \/ i \in dead'
  <2>1. CASE k # j
    BY <1>1, <2>1 DEF WorksOn
  <2>2. CASE k = j /\ Unfinished(j)
    BY <1>1, <2>2 DEF WorksOn, Unfinished
  <2>3. CASE k = j /\ ~Unfinished(j)
    <3>1. job[j].op \in DatasetOps /\ job[j].pc = "stored"
      BY <1>1, <2>3 DEF IndInv, TypeOK, Placed, Job, WorksOn, Unfinished, DatasetOps, ArtifactOps
    <3> QED BY <1>1, <2>3, <3>1 DEF IndInv, Owned, Unborn, Makes, WorksOn
  <2> QED BY <2>1, <2>2, <2>3
<1> QED BY <1>1, WorkGoesOn

LEMMA WorkStays == IndInv /\ UnfinishedIsWorkedOn /\ [Next]_vars => UnfinishedIsWorkedOn'
<1> SUFFICES ASSUME IndInv, UnfinishedIsWorkedOn, [Next]_vars PROVE UnfinishedIsWorkedOn'
  OBVIOUS
<1>0. /\ job \in [Jobs -> Job] /\ rows \in [DOMAIN rows -> Row]
      /\ \A j \in Jobs : Unfinished(j) => job[j].pc \notin {"idle", "loaded", "answering", "reading"}
  BY DEF IndInv, TypeOK, Unfinished
<1>1. ASSUME NEW j \in Jobs, NEW op, NEW parent, Load(j, op, parent)
      PROVE  UnfinishedIsWorkedOn'
  BY <1>0, <1>1, JobLeavesRows DEF Load
<1>2. ASSUME NEW j \in Jobs, NEW i \in RowIds, StartRead(j, i)
      PROVE  UnfinishedIsWorkedOn'
  BY <1>0, <1>2, JobLeavesRows DEF StartRead
<1>3. ASSUME NEW j \in Jobs, Refuse(j) \/ Answer(j) \/ Read(j)
      PROVE  UnfinishedIsWorkedOn'
  BY <1>0, <1>3, JobLeavesRows DEF Refuse, Answer, Read, End
<1>4. ASSUME NEW j \in Jobs, RowIsGone(j) \/ Crash(j)
      PROVE  UnfinishedIsWorkedOn'
  <2>1. Die(j)
    BY <1>4 DEF RowIsGone, Crash
  <2> QED BY <1>0, <2>1, JobLeavesRows DEF Die, End
<1>5. ASSUME NEW j \in Jobs, StoreObject(j) \/ Refresh(j) \/ Compute(j)
      PROVE  UnfinishedIsWorkedOn'
  <2>1. PICK pc \in {"working", "storing", "stored", "failing"} : Step(j, pc)
    BY <1>5 DEF StoreObject, Refresh, Compute
  <2>2. /\ job'[j].id = job[j].id /\ job'[j].op = job[j].op /\ job'[j].pc = pc
        /\ \A k \in Jobs \ {j} : job'[k] = job[k]
    BY <1>0, <2>1 DEF Step, Job
  <2>3. rows' = rows /\ dead' = dead
    BY <1>5 DEF StoreObject, Refresh, Compute
  <2> QED BY <2>2, <2>3, JobLeavesRows
<1>6. ASSUME NEW j \in Jobs, CommitDataset(j), job[j].op \in DatasetOps
      PROVE  UnfinishedIsWorkedOn'
  <2>1. Unborn(j) /\ job[j].id \notin DOMAIN rows
    BY <1>6 DEF IndInv, Owned, CommitDataset, ReadyToCommit, StoresObject, Unborn, Makes, DatasetOps
  <2>2. /\ DOMAIN rows' = DOMAIN rows \cup {job[j].id} /\ rows'[job[j].id].status = "ready"
        /\ \A i \in DOMAIN rows : rows'[i] = rows[i]
        /\ \A k \in Jobs \ {j} : job'[k] = job[k] /\ dead' = dead
    BY <1>0, <1>6, <2>1 DEF CommitDataset, Inserted, Step
  <2>3. ASSUME NEW i \in DOMAIN rows', rows'[i].status = "working", i \notin dead'
        PROVE  \E k \in Jobs : WorksOn(k, i)'
    <3>1. i \in DOMAIN rows /\ rows[i].status = "working" /\ i \notin dead
      BY <1>6, <2>2, <2>3 DEF CommitDataset
    <3>2. PICK k \in Jobs : WorksOn(k, i)
      BY <3>1 DEF UnfinishedIsWorkedOn, WorksOn
    <3>3. k # j
      BY <2>1, <3>1, <3>2 DEF WorksOn
    <3> QED BY <2>2, <3>1, <3>2, <3>3 DEF WorksOn
  <2> QED BY <2>3 DEF UnfinishedIsWorkedOn, WorksOn
<1>7. ASSUME NEW j \in Jobs, BeginArtifact(j)
      PROVE  UnfinishedIsWorkedOn'
  <2>1. Unborn(j) /\ job[j].id \notin DOMAIN rows
    BY <1>7 DEF IndInv, Owned, BeginArtifact, Unborn, Makes
  <2>2. /\ DOMAIN rows' = DOMAIN rows \cup {job[j].id} /\ rows'[job[j].id].op = job[j].op
        /\ \A i \in DOMAIN rows : rows'[i] = rows[i]
        /\ job'[j].id = job[j].id /\ job'[j].op = job[j].op /\ job'[j].pc = "begun"
        /\ \A k \in Jobs \ {j} : job'[k] = job[k]
    BY <1>0, <1>7, <2>1 DEF BeginArtifact, Inserted, Step, Job
  <2>3. ASSUME NEW i \in DOMAIN rows', rows'[i].status = "working", i \notin dead'
        PROVE  \E k \in Jobs : WorksOn(k, i)'
    <3>1. CASE i = job[j].id
      BY <2>2, <3>1 DEF WorksOn
    <3>2. CASE i # job[j].id
      <4>1. i \in DOMAIN rows /\ rows[i].status = "working" /\ i \notin dead
        BY <1>7, <2>2, <2>3, <3>2 DEF BeginArtifact
      <4>2. PICK k \in Jobs : WorksOn(k, i)
        BY <4>1 DEF UnfinishedIsWorkedOn, WorksOn
      <4> QED BY <2>2, <3>2, <4>1, <4>2 DEF WorksOn
    <3> QED BY <3>1, <3>2
  <2> QED BY <2>3 DEF UnfinishedIsWorkedOn, WorksOn
<1>8. ASSUME NEW j \in Jobs, CommitReady(j) \/ CommitFailed(j)
      PROVE  UnfinishedIsWorkedOn'
  <2>1. /\ DOMAIN rows' = DOMAIN rows /\ job[j].id \in DOMAIN rows /\ dead' = dead
        /\ \A i \in DOMAIN rows \ {job[j].id} : rows'[i] = rows[i]
        /\ rows'[job[j].id].status \in {"ready", "failed"}
    BY <1>0, <1>8 DEF CommitReady, CommitFailed, Exists, Row
  <2>2. \A k \in Jobs \ {j} : job'[k] = job[k]
    BY <1>0, <1>8 DEF CommitReady, CommitFailed, Step, End
  <2> QED BY <2>1, <2>2, WorkGoesOn DEF WorksOn
<1>9. ASSUME NEW ids, rows' = Without(ids), UNCHANGED <<job, dead>>
      PROVE  UnfinishedIsWorkedOn'
  BY <1>9, WorkGoesOn DEF Without, WorksOn
<1>10. ASSUME UNCHANGED vars PROVE UnfinishedIsWorkedOn'
  BY <1>10 DEF vars, UnfinishedIsWorkedOn
<1>11. ASSUME NEW j \in Jobs,
              \/ LoadUpload(j) \/ LoadTable(j) \/ LoadReport(j)
              \/ \E i \in RowIds : LoadClean(j, i) \/ LoadModel(j, i) \/ LoadForecast(j, i)
       PROVE  UnfinishedIsWorkedOn'
  BY <1>1, <1>11 DEF LoadUpload, LoadTable, LoadReport, LoadClean, LoadModel, LoadForecast
<1>12. ASSUME NEW j \in Jobs, CommitUpload(j) \/ CommitClean(j) \/ CommitTable(j)
       PROVE  UnfinishedIsWorkedOn'
  BY <1>6, <1>12 DEF CommitUpload, CommitClean, CommitTable, DatasetOps
<1>13. ASSUME NEW j \in Jobs,
              \/ ReportReady(j) \/ ModelReady(j) \/ ForecastReady(j)
              \/ ReportFailed(j) \/ ModelFailed(j) \/ ForecastFailed(j)
       PROVE  UnfinishedIsWorkedOn'
  BY <1>8, <1>13 DEF ReportReady, ModelReady, ForecastReady, ReportFailed, ModelFailed, ForecastFailed
<1>14. ASSUME \/ \E i \in RowIds : DeleteReport(i) \/ DeleteModel(i) \/ DeleteForecast(i)
              \/ DeleteDashboard
       PROVE  UnfinishedIsWorkedOn'
  BY <1>9, <1>14 DEF DeleteReport, DeleteModel, DeleteForecast, DeleteRow, DeleteDashboard
<1> QED
  BY <1>2, <1>3, <1>4, <1>5, <1>7, <1>10, <1>11, <1>12, <1>13, <1>14 DEF Next, Continue

\* However jobs, deletions and crashes overlap, an unfinished row always has the request that made
\* it still at work on it, unless that one died: what FinishedUnlessItsJobDies rests on.
THEOREM UnfinishedStaysWorkedOn == Spec => []UnfinishedIsWorkedOn
<1>1. Init => UnfinishedIsWorkedOn
  BY DEF Init, UnfinishedIsWorkedOn
<1> QED
  BY <1>1, WorkStays, IndInvHolds, PTL DEF Spec

---------------------------------------------------------------------------
\* Uploads before rows, and no deletion of objects, keep every reader from a missing object:
\* download_bytes of a row's file_key finds it, whatever died or was deleted meanwhile.
THEOREM ReadersCorrect == Spec => []ReadersFindTheirObject
<1>1. IndInv => ReadersFindTheirObject
  BY DEF IndInv, Objects
<1> QED
  BY <1>1, IndInvHolds, PTL

---------------------------------------------------------------------------
\* The steps that write rows, and what each does to the finished ones.
LEMMA UnwrittenKeeps ==
    ASSUME rows' = rows PROVE KeepsRuns
  BY DEF KeepsRuns, Finished, Exists

LEMMA DeletionKeeps ==
    ASSUME NEW ids, rows' = Without(ids) PROVE KeepsRuns
  BY DEF KeepsRuns, Finished, Exists, Without

LEMMA DatasetCommitKeeps ==
    ASSUME IndInv, NEW j \in Jobs, job[j].op \in DatasetOps, CommitDataset(j)
    PROVE  KeepsRuns
<1>1. Unborn(j)
  BY DEF CommitDataset, ReadyToCommit, StoresObject, Unborn, Makes, DatasetOps
<1>2. job[j].id \notin DOMAIN rows
  BY <1>1 DEF IndInv, Owned
<1>3. /\ DOMAIN rows' = DOMAIN rows \cup {job[j].id} /\ rows'[job[j].id].op = job[j].op
      /\ \A i \in DOMAIN rows : rows'[i] = rows[i]
  BY <1>2 DEF CommitDataset, Inserted
<1> QED
  BY <1>2, <1>3 DEF KeepsRuns, Finished, Exists

LEMMA BeginKeeps ==
    ASSUME IndInv, NEW j \in Jobs, BeginArtifact(j)
    PROVE  KeepsRuns
<1>1. job[j].id \notin DOMAIN rows
  BY DEF IndInv, Owned, BeginArtifact, Unborn, Makes
<1>2. /\ DOMAIN rows' = DOMAIN rows \cup {job[j].id} /\ rows'[job[j].id].status = "working"
      /\ \A i \in DOMAIN rows : rows'[i] = rows[i]
  BY <1>1 DEF BeginArtifact, Inserted
<1> QED
  BY <1>1, <1>2 DEF KeepsRuns, Finished, Exists

LEMMA FinishKeeps ==
    ASSUME IndInv, NEW j \in Jobs, job[j].op \in ArtifactOps, CommitReady(j) \/ CommitFailed(j)
    PROVE  KeepsRuns
<1>1. Unfinished(j) /\ Exists(job[j].id)
  BY CommitsAnUnfinishedRow DEF CommitReady, CommitFailed, Unfinished
<1>2. rows[job[j].id].status = "working"
  BY <1>1 DEF IndInv, Owned
<1>3. /\ DOMAIN rows' = DOMAIN rows
      /\ \A i \in DOMAIN rows : i # job[j].id => rows'[i] = rows[i]
  BY DEF CommitReady, CommitFailed, IndInv, TypeOK
<1> QED
  BY <1>1, <1>2, <1>3 DEF KeepsRuns, Finished, Exists

\* A finished report, model or forecast is never written again, and a deleted one never
\* comes back finished, however its two commits interleave with the deletions of others.
THEOREM ImmutableCorrect == Spec => RunsAreImmutable
<1>1. IndInv /\ [Next]_vars => KeepsRuns
  <2> SUFFICES ASSUME IndInv, [Next]_vars PROVE KeepsRuns
    OBVIOUS
  <2>1. ASSUME NEW j \in Jobs, CommitUpload(j) \/ CommitClean(j) \/ CommitTable(j)
        PROVE  KeepsRuns
    BY <2>1, DatasetCommitKeeps DEF CommitUpload, CommitClean, CommitTable, DatasetOps
  <2>2. ASSUME NEW j \in Jobs, BeginArtifact(j) PROVE KeepsRuns
    BY <2>2, BeginKeeps
  <2>3. ASSUME NEW j \in Jobs,
               ReportReady(j) \/ ModelReady(j) \/ ForecastReady(j)
                 \/ ReportFailed(j) \/ ModelFailed(j) \/ ForecastFailed(j)
        PROVE  KeepsRuns
    BY <2>3, FinishKeeps
    DEF ReportReady, ModelReady, ForecastReady, ReportFailed, ModelFailed, ForecastFailed, ArtifactOps
  <2>4. ASSUME NEW i \in RowIds, DeleteReport(i) \/ DeleteModel(i) \/ DeleteForecast(i)
        PROVE  KeepsRuns
    BY <2>4, DeletionKeeps DEF DeleteReport, DeleteModel, DeleteForecast, DeleteRow
  <2>5. ASSUME DeleteDashboard PROVE KeepsRuns
    BY <2>5, DeletionKeeps DEF DeleteDashboard
  <2>6. ASSUME NEW j \in Jobs,
               \/ LoadUpload(j) \/ LoadTable(j) \/ LoadReport(j) \/ Refuse(j)
               \/ StoreObject(j) \/ Refresh(j) \/ Compute(j) \/ Answer(j)
               \/ RowIsGone(j) \/ Crash(j) \/ Read(j)
        PROVE  KeepsRuns
    <3>1. rows' = rows
      BY <2>6 DEF LoadUpload, LoadTable, LoadReport, Load, Refuse, StoreObject, Refresh, Compute,
                  Answer, RowIsGone, Crash, Die, Read
    <3> QED
      BY <3>1, UnwrittenKeeps
  <2>7. ASSUME NEW j \in Jobs, NEW i \in RowIds,
               LoadClean(j, i) \/ LoadModel(j, i) \/ LoadForecast(j, i) \/ StartRead(j, i)
        PROVE  KeepsRuns
    BY <2>7, UnwrittenKeeps DEF LoadClean, LoadModel, LoadForecast, Load, StartRead
  <2>8. ASSUME UNCHANGED vars PROVE KeepsRuns
    BY <2>8, UnwrittenKeeps DEF vars
  <2> QED
    BY <2>1, <2>2, <2>3, <2>4, <2>5, <2>6, <2>7, <2>8 DEF Next, Continue
<1>2. IndInv /\ [Next]_vars => [KeepsRuns]_vars
  BY <1>1
<1> QED
  BY <1>2, IndInvHolds, PTL DEF Spec, RunsAreImmutable
---------------------------------------------------------------------------
(* Lineage.  The invariant says of every row with a parent, and of every   *)
(* job that will make one, that the parent is an older version with a file *)
(* and is there to stay; a walk along parents therefore goes down in the   *)
(* ids, and where it stops is an upload.                                   *)

Derived == {"clean", "model", "forecast"}
Filed == {"upload", "clean"}

Source(R, p, i) == p \in DOMAIN R /\ p < i /\ R[p].op \in Filed
Origin(R, op, parent, i) == IF op \in Derived THEN Source(R, parent, i) ELSE parent = 0

Traced ==
    /\ \A i \in DOMAIN rows : /\ Origin(rows, rows[i].op, rows[i].parent, i)
                              /\ rows[i].op = "table" => ~rows[i].key
    /\ \A j \in Jobs :
         /\ Makes(j) => Origin(rows, job[j].op, job[j].parent, job[j].id)
         /\ Unfinished(j) /\ Exists(job[j].id) => rows[job[j].id].op = job[j].op

\* Datasets stay, and stay what they are.
DatasetsStay == \A i \in DOMAIN rows : rows[i].op \in DatasetOps =>
                                          i \in DOMAIN rows' /\ rows'[i].op = rows[i].op

LEMMA OriginStays ==
    ASSUME DatasetsStay, NEW op, NEW parent, NEW i, Origin(rows, op, parent, i)
    PROVE  Origin(rows', op, parent, i)
  BY DEF DatasetsStay, Origin, Source, Filed, DatasetOps

LEMMA TracedStart == Init => Traced
  BY DEF Init, NoJob, Traced, Makes, Unfinished, DatasetOps, ArtifactOps

\* A job that begins: its parent is there, has a file and is older.
LEMMA TracedLoad ==
    ASSUME IndInv, Traced, NEW j \in Jobs, NEW op \in DatasetOps \cup ArtifactOps, NEW parent,
           Load(j, op, parent),
           IF op \in Derived THEN parent \in RowIds /\ Workable(parent) ELSE parent = 0
    PROVE  Traced'
<1>1. /\ job'[j] = [pc |-> "loaded", op |-> op, id |-> nextId, parent |-> parent]
      /\ \A k \in Jobs \ {j} : job'[k] = job[k]
      /\ rows' = rows
  BY DEF IndInv, TypeOK, Load
<1>2. DatasetsStay
  BY <1>1 DEF DatasetsStay
<1>3. Origin(rows, op, parent, nextId)
  BY DEF Origin, Source, Workable, IsDataset, Exists, Traced, IndInv, Owned, DatasetOps, Filed
<1>4. Origin(rows', op, parent, nextId)
  BY <1>2, <1>3, OriginStays
<1>5. ~Unfinished(j)'
  BY <1>1 DEF Unfinished
<1>6. \A i \in DOMAIN rows' : Origin(rows', rows'[i].op, rows'[i].parent, i)
  BY <1>1, <1>2, OriginStays DEF Traced
<1>7. ASSUME NEW k \in Jobs, Makes(k)' PROVE Origin(rows', job'[k].op, job'[k].parent, job'[k].id)
  <2>1. CASE k = j
    BY <1>1, <1>4, <2>1
  <2>2. CASE k # j
    BY <1>1, <1>2, <1>7, <2>2, OriginStays DEF Traced, Makes
  <2> QED BY <2>1, <2>2
<1> QED
  BY <1>1, <1>5, <1>6, <1>7 DEF Traced, Unfinished, Exists

\* A job that goes on or ends and leaves the rows as they are.
LEMMA TracedGoes ==
    ASSUME Traced, rows' = rows, NEW j \in Jobs, \A k \in Jobs \ {j} : job'[k] = job[k],
           \/ ~Makes(j)'
           \/ /\ Makes(j) /\ job'[j].op = job[j].op /\ job'[j].parent = job[j].parent
              /\ job'[j].id = job[j].id
              /\ Unfinished(j)' => Unfinished(j)
    PROVE  Traced'
<1>1. DatasetsStay
  BY DEF DatasetsStay
<1>2. \A i \in DOMAIN rows' : Origin(rows', rows'[i].op, rows'[i].parent, i)
  BY <1>1, OriginStays DEF Traced
<1>3. ASSUME NEW k \in Jobs, Makes(k)' PROVE Origin(rows', job'[k].op, job'[k].parent, job'[k].id)
  BY <1>1, <1>3, OriginStays DEF Traced, Makes
<1>4. Unfinished(j)' => Makes(j)'
  BY DEF Unfinished, Makes
<1> QED
  BY <1>2, <1>3, <1>4 DEF Traced, Unfinished, Exists

\* A job that gives a row to its id.
LEMMA TracedInsert ==
    ASSUME IndInv, Traced, NEW j \in Jobs, NEW row, NEW pc,
           Unborn(j), rows' = Inserted(job[j].id, row), Step(j, pc),
           row.op = job[j].op, row.parent = job[j].parent, row.op = "table" => ~row.key
    PROVE  Traced'
<1>1. /\ job'[j] = [job[j] EXCEPT !.pc = pc] /\ job[j] \in Job
      /\ \A k \in Jobs \ {j} : job'[k] = job[k]
  BY DEF IndInv, TypeOK, Step
<1>2. /\ Makes(j) /\ job[j].id \notin DOMAIN rows
      /\ job'[j].op = job[j].op /\ job'[j].parent = job[j].parent /\ job'[j].id = job[j].id
  BY <1>1 DEF IndInv, Owned, Unborn, Makes, Job
<1>3. /\ DOMAIN rows' = DOMAIN rows \cup {job[j].id} /\ rows'[job[j].id] = row
      /\ \A i \in DOMAIN rows : rows'[i] = rows[i]
  BY <1>2 DEF Inserted
<1>4. DatasetsStay
  BY <1>3 DEF DatasetsStay
<1>5. ASSUME NEW k \in Jobs, Makes(k)' PROVE Origin(rows', job'[k].op, job'[k].parent, job'[k].id)
  BY <1>1, <1>2, <1>4, <1>5, OriginStays DEF Traced, Makes
<1>6. Origin(rows', row.op, row.parent, job[j].id)
  BY <1>2, <1>4, OriginStays DEF Traced
<1>7. ASSUME NEW i \in DOMAIN rows' PROVE Origin(rows', rows'[i].op, rows'[i].parent, i)
  <2>1. CASE i = job[j].id
    BY <1>3, <1>6, <2>1
  <2>2. CASE i # job[j].id
    BY <1>3, <1>4, <2>2, OriginStays DEF Traced
  <2> QED BY <2>1, <2>2
<1>8. ASSUME NEW k \in Jobs, Unfinished(k)', Exists(job[k].id)'
      PROVE  rows'[job'[k].id].op = job'[k].op
  <2>1. CASE k = j
    BY <1>2, <1>3, <2>1
  <2>2. CASE k # j
    <3>1. Makes(k) /\ Unfinished(k) /\ job'[k] = job[k]
      BY <1>1, <1>8, <2>2 DEF Unfinished, Makes
    <3>2. job[k].id # job[j].id
      BY <1>2, <2>2, <3>1 DEF IndInv, Owned
    <3> QED BY <1>3, <1>8, <3>1, <3>2 DEF Traced, Exists
  <2> QED BY <2>1, <2>2
<1> QED
  BY <1>3, <1>5, <1>7, <1>8 DEF Traced

\* A job that finishes its row.
LEMMA TracedFinish ==
    ASSUME IndInv, Traced, NEW j \in Jobs, job[j].op \in ArtifactOps,
           CommitReady(j) \/ CommitFailed(j)
    PROVE  Traced'
<1> DEFINE id == job[j].id
<1>1. Unfinished(j) /\ id \in DOMAIN rows /\ Makes(j)
  BY CommitsAnUnfinishedRow DEF CommitReady, CommitFailed, Unfinished, Exists, Makes
<1>2. rows[id].op = job[j].op /\ rows[id].op \notin DatasetOps /\ rows[id] \in Row
  BY <1>1 DEF Traced, Exists, ArtifactOps, DatasetOps, IndInv, TypeOK
<1>3. /\ DOMAIN rows' = DOMAIN rows
      /\ rows'[id].op = rows[id].op /\ rows'[id].parent = rows[id].parent
      /\ \A i \in DOMAIN rows : i # id => rows'[i] = rows[i]
  BY <1>1, <1>2 DEF CommitReady, CommitFailed, IndInv, TypeOK, Row
<1>4. /\ job'[j] = NoJob \/ job'[j] = [job[j] EXCEPT !.pc = "answering"]
      /\ job[j] \in Job /\ \A k \in Jobs \ {j} : job'[k] = job[k]
  BY DEF CommitReady, CommitFailed, IndInv, TypeOK, End, Step
<1>5. DatasetsStay
  BY <1>2, <1>3 DEF DatasetsStay
<1>6. ASSUME NEW i \in DOMAIN rows'
      PROVE  /\ Origin(rows', rows'[i].op, rows'[i].parent, i)
             /\ rows'[i].op = "table" => ~rows'[i].key
  BY <1>2, <1>3, <1>5, OriginStays DEF Traced, DatasetOps
<1>7. ~Unfinished(j)'
  BY <1>4 DEF Unfinished, NoJob, Job, ArtifactOps
<1>8. ASSUME NEW k \in Jobs, Makes(k)' PROVE Origin(rows', job'[k].op, job'[k].parent, job'[k].id)
  <2>1. Makes(k) /\ job'[k].op = job[k].op /\ job'[k].parent = job[k].parent /\ job'[k].id = job[k].id
    BY <1>4, <1>8 DEF Makes, NoJob, Job, DatasetOps, ArtifactOps
  <2> QED BY <1>5, <2>1, OriginStays DEF Traced
<1>9. ASSUME NEW k \in Jobs, Unfinished(k)', Exists(job[k].id)'
      PROVE  rows'[job'[k].id].op = job'[k].op
  <2>1. k # j /\ job'[k] = job[k] /\ Unfinished(k)
    BY <1>4, <1>7, <1>9 DEF Unfinished
  <2> QED BY <1>3, <1>9, <2>1 DEF Traced, Exists
<1> QED
  BY <1>6, <1>8, <1>9 DEF Traced

\* Rows go that are no datasets.
LEMMA TracedDelete ==
    ASSUME Traced, NEW ids, rows' = Without(ids), job' = job,
           \A i \in ids : i \in DOMAIN rows => rows[i].op \notin DatasetOps
    PROVE  Traced'
<1>1. DOMAIN rows' = DOMAIN rows \ ids /\ \A i \in DOMAIN rows' : rows'[i] = rows[i]
  BY DEF Without
<1>2. DatasetsStay
  BY <1>1 DEF DatasetsStay
<1>3. \A i \in DOMAIN rows' : Origin(rows', rows'[i].op, rows'[i].parent, i)
  BY <1>1, <1>2, OriginStays DEF Traced
<1>4. ASSUME NEW k \in Jobs, Makes(k)' PROVE Origin(rows', job'[k].op, job'[k].parent, job'[k].id)
  BY <1>2, <1>4, OriginStays DEF Traced, Makes
<1> QED
  BY <1>1, <1>3, <1>4 DEF Traced, Unfinished, Exists

LEMMA TracedStep == IndInv /\ Traced /\ [Next]_vars => Traced'
<1> SUFFICES ASSUME IndInv, Traced, [Next]_vars PROVE Traced'
  OBVIOUS
<1>1. ASSUME NEW j \in Jobs, LoadUpload(j) \/ LoadTable(j) \/ LoadReport(j) PROVE Traced'
  BY <1>1, TracedLoad DEF LoadUpload, LoadTable, LoadReport, DatasetOps, ArtifactOps, Derived
<1>2. ASSUME NEW j \in Jobs, NEW i \in RowIds, LoadClean(j, i) \/ LoadModel(j, i) \/ LoadForecast(j, i)
      PROVE  Traced'
  BY <1>2, TracedLoad DEF LoadClean, LoadModel, LoadForecast, DatasetOps, ArtifactOps, Derived
<1>3. ASSUME NEW j \in Jobs, NEW i \in RowIds, StartRead(j, i) PROVE Traced'
  <2>1. /\ rows' = rows /\ \A k \in Jobs \ {j} : job'[k] = job[k]
        /\ job'[j] = [NoJob EXCEPT !.pc = "reading", !.op = "read", !.id = i]
    BY <1>3 DEF StartRead, IndInv, TypeOK
  <2>2. ~Makes(j)'
    BY <2>1 DEF Makes, NoJob, DatasetOps, ArtifactOps
  <2> QED BY <2>1, <2>2, TracedGoes
<1>4. ASSUME NEW j \in Jobs, End(j), rows' = rows PROVE Traced'
  <2>1. job'[j] = NoJob /\ \A k \in Jobs \ {j} : job'[k] = job[k]
    BY <1>4 DEF End, IndInv, TypeOK
  <2>2. ~Makes(j)'
    BY <2>1 DEF Makes, NoJob, DatasetOps, ArtifactOps
  <2> QED BY <1>4, <2>1, <2>2, TracedGoes
<1>5. ASSUME NEW j \in Jobs, StoreObject(j) \/ Refresh(j) \/ Compute(j) PROVE Traced'
  <2>1. PICK pc : Step(j, pc) /\ rows' = rows /\ (pc = "stored" \/ Unfinished(j))
    BY <1>5 DEF StoreObject, Refresh, Compute, Unfinished, IndInv, Placed, DatasetOps, ArtifactOps,
                TypeOK, Job
  <2>2. /\ job[j] \in Job /\ job'[j] = [job[j] EXCEPT !.pc = pc]
        /\ \A k \in Jobs \ {j} : job'[k] = job[k]
    BY <2>1 DEF Step, IndInv, TypeOK
  <2>3. job'[j].op = job[j].op /\ job'[j].parent = job[j].parent /\ job'[j].id = job[j].id
    BY <2>2 DEF Job
  <2>4. Makes(j)' => Makes(j)
    BY <2>3 DEF Makes
  <2>5. Unfinished(j)' => Unfinished(j)
    BY <1>5, <2>1, <2>3 DEF StoreObject, Refresh, Compute, Unfinished, DatasetOps, ArtifactOps
  <2> QED BY <2>1, <2>2, <2>3, <2>4, <2>5, TracedGoes
<1>6. ASSUME NEW j \in Jobs, CommitUpload(j) \/ CommitClean(j) \/ CommitTable(j) PROVE Traced'
  <2>1. CommitDataset(j) /\ job[j].op \in DatasetOps
    BY <1>6 DEF CommitUpload, CommitClean, CommitTable, DatasetOps
  <2>2. Unborn(j)
    BY <2>1 DEF CommitDataset, ReadyToCommit, StoresObject, Unborn, Makes, DatasetOps
  <2> DEFINE row == [op |-> job[j].op, status |-> "ready", key |-> StoresObject(job[j].op),
                     parent |-> job[j].parent]
  <2>3. /\ row.op = job[j].op /\ row.parent = job[j].parent /\ (row.op = "table" => ~row.key)
        /\ rows' = Inserted(job[j].id, row) /\ Step(j, "answering")
    BY <2>1 DEF CommitDataset, StoresObject
  <2> HIDE DEF row
  <2> QED BY <2>2, <2>3, TracedInsert
<1>7. ASSUME NEW j \in Jobs, BeginArtifact(j) PROVE Traced'
  <2>1. Unborn(j)
    BY <1>7 DEF BeginArtifact, Unborn, Makes
  <2> DEFINE row == [op |-> job[j].op, status |-> "working", key |-> FALSE, parent |-> job[j].parent]
  <2>2. /\ row.op = job[j].op /\ row.parent = job[j].parent /\ (row.op = "table" => ~row.key)
        /\ rows' = Inserted(job[j].id, row) /\ Step(j, "begun")
    BY <1>7 DEF BeginArtifact
  <2> HIDE DEF row
  <2> QED BY <2>1, <2>2, TracedInsert
<1>8. ASSUME NEW j \in Jobs,
             ReportReady(j) \/ ModelReady(j) \/ ForecastReady(j)
               \/ ReportFailed(j) \/ ModelFailed(j) \/ ForecastFailed(j)
      PROVE  Traced'
  BY <1>8, TracedFinish
  DEF ReportReady, ModelReady, ForecastReady, ReportFailed, ModelFailed, ForecastFailed, ArtifactOps
<1>9. ASSUME NEW i \in RowIds, DeleteReport(i) \/ DeleteModel(i) \/ DeleteForecast(i) PROVE Traced'
  BY <1>9, TracedDelete DEF DeleteReport, DeleteModel, DeleteForecast, DeleteRow, DatasetOps
<1>10. ASSUME DeleteDashboard PROVE Traced'
  <2> DEFINE ids == {i \in DOMAIN rows : rows[i].op = "report"}
  <2>1. rows' = Without(ids) /\ job' = job /\ \A i \in ids : rows[i].op \notin DatasetOps
    BY <1>10 DEF DeleteDashboard, DatasetOps
  <2> HIDE DEF ids
  <2> QED BY <2>1, TracedDelete
<1>11. CASE UNCHANGED vars
  <2>1. rows' = rows /\ job' = job
    BY <1>11 DEF vars
  <2> QED BY <2>1 DEF Traced, Origin, Source, Makes, Unfinished, Exists
<1>12. ASSUME NEW j \in Jobs, Refuse(j) \/ RowIsGone(j) \/ Crash(j) \/ Answer(j) \/ Read(j) PROVE Traced'
  <2>1. End(j) /\ rows' = rows
    BY <1>12 DEF Refuse, RowIsGone, Crash, Die, Answer, Read
  <2> QED BY <2>1, <1>4
<1> QED
  BY <1>1, <1>2, <1>3, <1>5, <1>6, <1>7, <1>8, <1>9, <1>10, <1>11, <1>12 DEF Next, Continue

\* Every set of numbers has a least one.
LEMMA LeastOf ==
    ASSUME NEW S \in SUBSET Nat, S # {}
    PROVE  \E m \in S : \A k \in S : m <= k
<1>1. PICK m \in S : \A k \in S : ~(<<k, m>> \in OpToRel(<, Nat))
  BY WFMin, NatLessThanWellFounded, Zenon
<1>2. \A k \in S : ~(k < m)
  BY <1>1, Zenon DEF OpToRel
<1> QED
  BY <1>2

\* What a walk from i visits: i, and with a row its parent.
LEMMA WalkOf ==
    ASSUME IndInv, Traced, NEW i \in DOMAIN rows
    PROVE  /\ i \in Ancestors(i) /\ Ancestors(i) \subseteq DOMAIN rows
           /\ WalksOn(Ancestors(i))
           /\ \A S \in SUBSET DOMAIN rows : i \in S /\ WalksOn(S) => Ancestors(i) \subseteq S
<1>1. i \in Ancestors(i) /\ Ancestors(i) \subseteq DOMAIN rows
  BY DEF Ancestors
<1>2. ASSUME NEW k \in Ancestors(i), rows[k].parent # 0 PROVE rows[k].parent \in Ancestors(i)
  <2>1. rows[k].parent \in DOMAIN rows
    BY <1>1, <1>2 DEF Traced, Origin, Source
  <2> QED BY <1>2, <2>1 DEF Ancestors, WalksOn
<1> QED
  BY <1>1, <1>2 DEF WalksOn, Ancestors

\* Chains of cleanings, and what is computed from their ends, lead back to a file that was
\* uploaded, and never round in a circle, for any number of rows and jobs (get_lineage of
\* app/api/cleaning.py; _load_version_dataframe and _get_dataset_and_version refuse the rest).
THEOREM LineageCorrect == Spec => []LineageEndsAtUpload
<1>1. Spec => []Traced
  BY IndInvHolds, TracedStart, TracedStep, PTL DEF Spec
<1>2. ASSUME IndInv, Traced, NEW i \in DOMAIN rows, rows[i].parent # 0
      PROVE  /\ rows[i].parent \in DOMAIN rows
             /\ i \notin Ancestors(rows[i].parent)
             /\ \E k \in Ancestors(i) : rows[k].op = "upload"
  <2> DEFINE p == rows[i].parent
  <2>0. DOMAIN rows \subseteq Nat
    BY <1>2 DEF IndInv, TypeOK, RowIds
  <2>9. 0 \notin DOMAIN rows
    BY <1>2 DEF IndInv, TypeOK, RowIds
  <2>1. p \in DOMAIN rows /\ p < i /\ rows[i].op \in Derived
    BY <1>2 DEF Traced, Origin, Source
  <2>2. i \notin Ancestors(p)
    <3> DEFINE S == {k \in DOMAIN rows : k <= p}
    <3>1. WalksOn(S)
      <4>1. ASSUME NEW k \in S, rows[k].parent # 0 PROVE rows[k].parent \in S
        <5>1. rows[k].parent \in DOMAIN rows /\ rows[k].parent < k
          BY <1>2, <4>1 DEF Traced, Origin, Source
        <5> QED BY <2>0, <2>1, <5>1
      <4> QED BY <4>1 DEF WalksOn
    <3>2. S \in SUBSET DOMAIN rows /\ p \in S /\ i \notin S
      BY <2>0, <2>1
    <3> HIDE DEF S, p
    <3> QED BY <1>2, <2>1, <3>1, <3>2, WalkOf
  <2>3. \A k \in Ancestors(i) : k = i \/ rows[k].op \in Filed
    <3> DEFINE S == {i} \cup {k \in DOMAIN rows : rows[k].op \in Filed}
    <3>1. WalksOn(S)
      BY <1>2, <2>1 DEF WalksOn, Traced, Origin, Source
    <3>2. S \in SUBSET DOMAIN rows /\ i \in S
      OBVIOUS
    <3>3. \A k \in S : k = i \/ rows[k].op \in Filed
      OBVIOUS
    <3> HIDE DEF S
    <3> QED BY <1>2, <3>1, <3>2, <3>3, WalkOf
  <2>4. /\ i \in Ancestors(i) /\ Ancestors(i) \subseteq DOMAIN rows /\ WalksOn(Ancestors(i))
    BY <1>2, WalkOf
  <2>5. PICK m \in Ancestors(i) : \A k \in Ancestors(i) : m <= k
    BY <2>0, <2>4, LeastOf
  <2>6. rows[m].parent = 0
    <3> SUFFICES ASSUME rows[m].parent # 0 PROVE FALSE
      OBVIOUS
    <3>1. rows[m].parent \in Ancestors(i) /\ rows[m].parent < m /\ m \in Nat /\ rows[m].parent \in Nat
      BY <1>2, <2>0, <2>4 DEF WalksOn, Traced, Origin, Source
    <3> QED BY <2>5, <3>1
  <2>7. rows[m].op = "upload"
    <3>1. rows[m].op \in Filed
      BY <1>2, <2>3, <2>6
    <3>2. rows[m].op # "clean"
      <4> SUFFICES ASSUME rows[m].op = "clean" PROVE FALSE
        OBVIOUS
      <4>1. Source(rows, 0, m)
        BY <1>2, <2>4, <2>6 DEF Traced, Origin, Derived
      <4> QED BY <2>9, <4>1 DEF Source
    <3> QED BY <3>1, <3>2 DEF Filed
  <2> QED BY <2>1, <2>2, <2>7
<1>3. IndInv /\ Traced => LineageEndsAtUpload
  BY <1>2 DEF LineageEndsAtUpload
<1> QED
  BY <1>1, <1>3, IndInvHolds, PTL
=============================================================================
