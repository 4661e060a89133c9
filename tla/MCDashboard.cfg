CONSTANTS
    r1 = r1
    r2 = r2
    x = x
    y = y
    d1 = d1
    Requests = {r1, r2}
    Names = {x, y}
    DatasetIds = {d1}
    None = None
    Generated <- MCGenerated
    MaxWidgets = 4
    MaxVersions = 3
SYMMETRY Symmetry
SPECIFICATION Spec
INVARIANTS TypeOK NothingLeftBehind DiffIsFaithful
PROPERTIES HistoryAppendOnly EveryEditRecorded SnapshotListsLiveWidgets SnapshotShowsDashboard RestoreBringsBack
CHECK_DEADLOCK FALSE
