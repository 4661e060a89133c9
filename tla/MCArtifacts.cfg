CONSTANTS
    j1 = j1
    j2 = j2
    Jobs = {j1, j2}
    MaxRows = 3
SPECIFICATION FairSpec
INVARIANTS TypeOK ReadersFindTheirObject LineageEndsAtUpload UnfinishedIsWorkedOn
PROPERTIES RunsAreImmutable FinishedUnlessItsJobDies
CHECK_DEADLOCK FALSE
