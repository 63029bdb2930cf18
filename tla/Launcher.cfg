SPECIFICATION FairSpec

CONSTANTS
    MaxChild = 2
    MaxLaunch = 2
    MaxLine = 1
    MaxKill = 1
    OnWindows = TRUE

INVARIANTS ApprovalForThisWindow NothingLeftBehind PairedAgreesWithStore
PROPERTIES OrphanStops StopFinishes
CHECK_DEADLOCK FALSE
