SPECIFICATION FairSpec
CONSTANTS
    j1 = j1
    l1 = l1  l2 = l2
    Jobs = {j1}
    Launches = {l1, l2}
    JobOf <- Relaunched
    None = None  Torn = Torn
    MaxCrashes = 1
INVARIANTS
    TypeOK
    Tracked
    FileCovers
    EndedIsForgotten
    ReportedEndIsReal
PROPERTIES
    EndIsReported
    StopEndsShell
CHECK_DEADLOCK FALSE
