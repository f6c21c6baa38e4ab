SPECIFICATION FairSpec
CONSTANTS
    j1 = j1
    l1 = l1  l2 = l2
    Jobs = {j1}
    Launches = {l1}
    JobOf <- Relaunched
    None = None  Torn = Torn
    MaxCrashes = 1
PROPERTIES
    RecoveredEndIsSeen
CHECK_DEADLOCK FALSE
