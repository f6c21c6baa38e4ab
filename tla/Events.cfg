SPECIFICATION FairSpec
CONSTANTS
    ChanCap = 2
    BatchSize = 2
    MaxEvents = 6
    MaxCrashes = 1
INVARIANTS
    TypeOK
    InOrderOnce
PROPERTIES
    LostByBatch
    JournalSpec
    Drained
CHECK_DEADLOCK FALSE
