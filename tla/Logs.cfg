SPECIFICATION FairSpec
CONSTANTS
    Limit = 4
    MaxWrite = 3
    MaxOutput = 7
    BufSize = 2
    Note = Note
INVARIANTS
    TypeOK
    LogIsCut
    StreamIsPrefix
    EndIsWhole
PROPERTIES
    FollowerGetsAll
    StreamSpec
CHECK_DEADLOCK FALSE
