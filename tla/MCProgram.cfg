SPECIFICATION ProgramSpec
CONSTANTS
    Keys <- ProgramKeys
    NoKey <- MCNoKey
    Partials = {1, 2, 3, 4, 5}
    NoPartial = 0
    BucketCount = 2
    SlotPerBucket = 2
    GarbageKeys <- NoGarbageKeys
    GarbagePartials <- ZeroMemory
    MAX_BFS_PATH_LEN = 2
    PathcodeMax = 65535
    Seeds = {0, 1, 2, 3, 4}
    PartialKey <- MCPartialKey
    HashIndex <- MCHashIndex
    AltIndex <- MCAltIndex
    MaxRounds = 4
    RVectors <- ProgramR
    SVectors <- ProgramS
    TagModulus = 8
    CountModulus = 4
    NDEBUG = FALSE
CHECK_DEADLOCK FALSE
INVARIANTS
    ProgramTypeOK AssertionsHold LaggardsQuiet RoundsInSync StatisticsTrue FilterSeparates FilterAgrees
PROPERTIES
    ProgramEnds
