SPECIFICATION ProgramSpec
CONSTANTS
    Keys <- ProgramKeys
    NoKey <- MCNoKey
    Partials = {1, 2, 3, 4, 5}
    NoPartial = 9
    BucketCount = 2
    SlotPerBucket = 2
    GarbageKeys <- NoGarbageKeys
    GarbagePartials <- StaleMemory
    MAX_BFS_PATH_LEN = 2
    PathcodeMax = 65535
    Seeds = {0, 1, 2, 3, 4}
    PartialKey <- MCPartialKey
    HashIndex <- MCHashIndex
    AltIndex <- MCAltIndex
    MaxRounds = 4
    RVectors <- ShortR
    SVectors <- ShortS
    TagModulus = 8
    CountModulus = 4
    NDEBUG = FALSE
CHECK_DEADLOCK FALSE
INVARIANTS
    FilterSeparates
