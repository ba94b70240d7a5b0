SPECIFICATION FairSpec
CONSTANTS
    Keys <- WideKeys
    NoKey <- MCNoKey
    Partials = {1, 2, 3}
    NoPartial = 0
    BucketCount = 4
    SlotPerBucket = 3
    GarbageKeys <- OnlyNoKey
    GarbagePartials <- NoPartialOnly
    MAX_BFS_PATH_LEN = 2
    PathcodeMax = 15
    Seeds = {0}
    PartialKey <- MCPartialKey
    HashIndex <- MCHashIndex
    AltIndex <- MCAltIndex
PROPERTIES
    InsertTerminates
