SPECIFICATION ClientSpec
CONSTANTS
    Keys <- MCKeys
    NoKey <- MCNoKey
    Partials = {1, 2}
    NoPartial = 0
    BucketCount = 2
    SlotPerBucket = 2
    GarbageKeys <- OnlyNoKey
    GarbagePartials <- ZeroMemory
    MAX_BFS_PATH_LEN = 2
    PathcodeMax = 65535
    Seeds = {0, 1, 2, 3}
    PartialKey <- MCPartialKey
    HashIndex <- MCHashIndex
    AltIndex <- MCAltIndex
    MaxRounds = 3
PROPERTIES
    RehashSyncs
