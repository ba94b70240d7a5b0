SPECIFICATION FairSpec
CONSTANTS
    Keys <- RingKeys
    NoKey <- MCNoKey
    Partials = {1, 2, 3}
    NoPartial = 0
    BucketCount = 4
    SlotPerBucket = 2
    GarbageKeys <- OnlyNoKey
    GarbagePartials <- NoPartialOnly
    MAX_BFS_PATH_LEN = 3
    PathcodeMax = 65535
    Seeds = {0}
    PartialKey <- MCPartialKey
    HashIndex <- MCHashIndex
    AltIndex <- MCAltIndex
INVARIANTS
    TypeOK KeyHome NoDuplicates NumItemsExact PartialsMatch FreedSlotUsable FindExact QueueFits PathNeverStale PathcodeNamesRoot FullMeansNoPath
PROPERTIES
    InsertBounded InsertTerminates ImplementsKeySet
