SPECIFICATION ContainersSpec
CONSTANTS
    LogSizeBits = 3
    slot_per_bucket = 4
    bits_per_key = 3
    Murmur = 149
    WordBits = 4
    PositionBits = 2
    Rehash <- MCRehash
    LOG_BUCKET_BYTE_SIZE = 1
    Sizes <- MCSizes
    SeedCounts <- MCSeedCounts
    BlockSizes <- MCBlockSizes
    HashValues <- MCHashValues
CHECK_DEADLOCK FALSE
INVARIANTS
    ContainersTypeOK RoomForAll HashesAgree BlockFindsCovered
