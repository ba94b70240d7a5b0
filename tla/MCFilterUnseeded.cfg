SPECIFICATION ClientSpec
CONSTANTS
    Items <- MCItems
    Tags = {1, 2, 3}
    NumBuckets = 2
    TagsPerBucket = 2
    KMaxCuckooCount = 3
    FilterSeeds = {0, 1}
    SeedVectors <- FirstConstructor
    FilterHash <- MCFilterHash
    FilterIndex <- MCFilterIndex
    AltIndexOfItem <- MCAltIndexOfItem
    AltIndexOfTag <- MCAltIndexOfTag
    MaxCopies = 2
INVARIANTS
    AddNeverThrows
