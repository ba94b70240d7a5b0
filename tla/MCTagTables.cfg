SPECIFICATION TablesSpec
CONSTANTS
    NumBuckets = 2
    Tags <- MCTags
    Calls <- MCCalls
    SingleBits = 12
    PackedBits = 13
    Nibbles = 2
INVARIANTS
    TablesTypeOK FindsExactly
PROPERTIES
    ImplementsTagTable
