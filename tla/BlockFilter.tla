----------------------------- MODULE BlockFilter ----------------------------
(***************************************************************************)
(* SimdBlockFilter (simd-block.h), the Bloom filter the benchmark compares *)
(* with: an item sets one bit in each lane of one bucket.  A lane is the   *)
(* set of the positions of its ones.  hasher_ is left to the client: what  *)
(* is added and looked for are its values.                                 *)
(***************************************************************************)
EXTENDS Words, Sequences

CONSTANTS
    WordBits,             \* 32: a lane, and the hash MakeMask is given
    PositionBits,         \* 5: the most significant bits of a product
    Rehash,               \* the odd constants, one to a lane; eight of them
    LOG_BUCKET_BYTE_SIZE  \* 5

Lanes     == DOMAIN Rehash
Positions == 0 .. WordBits - 1

\* static_assert on the size of a bucket, and the constants of MakeMask.
ASSUME BlockAssumption ==
    /\ PositionBits \in Nat
    /\ LOG_BUCKET_BYTE_SIZE \in Nat
    /\ Rehash \in Seq(Nat)
    /\ 8 * pow2[LOG_BUCKET_BYTE_SIZE] = WordBits * Len(Rehash)
    /\ WordBits = pow2[PositionBits]
    /\ \A l \in Lanes : Rehash[l] % 2 = 1 /\ Rehash[l] < pow2[WordBits]

VARIABLES log_num_buckets, directory

blockVars == <<log_num_buckets, directory>>

\* A conversion to uint32_t.
Word(x) == x % pow2[WordBits]

\* The constructor: two buckets at least, all zero.
Construct(log_heap_space) ==
    /\ log_num_buckets' = IF log_heap_space - LOG_BUCKET_BYTE_SIZE > 1
                          THEN log_heap_space - LOG_BUCKET_BYTE_SIZE ELSE 1
    /\ directory' = [b \in 0 .. pow2[log_num_buckets'] - 1 |-> [l \in Lanes |-> {}]]

SizeInBytes == pow2[log_num_buckets + LOG_BUCKET_BYTE_SIZE]

\* hash & directory_mask_: the mask has 32 bits, so no bucket beyond them is used.
bucket_idx(hash) ==
    IF log_num_buckets < WordBits THEN hash % pow2[log_num_buckets] ELSE Word(hash)

\* The hash that MakeMask is given.
MaskHash(hash) == Word(hash \div pow2[log_num_buckets])

\* Faulty: one bit too many is kept.
MakeMask_SixBits(hash) ==
    [l \in Lanes |-> Word(Rehash[l] * hash) \div pow2[WordBits - PositionBits - 1]]

\* Position of the one of each lane.
MakeMask(hash) ==
    [l \in Lanes |-> Word(Rehash[l] * hash) \div pow2[WordBits - PositionBits]]

\* Faulty: the bucket is overwritten by the mask.
Add_Store(hash) ==
    /\ directory' = [directory EXCEPT ![bucket_idx(hash)] =
                        [l \in Lanes |-> {MakeMask(MaskHash(hash))[l]}]]
    /\ UNCHANGED log_num_buckets

Add(hash) ==
    /\ directory' = [directory EXCEPT ![bucket_idx(hash)] =
                        [l \in Lanes |-> @[l] \union {MakeMask(MaskHash(hash))[l]}]]
    /\ UNCHANGED log_num_buckets

Find(hash) ==
    \A l \in Lanes : MakeMask(MaskHash(hash))[l] \in directory[bucket_idx(hash)][l]

==============================================================================
