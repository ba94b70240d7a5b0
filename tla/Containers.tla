----------------------------- MODULE Containers -----------------------------
(***************************************************************************)
(* The containers of the repository as their constructors make them, for   *)
(* n keys:                                                                 *)
(*   "table"    a cuckoo_hashtable with n elements to reserve space for    *)
(*   "program"  main's table for size n, and the filter with its seeds     *)
(*   "filter"   a CuckooFilter for max_num_keys = n                        *)
(*   "seeded"   a CuckooFilter with a vector of n seeds                    *)
(*   "block"    the benchmark's SimdBlockFilter for add_count = n          *)
(* The operations of tables and filters are in modules of their own; the   *)
(* block filter's are here.                                                *)
(***************************************************************************)
EXTENDS Sizing, Hashing, BlockFilter, FiniteSetsExt

CONSTANTS
    Sizes,      \* the n
    SeedCounts, \* the n of "seeded"
    BlockSizes, \* the n for which keys are added to a block filter
    HashValues  \* what hasher_ returns for the keys added or looked for

\* Numbers of elements and of seeds are values of a size_t.
ASSUME ContainersAssumption ==
    /\ Sizes \subseteq 0 .. SizeT(-1)
    /\ SeedCounts \subseteq 1 .. SizeT(-1)
    /\ BlockSizes \subseteq 1 .. SizeT(-1)
    /\ HashValues \subseteq Nat

VARIABLES
    kind, n,
    at,           \* "new", "ready", or "aborted": an assertion failed
    num_buckets,  \* bucket_count() of a table, NumBuckets() of a filter
    added         \* history: the hash values added to a block filter

containerVars == <<kind, n, at, num_buckets, added, blockVars>>

Kinds == {"table", "program", "filter", "seeded", "block"}

ContainersTypeOK ==
    /\ kind \in Kinds
    /\ n \in Sizes \union SeedCounts \union BlockSizes
    /\ at \in {"new", "ready", "aborted"}
    /\ num_buckets \in 0 .. SizeT(-1)
    /\ at = "ready" /\ kind # "block" => num_buckets > 0
    /\ added \subseteq HashValues
    /\ directory \in [0 .. pow2[log_num_buckets] - 1 -> [Lanes -> SUBSET Positions]]

\* main's size is an int, half a size_t; a filter without seeds throws at its
\* first call (AddThrows in CuckooFilter).
ContainersInit ==
    /\ \/ kind \in {"table", "filter"} /\ n \in Sizes
       \/ kind = "program" /\ n \in {size \in Sizes : 2 * size <= SizeT(-1)}
       \/ kind = "seeded" /\ n \in SeedCounts
       \/ kind = "block" /\ n \in BlockSizes
    /\ at = "new"
    /\ num_buckets = 0
    /\ log_num_buckets = 0
    /\ directory = [b \in {0} |-> [l \in Lanes |-> {}]]
    /\ added = {}

Reserved == IF kind = "program" THEN init_size(n) ELSE n

\* seeds_(bucket_count()): the program's filter gets as many buckets.
ConstructTable ==
    /\ at = "new"
    /\ kind \in {"table", "program"}
    /\ IF ReserveAsserts(Reserved)
       THEN at' = "ready" /\ num_buckets' = hashsize(reserve_calc(Reserved))
       ELSE at' = "aborted" /\ UNCHANGED num_buckets
    /\ UNCHANGED <<kind, n, added, blockVars>>

ConstructFilter ==
    /\ at = "new"
    /\ kind \in {"filter", "seeded"}
    /\ at' = "ready"
    /\ num_buckets' = IF kind = "filter" THEN FilterBuckets(n) ELSE n
    /\ UNCHANGED <<kind, n, added, blockVars>>

\* ConstructFromAddCount: the heap, in bytes, for a byte to a key.
ConstructBlock ==
    /\ at = "new"
    /\ kind = "block"
    /\ Construct(CeilLog2(n))
    /\ at' = "ready"
    /\ UNCHANGED <<kind, n, num_buckets, added>>

BlockAdd ==
    /\ at = "ready"
    /\ kind = "block"
    /\ \E hash \in HashValues : Add(hash) /\ added' = added \union {hash}
    /\ UNCHANGED <<kind, n, at, num_buckets>>

ContainersNext ==
    ConstructTable \/ ConstructFilter \/ ConstructBlock \/ BlockAdd

ContainersSpec == ContainersInit /\ [][ContainersNext]_containerVars

------------------------------------------------------------------------------
(* Properties.                                                              *)

capacity == num_buckets * slot_per_bucket

\* Every container has room for the keys it was made for: a table for n has the
\* smallest capacity that holds n, unless n is so large that rounding it up
\* wraps, which the assertion finds; main's table exceeds its load of 95% by
\* less than one key; a filter for n is loaded to 96% at most, although n / 4 is
\* rounded down and the size is doubled only once; a block filter spends eight
\* bits a key, and no more than the heap it was allowed if that is two buckets.
RoomForAll ==
    /\ at = "aborted" => n > SizeT(-slot_per_bucket)
    /\ at = "ready" =>
          /\ kind = "table" => /\ n <= capacity
                               /\ num_buckets = 1 \/ capacity < 2 * n
          /\ kind = "program" => n <= capacity /\ 20 * n < 19 * (capacity + 1)
          /\ kind = "filter" => 100 * n <= 96 * capacity
          /\ kind = "block" => /\ SizeInBytes >= n
                               /\ SizeInBytes < 2 * n \/ log_num_buckets = 1

\* What the other modules assume of fingerprints and indexes: they are in range
\* and never 0, the alternate index leads back, for whatever number of buckets;
\* the table's are those of the filter made from it.  A bucket's tags lead to as
\* many others as their upper bits tell apart: in a filter of 2^bits_per_item
\* buckets or more, all to the same one.
HashesAgree ==
    at = "ready" /\ kind \in {"program", "filter", "seeded"} =>
        /\ LET Reachable == {And(SizeBits, b, num_buckets - 1) : b \in 0 .. num_buckets - 1}
           IN \A key \in AllKeys :
                 LET i1 == IndexHash(num_buckets, key)
                 IN /\ partial_key(key) \in AllTags
                    /\ TagHash(key) = partial_key(key)
                    /\ i1 \in Reachable
                    /\ \A b \in Reachable :
                          LET a == AltIndex(num_buckets, b, key)
                          IN a \in Reachable /\ AltIndex(num_buckets, a, key) = b
                    /\ kind = "program" =>
                          LET hp == reserve_calc(Reserved)
                          IN /\ index_hash(hp, key) = i1
                             /\ alt_index(hp, key, i1) = AltIndex(num_buckets, i1, key)
        /\ kind = "filter" =>
              Cardinality({AltIndex(num_buckets, 0, tag) : tag \in AllTags})
                  = Min({num_buckets, 1 + (pow2[bits_per_key] - 1) \div num_buckets})

\* A block filter finds what was added to it, and what the keys added to one
\* bucket cover together; bits of a hash beyond those of the bucket and of one
\* word make no difference.
BlockFindsCovered ==
    at = "ready" /\ kind = "block" =>
        LET Bucket(h) == (h % pow2[log_num_buckets]) % pow2[WordBits]
            One(h, l) == ((Rehash[l] * (h \div pow2[log_num_buckets])) % pow2[WordBits])
                            \div pow2[WordBits - PositionBits]
        IN \A h \in HashValues :
              /\ Find(h) <=> \A l \in Lanes : \E a \in added :
                                 Bucket(a) = Bucket(h) /\ One(a, l) = One(h, l)
              /\ h \in added => Find(h)

==============================================================================
