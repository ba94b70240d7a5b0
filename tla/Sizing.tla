------------------------------- MODULE Sizing -------------------------------
(***************************************************************************)
(* How many buckets the program's containers make for n keys: reserve_calc *)
(* of the hash table, the first constructor of the cuckoo filter, the size *)
(* main asks for, and the size the benchmark gives a block filter.  All    *)
(* are computations of a size_t, which has 64 bits in the code.            *)
(***************************************************************************)
EXTENDS Words

CONSTANTS
    LogSizeBits,    \* 6: a size_t has 2^LogSizeBits bits
    slot_per_bucket \* 4, in the table and (assoc) in the filter

ASSUME SizeAssumption ==
    /\ LogSizeBits \in Nat /\ LogSizeBits >= 3
    /\ slot_per_bucket \in Nat \ {0}

SizeBits == pow2[LogSizeBits]

SizeT(x) == x % pow2[SizeBits]

hashsize(hp) == SizeT(pow2[hp])
hashmask(hp) == SizeT(hashsize(hp) - 1)

\* The least hp with 2^hp >= x: the loop of reserve_calc.
CeilLog2(x) == CHOOSE hp \in 0 .. SizeBits :
                  pow2[hp] >= x /\ \A l \in 0 .. hp - 1 : pow2[l] < x

------------------------------------------------------------------------------
(* The hash table.                                                          *)

\* n + slot_per_bucket() - 1 wraps for the largest n.
BucketsFor(n) == SizeT(n + slot_per_bucket - 1) \div slot_per_bucket

reserve_calc(n) == CeilLog2(BucketsFor(n))

\* Its assertion.
ReserveAsserts(n) ==
    /\ n <= SizeT(BucketsFor(n) * slot_per_bucket)
    /\ BucketsFor(n) <= hashsize(reserve_calc(n))

\* What main asks for: size / 0.95, cut to an integer.
init_size(size) == (20 * size) \div 19

------------------------------------------------------------------------------
(* The cuckoo filter.                                                       *)

\* x - 1 with every bit below its highest set, after k of the or-shifts.
OrShifts(x) ==
    LET f[k \in Nat] ==
            IF k = 0 THEN SizeT(x - 1)
            ELSE Or(SizeBits, f[k - 1], f[k - 1] \div pow2[pow2[k - 1]])
    IN f

upperpower2(x) == SizeT(OrShifts(x)[LogSizeBits] + 1)

\* max_num_keys / assoc, rounded down, and at least 1.
FullBuckets(n) == IF n \div slot_per_bucket > 1 THEN n \div slot_per_bucket ELSE 1

\* Faulty: the load is not looked at.
FilterBuckets_NoFrac(n) == upperpower2(FullBuckets(n))

\* The first constructor: doubled when n keys would fill more than 0.96 of it.
FilterBuckets(n) ==
    LET num_buckets == upperpower2(FullBuckets(n))
    IN IF 100 * n > 96 * num_buckets * slot_per_bucket
       THEN SizeT(2 * num_buckets) ELSE num_buckets

==============================================================================
