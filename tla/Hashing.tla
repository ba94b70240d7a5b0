------------------------------- MODULE Hashing ------------------------------
(***************************************************************************)
(* Fingerprints and bucket indexes, which the hash table and the cuckoo    *)
(* filter compute each with code of its own: the table from a hashpower,   *)
(* the filter from its number of buckets.  A filter that is given the      *)
(* table's fingerprints and seeds works only if they agree.                *)
(*                                                                         *)
(* The table's other modules take these functions as constants and assume  *)
(* what HashesAgree (Containers) says of them.                             *)
(***************************************************************************)
EXTENDS Sizing

CONSTANTS
    bits_per_key,  \* 12, bits_per_item in the filter
    Murmur         \* 0xc6a4a7935bd1e995, which is odd

ASSUME WidthAssumption ==
    /\ bits_per_key \in 1 .. SizeBits
    /\ Murmur \in 1 .. pow2[SizeBits] - 1 /\ Murmur % 2 = 1

AllKeys == 0 .. pow2[SizeBits] - 1
AllTags == 1 .. pow2[bits_per_key] - 1

\* fp * 0xc6a4a7935bd1e995
Product(fp) == SizeT(fp * Murmur)

\* uint32_t hash = key >> 32: the upper half of a key.
UpperHalf(key) == key \div pow2[SizeBits \div 2]

------------------------------------------------------------------------------
(* cuckoo_hashtable.                                                        *)

partial_key(hv) ==
    LET fp == hv % pow2[bits_per_key]
    IN IF fp = 0 THEN 1 ELSE fp

index_hash(hp, key) ==
    And(SizeBits, UpperHalf(key), hashmask(hp))

alt_index(hp, key, index) ==
    LET fp == (key \div pow2[hp]) + 1
    IN And(SizeBits, Xor(SizeBits, index, Product(fp)), hashmask(hp))

------------------------------------------------------------------------------
(* CuckooFilter.                                                            *)

TagHash(hv) ==
    LET tag == hv % pow2[bits_per_key]
    IN tag + (IF tag = 0 THEN 1 ELSE 0)

IndexHash(NumBuckets, item) ==
    And(SizeBits, UpperHalf(item), NumBuckets - 1)

\* log2, cut to an integer.
FloorLog2(x) == CHOOSE hp \in 0 .. x : pow2[hp] <= x /\ x < pow2[hp + 1]

\* Faulty: the item is not shifted.
AltIndex_NoShift(NumBuckets, index, item) ==
    And(SizeBits, Xor(SizeBits, index, Product(item + 1)), NumBuckets - 1)

AltIndex(NumBuckets, index, item) ==
    LET hp == FloorLog2(NumBuckets)
        fp == (item \div pow2[hp]) + 1
    IN And(SizeBits, Xor(SizeBits, index, Product(fp)), NumBuckets - 1)

==============================================================================
