---------------------------- MODULE MCContainers ----------------------------
(***************************************************************************)
(* An instance of Containers: a size_t, and so a key, of 8 bits,           *)
(* fingerprints of 3, and a block filter with buckets of four lanes of     *)
(* four bits.                                                              *)
(***************************************************************************)
EXTENDS Containers

\* Every small size, and the largest, where rounding up wraps.
MCSizes == 0 .. 70 \union 251 .. 255

\* Powers of two and others.
MCSeedCounts == 1 .. 13 \union {16, 24, 32}
MCBlockSizes == {1, 2, 3, 4, 5, 8, 9, 16, 64}

\* Low four bits of the constants in MakeMask.
MCRehash == <<11, 1, 13, 7>>

\* Hashes that share a bucket or not, a word or not, and bits beyond both.
MCHashValues == {0, 1, 6, 18, 34, 98, 130, 674}
==============================================================================
