----------------------------- MODULE LookupRounds -----------------------------
(***************************************************************************)
(* The other half of cuckoo_hashtable: fingerprint lookups in rounds.      *)
(* lookup compares fingerprints only, with one seed per bucket; a hit      *)
(* (for a key that is not in the table, a false positive) raises the seed  *)
(* of the bucket at once, while its fingerprints are recomputed only at    *)
(* the end of the round, by rehash_buckets, and only if the seed then      *)
(* equals the number of the round.                                         *)
(***************************************************************************)
EXTENDS CuckooHashtable

CONSTANT MaxRounds  \* bound on the calls of start_lookup

VARIABLES seeds,          \* seeds_
          num_lookup_rds  \* num_lookup_rds_

rounds == <<seeds, num_lookup_rds>>
roundVars == <<vars, rounds>>

ASSUME MaxRoundsAssumption ==
    MaxRounds \in Nat /\ 0 .. MaxRounds \subseteq Seeds

RoundsTypeOK ==
    /\ TypeOK
    /\ seeds \in [BucketIndex -> 0 .. MaxRounds]
    /\ num_lookup_rds \in 0 .. MaxRounds

RoundsInit ==
    /\ Init
    /\ seeds = [b \in BucketIndex |-> 0]
    /\ num_lookup_rds = 0

------------------------------------------------------------------------------
(* cuckoo_find_fp: the fingerprint of k under the seed of bucket b is in b,  *)
(* in a slot that is occupied or not.                                        *)
FpHit(b, k) == \E s \in SlotIndex : partials[<<b, s>>] = partial_key(k, seeds[b])

\* Faulty: the second bucket is not searched.
lookup_OneBucket(k) == IF FpHit(i1(k), k) THEN i1(k) ELSE -1

\* Faulty: the index 0 of a search without a hit is returned for a hit in the
\* second bucket only, as a TODO in lookup says it is.
lookup_AltZero(k) == IF FpHit(i1(k), k) THEN i1(k)
                     ELSE IF FpHit(i2(k), k) THEN 0 ELSE -1

\* What lookup returns: the second bucket if it matched, else the first.
lookup(k) == IF FpHit(i2(k), k) THEN i2(k)
             ELSE IF FpHit(i1(k), k) THEN i1(k) ELSE -1

\* Faulty: no cap; a cap one too high; the seed taken by value.
Bump_NoCap(sd, b, hit) == IF hit THEN [sd EXCEPT ![b] = @ + 1] ELSE sd
Bump_High(sd, b, hit) ==
    IF hit /\ sd[b] <= num_lookup_rds THEN [sd EXCEPT ![b] = @ + 1] ELSE sd
Bump_ByValue(sd, b, hit) == sd

\* The seed of a bucket that matched is raised, to the current round at most.
Bump(sd, b, hit) ==
    IF hit /\ sd[b] < num_lookup_rds THEN [sd EXCEPT ![b] = @ + 1] ELSE sd

\* Faulty: lookup returns as soon as the first bucket matched, as it once did.
Lookup_FirstHit(k) ==
    /\ seeds' = IF FpHit(i1(k), k) THEN Bump(seeds, i1(k), TRUE)
                ELSE Bump(seeds, i2(k), FpHit(i2(k), k))
    /\ UNCHANGED <<vars, num_lookup_rds>>

\* Both fingerprints are compared before any seed is raised; when the two
\* buckets of k are one, its seed may be raised twice.
Lookup(k) ==
    /\ seeds' = Bump(Bump(seeds, i1(k), FpHit(i1(k), k)), i2(k), FpHit(i2(k), k))
    /\ UNCHANGED <<vars, num_lookup_rds>>

StartLookup ==
    /\ num_lookup_rds' = num_lookup_rds + 1
    /\ UNCHANGED <<vars, seeds>>

\* Faulty: every bucket is rehashed, with the round as seed; the default seed of
\* hashed_key is used.
Rehashed_All(p) ==
    IF occupied[p] THEN partial_key(keys[p], num_lookup_rds) ELSE partials[p]
Rehashed_DefaultSeed(p) ==
    IF occupied[p] /\ seeds[p[1]] = num_lookup_rds
    THEN partial_key(keys[p], 0)
    ELSE partials[p]

\* The buckets whose seed is the number of the round get new fingerprints.
Rehashed(p) ==
    IF occupied[p] /\ seeds[p[1]] = num_lookup_rds
    THEN partial_key(keys[p], seeds[p[1]])
    ELSE partials[p]

RehashBuckets ==
    /\ partials' = [p \in Slots |-> Rehashed(p)]
    /\ UNCHANGED <<occupied, keys, num_items, pc, locals, ret, rounds>>

------------------------------------------------------------------------------
\* The fingerprints of bucket b are those of its keys under its seed.
InSync(b) ==
    \A s \in SlotIndex :
        occupied[<<b, s>>] =>
            partials[<<b, s>>] = partial_key(keys[<<b, s>>], seeds[b])

==============================================================================
