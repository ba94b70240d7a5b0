--------------------------- MODULE LookupRounds_proofs ---------------------------
(***************************************************************************)
(* What lookups and rehashes do, for any client of the rounds.             *)
(***************************************************************************)
EXTENDS LookupRounds, CuckooHashtable_proofs

\* Raising a seed: no seed falls or passes the round, and only that of the bucket
\* changes.
LEMMA BumpFacts ==
    ASSUME num_lookup_rds \in Nat,
           NEW sd \in [BucketIndex -> Nat],
           \A c \in BucketIndex : sd[c] <= num_lookup_rds,
           NEW b \in BucketIndex, NEW hit \in BOOLEAN
    PROVE  LET new == Bump(sd, b, hit) IN
           /\ new \in [BucketIndex -> Nat]
           /\ \A c \in BucketIndex : sd[c] <= new[c] /\ new[c] <= num_lookup_rds
           /\ hit => new[b] = num_lookup_rds \/ new[b] = sd[b] + 1
           /\ \A c \in BucketIndex : c # b \/ ~hit => new[c] = sd[c]
BY DEF Bump

\* What a lookup does to the seeds: none falls, none passes the round, and that
\* of a bucket that was hit is at the round or higher than before; no other seed changes.
LEMMA LookupSeeds ==
    ASSUME num_lookup_rds \in Nat,
           seeds \in [BucketIndex -> Nat],
           \A c \in BucketIndex : seeds[c] <= num_lookup_rds,
           NEW k \in Keys, Lookup(k)
    PROVE  /\ seeds' \in [BucketIndex -> Nat]
           /\ \A c \in BucketIndex : seeds[c] <= seeds'[c] /\ seeds'[c] <= num_lookup_rds
           /\ \A c \in Home(k) : FpHit(c, k) =>
                 seeds'[c] = num_lookup_rds \/ seeds'[c] >= seeds[c] + 1
           /\ \A c \in BucketIndex :
                 ~(c \in Home(k) /\ FpHit(c, k)) => seeds'[c] = seeds[c]
<1> DEFINE hit1 == FpHit(i1(k), k)
           hit2 == FpHit(i2(k), k)
           one  == Bump(seeds, i1(k), hit1)
           two  == Bump(one, i2(k), hit2)
<1>1. i1(k) \in BucketIndex /\ i2(k) \in BucketIndex
  BY AltHome
<1>2. hit1 \in BOOLEAN /\ hit2 \in BOOLEAN
  BY DEF FpHit
<1>3. seeds' = two
  BY DEF Lookup
<1>4. /\ one \in [BucketIndex -> Nat]
      /\ \A c \in BucketIndex : seeds[c] <= one[c] /\ one[c] <= num_lookup_rds
      /\ hit1 => one[i1(k)] = num_lookup_rds \/ one[i1(k)] = seeds[i1(k)] + 1
      /\ \A c \in BucketIndex : c # i1(k) \/ ~hit1 => one[c] = seeds[c]
  <2> HIDE DEF hit1
  <2> QED
    BY <1>1, <1>2, BumpFacts
<1>5. /\ two \in [BucketIndex -> Nat]
      /\ \A c \in BucketIndex : one[c] <= two[c] /\ two[c] <= num_lookup_rds
      /\ hit2 => two[i2(k)] = num_lookup_rds \/ two[i2(k)] = one[i2(k)] + 1
      /\ \A c \in BucketIndex : c # i2(k) \/ ~hit2 => two[c] = one[c]
  <2> HIDE DEF one, hit2
  <2> QED
    BY <1>1, <1>2, <1>4, BumpFacts
<1> HIDE DEF one, two
<1>6. \A c \in BucketIndex : seeds[c] <= two[c]
  BY <1>4, <1>5
<1>7. ASSUME NEW c \in Home(k), FpHit(c, k)
      PROVE  two[c] = num_lookup_rds \/ two[c] >= seeds[c] + 1
  <2>1. CASE c = i1(k)
    BY <2>1, <1>1, <1>4, <1>5, <1>7
  <2>2. CASE c = i2(k)
    BY <2>2, <1>1, <1>4, <1>5, <1>7
  <2> QED
    BY <2>1, <2>2 DEF Home
<1>8. ASSUME NEW c \in BucketIndex, ~(c \in Home(k) /\ FpHit(c, k))
      PROVE  two[c] = seeds[c]
  BY <1>4, <1>5, <1>8 DEF Home
<1> QED
  BY <1>3, <1>5, <1>6, <1>7, <1>8

\* A rehash writes fingerprints only, and those of stored keys under the seeds of
\* their buckets.
LEMMA RehashFacts ==
    ASSUME StorageTypeOK, StoredAreKeys, num_lookup_rds \in 0 .. MaxRounds,
           RehashBuckets
    PROVE  /\ StorageTypeOK'
           /\ \A p \in Slots :
                 partials'[p] = IF occupied[p] /\ seeds[p[1]] = num_lookup_rds
                                THEN partial_key(keys[p], seeds[p[1]])
                                ELSE partials[p]
<1>1. partials' = [p \in Slots |-> Rehashed(p)] /\ UNCHANGED <<occupied, keys>>
  BY DEF RehashBuckets
<1>2. ASSUME NEW p \in Slots PROVE Rehashed(p) \in PartialBytes
  <2>1. CASE occupied[p] /\ seeds[p[1]] = num_lookup_rds
    <3>1. keys[p] \in Keys
      BY <2>1 DEF StoredAreKeys, StoredKeys, OccupiedSlots
    <3>2. seeds[p[1]] \in Seeds
      BY <2>1, MaxRoundsAssumption
    <3>3. partial_key(keys[p], seeds[p[1]]) \in Partials
      BY <3>1, <3>2, HashAssumption DEF partial_key
    <3> QED
      BY <2>1, <3>3 DEF Rehashed, PartialBytes
  <2>2. CASE ~(occupied[p] /\ seeds[p[1]] = num_lookup_rds)
    BY <2>2 DEF Rehashed, StorageTypeOK
  <2> QED
    BY <2>1, <2>2
<1> QED
  BY <1>1, <1>2 DEF StorageTypeOK, Rehashed

==============================================================================
