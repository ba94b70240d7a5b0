-------------------------- MODULE RoundsClient_proofs --------------------------
(***************************************************************************)
(* Proofs about RoundsClient: for every table, every hash and every order  *)
(* of lookups, seeds stay between the streaks of hits and the rounds, and  *)
(* fingerprints follow the seeds of buckets never hit and of buckets hit   *)
(* in every round.                                                         *)
(***************************************************************************)
EXTENDS RoundsClient, LookupRounds_proofs

\* As long as no round has begun the table is as inserts leave it: its own
\* invariant holds, and every bucket has seed 0.
Inserting ==
    num_lookup_rds = 0 => /\ IInv
                          /\ \A b \in BucketIndex : seeds[b] = 0

\* A bucket that was caught up cannot be hit any further in this round: its seed
\* is the number of the round.
Caught == \A b \in caught : seeds[b] = num_lookup_rds /\ InSync(b)

RInv == /\ ClientTypeOK /\ KeyOK /\ StoredAreKeys
        /\ Inserting
        /\ UntouchedInSync
        /\ SeedsBetween
        /\ Caught

------------------------------------------------------------------------------
(* The invariant.                                                           *)

LEMMA RInvInit == ClientInit => RInv
<1> SUFFICES ASSUME ClientInit PROVE RInv
  OBVIOUS
<1>1. Init /\ seeds = [b \in BucketIndex |-> 0] /\ num_lookup_rds = 0
      /\ streak = [b \in BucketIndex |-> 0] /\ caught = {}
  BY DEF ClientInit, RoundsInit
<1>2. IInv
  BY <1>1, IInvInit
<1>3. \A b \in BucketIndex : InSync(b)
  BY <1>1 DEF Init, StorageInit, InSync, Slots
<1>4. ClientTypeOK
  BY <1>1, <1>2, MaxRoundsAssumption DEF IInv, ClientTypeOK, RoundsTypeOK
<1> QED
  BY <1>1, <1>2, <1>3, <1>4
     DEF RInv, IInv, Placed, Inserting, UntouchedInSync, SeedsBetween, Caught

LEMMA RInvStep == RInv /\ [ClientNext]_clientVars => RInv'
<1> SUFFICES ASSUME RInv, [ClientNext]_clientVars PROVE RInv'
  OBVIOUS
<1>t. /\ TypeOK /\ StorageTypeOK
      /\ seeds \in [BucketIndex -> 0 .. MaxRounds]
      /\ num_lookup_rds \in 0 .. MaxRounds
      /\ streak \in [BucketIndex -> 0 .. MaxRounds]
      /\ caught \subseteq BucketIndex
      /\ MaxRounds \in Nat
  BY MaxRoundsAssumption DEF RInv, ClientTypeOK, RoundsTypeOK, TypeOK
<1>1. CASE ClientInsert
  <2>1. num_lookup_rds = 0 /\ Next /\ UNCHANGED <<seeds, num_lookup_rds, streak, caught>>
    BY <1>1 DEF ClientInsert, rounds
  <2>2. IInv /\ \A b \in BucketIndex : seeds[b] = 0
    BY <2>1 DEF RInv, Inserting
  <2>3. IInv'
    BY <2>1, <2>2, IInvStep
  <2>4. PartialsMatch'
    BY <2>3 DEF IInv, Placed
  <2>5. \A b \in BucketIndex : InSync(b)'
    BY <2>1, <2>2, <2>4 DEF InSync, PartialsMatch, OccupiedSlots, Slots
  <2>6. ClientTypeOK'
    BY <1>t, <2>1, <2>3 DEF IInv, ClientTypeOK, RoundsTypeOK
  <2>7. Caught'
    BY <1>t, <2>1, <2>2, <2>5 DEF Caught
  <2> QED
    BY <2>1, <2>2, <2>3, <2>5, <2>6, <2>7
       DEF RInv, IInv, Placed, Inserting, UntouchedInSync, SeedsBetween
<1>2. CASE ClientStartLookup
  <2>1. /\ num_lookup_rds' = num_lookup_rds + 1 /\ num_lookup_rds < MaxRounds
        /\ caught' = {}
        /\ UNCHANGED <<vars, seeds, streak>>
    BY <1>2 DEF ClientStartLookup, StartLookup
  <2>2. ClientTypeOK' /\ KeyOK' /\ StoredAreKeys'
    BY <1>t, <2>1 DEF RInv, ClientTypeOK, RoundsTypeOK, TypeOK, StorageTypeOK,
                      KeyOK, StoredAreKeys, StoredKeys, OccupiedSlots, vars
  <2>3. Inserting'
    BY <1>t, <2>1 DEF Inserting
  <2>4. UntouchedInSync'
    BY <2>1 DEF RInv, UntouchedInSync, InSync, vars
  <2>5. SeedsBetween'
    BY <1>t, <2>1 DEF RInv, SeedsBetween
  <2> QED
    BY <2>1, <2>2, <2>3, <2>4, <2>5 DEF RInv, Caught
<1>3. ASSUME NEW k \in Keys, ClientLookup(k) PROVE RInv'
  <2>1. Lookup(k) /\ UNCHANGED <<vars, num_lookup_rds, caught>>
    BY <1>3 DEF ClientLookup, Lookup
  <2>2. /\ num_lookup_rds \in Nat
        /\ seeds \in [BucketIndex -> Nat]
        /\ \A c \in BucketIndex : seeds[c] <= num_lookup_rds
        /\ \A c \in BucketIndex : streak[c] <= seeds[c]
    BY <1>t DEF RInv, SeedsBetween
  <2>3. /\ seeds' \in [BucketIndex -> Nat]
        /\ \A c \in BucketIndex : seeds[c] <= seeds'[c] /\ seeds'[c] <= num_lookup_rds
        /\ \A c \in Home(k) : FpHit(c, k) =>
              seeds'[c] = num_lookup_rds \/ seeds'[c] >= seeds[c] + 1
    BY <2>1, <2>2, LookupSeeds
  <2>4. \A c \in BucketIndex :
           streak'[c] = IF c \in Home(k) /\ FpHit(c, k) /\ streak[c] + 1 = num_lookup_rds
                        THEN num_lookup_rds ELSE streak[c]
    BY <1>3 DEF ClientLookup
  <2>5. streak' \in [BucketIndex -> 0 .. MaxRounds]
    BY <1>t, <1>3 DEF ClientLookup
  <2>6. ClientTypeOK' /\ KeyOK' /\ StoredAreKeys'
    <3>1. seeds' \in [BucketIndex -> 0 .. MaxRounds]
      BY <1>t, <2>3
    <3> QED
      BY <1>t, <2>1, <2>5, <3>1
         DEF RInv, ClientTypeOK, RoundsTypeOK, TypeOK, StorageTypeOK,
             KeyOK, StoredAreKeys, StoredKeys, OccupiedSlots, vars
  <2>7. Inserting'
    <3> SUFFICES ASSUME num_lookup_rds' = 0
                 PROVE  IInv' /\ \A b \in BucketIndex : seeds'[b] = 0
      BY DEF Inserting
    <3>1. IInv
      BY <2>1 DEF RInv, Inserting
    <3>2. IInv'
      BY <2>1, <3>1, IInvStep
    <3> QED
      BY <2>1, <2>3, <3>2
  <2>8. UntouchedInSync'
    <3> SUFFICES ASSUME NEW b \in BucketIndex, seeds'[b] = 0 PROVE InSync(b)'
      BY DEF UntouchedInSync
    <3>1. seeds[b] = 0
      BY <2>2, <2>3
    <3>2. InSync(b)
      BY <3>1 DEF RInv, UntouchedInSync
    <3> QED
      BY <2>1, <3>1, <3>2 DEF InSync, vars
  <2>9. SeedsBetween'
    <3> SUFFICES ASSUME NEW b \in BucketIndex
                 PROVE  streak'[b] <= seeds'[b] /\ seeds'[b] <= num_lookup_rds'
      BY DEF SeedsBetween
    <3>1. /\ streak[b] \in Nat /\ seeds[b] \in Nat /\ seeds'[b] \in Nat
          /\ streak[b] <= seeds[b] /\ seeds[b] <= seeds'[b]
          /\ seeds'[b] <= num_lookup_rds /\ num_lookup_rds' = num_lookup_rds
      BY <1>t, <2>1, <2>2, <2>3
    <3>2. CASE b \in Home(k) /\ FpHit(b, k) /\ streak[b] + 1 = num_lookup_rds
      <4>1. seeds'[b] = num_lookup_rds \/ seeds'[b] >= seeds[b] + 1
        BY <2>3, <3>2
      <4>2. streak'[b] = num_lookup_rds
        BY <2>4, <3>2
      <4> QED
        BY <2>2, <3>1, <3>2, <4>1, <4>2
    <3>3. CASE ~(b \in Home(k) /\ FpHit(b, k) /\ streak[b] + 1 = num_lookup_rds)
      <4>1. streak'[b] = streak[b]
        BY <2>4, <3>3
      <4> QED
        BY <2>2, <3>1, <4>1
    <3> QED
      BY <3>2, <3>3
  <2>10. Caught'
    <3> SUFFICES ASSUME NEW b \in caught PROVE seeds'[b] = num_lookup_rds /\ InSync(b)'
      BY <2>1 DEF Caught
    <3>1. b \in BucketIndex /\ seeds[b] = num_lookup_rds /\ InSync(b)
      BY <1>t DEF RInv, Caught
    <3>2. seeds'[b] = seeds[b]
      BY <2>2, <2>3, <3>1
    <3> QED
      BY <2>1, <3>1, <3>2 DEF InSync, vars
  <2> QED
    BY <2>6, <2>7, <2>8, <2>9, <2>10 DEF RInv
<1>4. CASE ClientRehash
  <2>1. /\ RehashBuckets
        /\ caught' = {b \in BucketIndex : streak[b] = num_lookup_rds}
        /\ UNCHANGED <<occupied, keys, num_items, pc, key, slots, first, code,
                       path, depth, i, ret, seeds, num_lookup_rds, streak>>
    BY <1>4 DEF ClientRehash, RehashBuckets, locals, rounds
  <2>2. StoredAreKeys
    BY DEF RInv
  <2>3. /\ StorageTypeOK'
        /\ \A p \in Slots :
              partials'[p] = IF occupied[p] /\ seeds[p[1]] = num_lookup_rds
                             THEN partial_key(keys[p], seeds[p[1]])
                             ELSE partials[p]
    BY <1>t, <2>1, <2>2, RehashFacts
  <2>4. TypeOK' /\ KeyOK' /\ StoredAreKeys'
    BY <1>t, <2>1, <2>2, <2>3
       DEF RInv, TypeOK, KeyOK, StoredAreKeys, StoredKeys, OccupiedSlots
  <2>5. ClientTypeOK'
    BY <1>t, <2>1, <2>4 DEF ClientTypeOK, RoundsTypeOK
  <2>6. Inserting'
    <3> SUFFICES ASSUME num_lookup_rds' = 0
                 PROVE  IInv' /\ \A b \in BucketIndex : seeds'[b] = 0
      BY DEF Inserting
    <3>1. num_lookup_rds = 0 /\ IInv /\ \A b \in BucketIndex : seeds[b] = 0
      BY <2>1 DEF RInv, Inserting
    <3>2. PartialsMatch'
      BY <2>1, <2>3, <3>1
         DEF IInv, Placed, PartialsMatch, OccupiedSlots, Slots
    <3>3. KeyHome' /\ NoDuplicates' /\ NumItemsExact' /\ PendingNew'
      BY <2>1, <3>1 DEF IInv, Placed, KeyHome, NoDuplicates, NumItemsExact,
                        PendingNew, StoredKeys, OccupiedSlots
    <3>4. PathOK'
      BY <2>1, <3>1 DEF IInv, PathOK, Linked
    <3> QED
      BY <2>1, <2>4, <3>1, <3>2, <3>3, <3>4 DEF IInv, Placed
  <2>7. UntouchedInSync'
    <3> SUFFICES ASSUME NEW b \in BucketIndex, seeds[b] = 0 PROVE InSync(b)'
      BY <2>1 DEF UntouchedInSync
    <3>1. InSync(b)
      BY DEF RInv, UntouchedInSync
    <3> QED
      BY <2>1, <2>3, <3>1 DEF InSync, Slots
  <2>8. SeedsBetween'
    BY <2>1 DEF RInv, SeedsBetween
  <2>9. Caught'
    <3> SUFFICES ASSUME NEW b \in BucketIndex, streak[b] = num_lookup_rds
                 PROVE  seeds[b] = num_lookup_rds /\ InSync(b)'
      BY <2>1 DEF Caught
    <3>1. seeds[b] = num_lookup_rds
      BY <1>t DEF RInv, SeedsBetween
    <3> QED
      BY <2>1, <2>3, <3>1 DEF InSync, Slots
  <2> QED
    BY <2>4, <2>5, <2>6, <2>7, <2>8, <2>9 DEF RInv
<1>5. CASE UNCHANGED clientVars
  <2>1. UNCHANGED <<vars, seeds, num_lookup_rds, streak, caught>>
    BY <1>5 DEF clientVars, roundVars, rounds
  <2>2. ClientTypeOK' /\ KeyOK' /\ StoredAreKeys'
    BY <1>t, <2>1 DEF RInv, ClientTypeOK, RoundsTypeOK, TypeOK, StorageTypeOK,
                      KeyOK, StoredAreKeys, StoredKeys, OccupiedSlots, vars
  <2>3. Inserting'
    <3>1. IInv => IInv'
      BY <2>1, IInvStep
    <3> QED
      BY <2>1, <3>1 DEF RInv, Inserting
  <2>4. UntouchedInSync' /\ SeedsBetween' /\ Caught'
    BY <2>1 DEF RInv, UntouchedInSync, SeedsBetween, Caught, InSync, vars
  <2> QED
    BY <2>2, <2>3, <2>4 DEF RInv
<1> QED
  BY <1>1, <1>2, <1>3, <1>4, <1>5 DEF ClientNext

LEMMA RoundsInvariance == ClientSpec => []RInv
BY RInvInit, RInvStep, PTL DEF ClientSpec

------------------------------------------------------------------------------
(* What it gives.                                                           *)

\* Seeds, rounds and streaks keep their types, next to the table's own.
THEOREM ClientTypeCorrect == ClientSpec => []ClientTypeOK
<1>1. RInv => ClientTypeOK
  BY DEF RInv
<1> QED
  BY <1>1, RoundsInvariance, PTL

\* A bucket that was never hit answers for its keys, whatever was rehashed.
THEOREM UntouchedHolds == ClientSpec => []UntouchedInSync
<1>1. RInv => UntouchedInSync
  BY DEF RInv
<1> QED
  BY <1>1, RoundsInvariance, PTL

\* A seed is between the rounds its bucket was hit in without a gap and the
\* number of rounds.
THEOREM SeedsBetweenHolds == ClientSpec => []SeedsBetween
<1>1. RInv => SeedsBetween
  BY DEF RInv
<1> QED
  BY <1>1, RoundsInvariance, PTL

\* A rehash brings into step every bucket that was hit in every round so far,
\* and it stays so until the next round begins.
THEOREM StreakSyncedHolds == ClientSpec => []StreakSynced
<1>1. RInv => StreakSynced
  BY DEF RInv, Caught, StreakSynced
<1> QED
  BY <1>1, RoundsInvariance, PTL

==============================================================================
