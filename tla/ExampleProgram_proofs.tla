------------------------- MODULE ExampleProgram_proofs -------------------------
(***************************************************************************)
(* Proofs about ExampleProgram, for all vectors, tables and hashes: what   *)
(* its assertions say, why rehashing the buckets at the current round is   *)
(* enough in this program, that its figures are right, and that the filter *)
(* it makes holds every key of r and none of s.                            *)
(***************************************************************************)
EXTENDS ExampleProgram, LookupRounds_proofs

\* Bucket b gives a hit for key k in the table with the fingerprints fp, under
\* the seeds sd.
Hit(fp, sd, b, k) ==
    b \in Home(k) /\ \E j \in SlotIndex : fp[<<b, j>>] = partial_key(k, sd[b])

\* The fingerprints of a bucket follow its seed.
Synced(fp, sd, b) ==
    \A j \in SlotIndex : occupied[<<b, j>>] =>
        fp[<<b, j>>] = partial_key(keys[<<b, j>>], sd[b])

\* Types, and what the bytes of keys may be: those of r, and what was there.
PTypes ==
    /\ ProgramTypeOK /\ KeyOK /\ StoredAreKeys
    /\ n >= 1 \/ main \in {"copy", "done"}

Bytes ==
    /\ \A p \in Slots : keys[p] \in RKeys \union GarbageKeys
    /\ pc # "idle" => key \in RKeys
    /\ definite_queries > 0 => \E k \in SKeys, p \in Slots : keys[p] = k
    /\ main = "aborted" => definite_queries > 0

\* While r is inserted no round has begun, and what was inserted is stored.
Loading ==
    main = "insert" =>
        /\ IInv
        /\ num_lookup_rds = 0 /\ total_rehash = 0 /\ definite_queries = 0
        /\ \A b \in BucketIndex : seeds[b] = 0
        /\ \A j \in DOMAIN r :
              j < n => r[j] \in StoredKeys \/ (pc # "idle" /\ key = r[j])

\* Then the keys of r stay in their buckets until the table is destroyed.
Loaded ==
    main \in {"start", "query", "export"} =>
        KeyHome /\ RKeys \subseteq StoredKeys /\ pc = "idle"

\* Between rounds.
Between ==
    main = "start" =>
        /\ \A b \in BucketIndex :
              /\ Synced(partials, seeds, b)
              /\ seeds[b] <= num_lookup_rds
              /\ seeds[b] < num_lookup_rds =>
                    \A k \in SKeys : ~Hit(partials, seeds, b, k)
        /\ \E b \in BucketIndex : seeds[b] = num_lookup_rds
        /\ total_rehash = Total(seeds, num_lookup_rds)

\* In a round a bucket is at its number as soon as it was hit.  One that is not
\* was hit by no key looked up so far, and, if it was not hit in every round
\* before, will be by none.
InRound ==
    main \in {"query", "export"} =>
        /\ num_lookup_rds > 0
        /\ \A b \in BucketIndex :
              /\ seeds[b] <= num_lookup_rds
              /\ seeds[b] < num_lookup_rds =>
                    /\ Synced(partials, seeds, b)
                    /\ \A j \in DOMAIN s :
                          j < n => ~Hit(partials, seeds, b, s[j])
              /\ seeds[b] < num_lookup_rds - 1 =>
                    \A k \in SKeys : ~Hit(partials, seeds, b, k)
              /\ seeds[b] = num_lookup_rds => false_queries > 0
        /\ false_queries > 0 => \E b \in BucketIndex : seeds[b] = num_lookup_rds
        /\ \E b \in BucketIndex : seeds[b] >= num_lookup_rds - 1
        /\ total_rehash = Total(seeds, num_lookup_rds - 1)

AfterRounds ==
    main = "export" => false_queries = 0 /\ n > Len(s) /\ fp_table = partials

Marked == \A b \in rehashBSet : seeds[b] > 0

\* Fingerprints and seeds that go together: every key of r is found, none of s.
Separates(fp, sd) ==
    /\ \A k \in RKeys : \E b \in BucketIndex : Hit(fp, sd, b, k)
    /\ \A k \in SKeys, b \in BucketIndex : ~Hit(fp, sd, b, k)

\* The filter's table is filled in the order of the slots.
Position(p) == p[1] * SlotPerBucket + p[2]
Copied ==
    /\ main \in {"copy", "done"} =>
          Separates(fp_table, filter_seeds) /\ n <= BucketCount * SlotPerBucket
    /\ main = "done" => n = BucketCount * SlotPerBucket
    /\ \A p \in Slots :
          tags[p] = IF main \in {"copy", "done"} /\ Position(p) < n /\ ~NDEBUG
                    THEN fp_table[p] % TagModulus ELSE 0

PInv == /\ PTypes /\ Bytes /\ Loading /\ Loaded
        /\ Between /\ InRound /\ AfterRounds /\ Marked /\ Copied

------------------------------------------------------------------------------
(* Inserting.                                                               *)

LEMMA VectorTypes ==
    ASSUME ProgramTypeOK
    PROVE  /\ Len(r) \in Nat /\ DOMAIN r = 1 .. Len(r)
           /\ Len(s) \in Nat /\ DOMAIN s = 1 .. Len(s)
           /\ \A j \in DOMAIN r : r[j] \in RKeys
           /\ \A j \in DOMAIN s : s[j] \in SKeys
           /\ RKeys \subseteq Keys /\ SKeys \subseteq Keys
<1>1. r \in Seq(Keys) /\ s \in Seq(Keys)
  BY ProgramAssumption DEF ProgramTypeOK
<1> QED
  BY <1>1 DEF RKeys, SKeys

\* Insertion writes no key but its argument, and what it moves.
LEMMA InsertBytes ==
    ASSUME TypeOK, NEW S,
           \A p \in Slots : keys[p] \in S,
           pc # "idle" => key \in S,
           \/ Step
           \/ \E k \in S : InsertDuplicate(k) \/ InsertDirect(k) \/ RunCuckoo(k)
    PROVE  /\ \A p \in Slots : keys'[p] \in S
           /\ pc' # "idle" => key' \in S
<1>t. StorageTypeOK
  BY DEF TypeOK
<1>1. ASSUME NEW p \in Slots, NEW fp, NEW k \in S, setK(p, fp, k)
      PROVE  \A q \in Slots : keys'[q] \in S
  BY <1>1, <1>t DEF setK, StorageTypeOK
<1>2. ASSUME NEW k \in S, InsertDuplicate(k) \/ RunCuckoo(k)
      PROVE  keys' = keys /\ (pc' # "idle" => key' \in S)
  BY <1>2 DEF InsertDuplicate, RunCuckoo, Return, storage
<1>3. ASSUME NEW k \in S, InsertDirect(k)
      PROVE  (\A p \in Slots : keys'[p] \in S) /\ pc' = "idle"
  <2>1. PICK b \in BucketIndex, j \in SlotIndex :
            /\ setK(<<b, j>>, partial_key(k, 0), k)
            /\ Return("ok", k, <<b, j>>)
    BY <1>3 DEF InsertDirect
  <2>2. <<b, j>> \in Slots
    BY DEF Slots
  <2> QED
    BY <1>1, <2>1, <2>2 DEF Return
<1>4. ASSUME SearchFound \/ SearchExpand \/ SearchFail \/ DecodeStep \/ PathStep \/ MoveFail
      PROVE  keys' = keys /\ (pc' # "idle" => key' \in S)
  BY <1>4 DEF SearchFound, SearchExpand, SearchFail, DecodeStep, PathStep, MoveFail,
              Return, storage
<1>5. ASSUME MoveStep
      PROVE  (\A p \in Slots : keys'[p] \in S) /\ (pc' # "idle" => key' \in S)
  <2>1. pc # "idle" /\ key' = key
    BY <1>5 DEF MoveStep
  <2>2. CASE depth = 0
    BY <1>5, <2>1, <2>2 DEF MoveStep, storage
  <2>3. CASE depth # 0
    <3> DEFINE from == At(path[depth - 1])
               to   == At(path[depth])
    <3>1. setK_eraseK(from, to)
      BY <1>5, <2>3 DEF MoveStep
    <3>2. depth - 1 \in PathIndex /\ depth \in PathIndex
      BY <2>3, PathLenAssumption DEF PathIndex, TypeOK
    <3>3. from \in Slots
      BY <3>2, AtType
    <3> HIDE DEF from, to
    <3> QED
      BY <1>t, <2>1, <3>1, <3>3 DEF setK_eraseK, StorageTypeOK
  <2> QED
    BY <2>2, <2>3
<1>6. ASSUME AddToBucket
      PROVE  (\A p \in Slots : keys'[p] \in S) /\ pc' = "idle"
  <2>1. /\ setK(At(path[0]), partial_key(key, 0), key) /\ pc' = "idle" /\ pc # "idle"
    BY <1>6 DEF AddToBucket, Return
  <2>2. At(path[0]) \in Slots
    BY LocalTypes, AtType
  <2> QED
    BY <1>1, <2>1, <2>2
<1> QED
  BY <1>2, <1>3, <1>4, <1>5, <1>6 DEF Step

\* What becomes of the argument of insert: it is stored, or the insert goes on,
\* or the table was full.
LEMMA InsertOutcome ==
    ASSUME IInv, Step
    PROVE  \/ pc' # "idle" /\ key' = key
           \/ key \in StoredKeys'
           \/ pc' = "idle" /\ ret'.status = "failure_table_full"
<1>1. ASSUME AddToBucket PROVE key \in StoredKeys'
  <2>1. /\ setK(At(path[0]), partial_key(key, 0), key)
        /\ ~occupied[At(path[0])]
    BY <1>1 DEF AddToBucket, IInv, PathOK
  <2>2. At(path[0]) \in Slots /\ StorageTypeOK
    BY LocalTypes, AtType DEF IInv, TypeOK
  <2> QED
    BY <2>1, <2>2, SetAdds
<1>2. ASSUME SearchFail PROVE pc' = "idle" /\ ret'.status = "failure_table_full"
  BY <1>2 DEF SearchFail, Return
<1>3. ASSUME SearchFound \/ SearchExpand \/ DecodeStep \/ PathStep \/ MoveStep \/ MoveFail
      PROVE  pc' # "idle" /\ key' = key
  BY <1>3 DEF SearchFound, SearchExpand, DecodeStep, PathStep, MoveStep, MoveFail
<1> QED
  BY <1>1, <1>2, <1>3 DEF Step

LEMMA CallOutcome ==
    ASSUME IInv, NEW k \in Keys,
           InsertDuplicate(k) \/ InsertDirect(k) \/ RunCuckoo(k)
    PROVE  k \in StoredKeys' \/ (pc' # "idle" /\ key' = k)
<1>t. StorageTypeOK /\ KeyOK
  BY DEF IInv, TypeOK
<1>1. ASSUME InsertDuplicate(k) PROVE k \in StoredKeys'
  <2>1. PICK b \in BucketIndex, j \in SlotIndex : DuplicateAt(k, b, j)
    BY <1>1 DEF InsertDuplicate
  <2> QED
    BY <1>1, <2>1 DEF InsertDuplicate, DuplicateAt, StoredKeys, OccupiedSlots, Slots, storage
<1>2. ASSUME InsertDirect(k) PROVE k \in StoredKeys'
  <2>1. PICK b \in BucketIndex, j \in SlotIndex :
            EmptyAt(k, b, j) /\ setK(<<b, j>>, partial_key(k, 0), k)
    BY <1>2 DEF InsertDirect
  <2>2. <<b, j>> \in Slots /\ ~occupied[<<b, j>>]
    BY <2>1 DEF EmptyAt, Slots
  <2> QED
    BY <1>t, <2>1, <2>2, SetAdds
<1>3. ASSUME RunCuckoo(k) PROVE pc' # "idle" /\ key' = k
  BY <1>3 DEF RunCuckoo
<1> QED
  BY <1>1, <1>2, <1>3

\* What an insert does not do: it leaves rounds, figures and filter alone.
LEMMA InsertKeeps ==
    ASSUME PInv, InsertCall \/ InsertGoesOn
    PROVE  PInv'
<1>1. /\ main = "insert" /\ main' \in {"insert", "terminated"}
      /\ UNCHANGED <<seeds, num_lookup_rds, r, s, false_queries, definite_queries,
                     total_rehash, rehashBSet, fp_table, filter_seeds, tags, filter_items>>
      /\ n' \in {n, n + 1}
  BY DEF InsertCall, InsertGoesOn, rounds, queries, filter
<1>v. /\ Len(r) \in Nat /\ DOMAIN r = 1 .. Len(r) /\ n \in Nat /\ n >= 1
      /\ \A j \in DOMAIN r : r[j] \in RKeys
      /\ RKeys \subseteq Keys
  BY <1>1, VectorTypes DEF PInv, PTypes, ProgramTypeOK
<1>2. /\ IInv
      /\ num_lookup_rds = 0 /\ total_rehash = 0 /\ definite_queries = 0
      /\ \A b \in BucketIndex : seeds[b] = 0
      /\ \A j \in DOMAIN r :
            j < n => r[j] \in StoredKeys \/ (pc # "idle" /\ key = r[j])
  BY <1>1 DEF PInv, Loading
<1>3. InsertCall => r[n] \in RKeys /\ r[n] \in Keys /\ n \in DOMAIN r
  BY <1>v DEF InsertCall
<1>4. Next
  BY <1>3 DEF InsertCall, InsertGoesOn, Next, Call
<1>5. IInv' /\ StoredKeys \subseteq StoredKeys'
  <2>1. IInv' /\ (\/ UNCHANGED <<StoredKeys, ret>>
                  \/ \E k \in Keys : StoredKeys' = StoredKeys \union {k}
                  \/ StoredKeys' = StoredKeys)
    BY <1>2, <1>4, IInvStep, StepEffect
  <2> QED
    BY <2>1
<1>6. RKeys' = RKeys /\ SKeys' = SKeys
  BY <1>1 DEF RKeys, SKeys
<1>7. PTypes'
  BY <1>1, <1>5, <1>v DEF PInv, PTypes, ProgramTypeOK, RoundsTypeOK, IInv, Placed
<1>8. Bytes'
  <2>1. \A p \in Slots : keys[p] \in RKeys \union GarbageKeys
    BY DEF PInv, Bytes
  <2>2. pc # "idle" => key \in RKeys \union GarbageKeys
    BY DEF PInv, Bytes
  <2>3. \/ Step
        \/ \E k \in RKeys \union GarbageKeys :
              InsertDuplicate(k) \/ InsertDirect(k) \/ RunCuckoo(k)
    BY <1>3 DEF InsertCall, InsertGoesOn
  <2>4. /\ \A p \in Slots : keys'[p] \in RKeys \union GarbageKeys
    BY <1>2, <2>1, <2>2, <2>3, InsertBytes DEF IInv
  <2>5. pc' # "idle" => key' \in RKeys
    <3>1. CASE InsertCall
      BY <3>1, <1>3 DEF InsertCall, InsertDuplicate, InsertDirect, RunCuckoo, Return
    <3>2. CASE InsertGoesOn
      <4>1. Step /\ pc # "idle" /\ key \in RKeys
        BY <3>2 DEF InsertGoesOn, Step, SearchFound, SearchExpand, SearchFail,
                    DecodeStep, PathStep, MoveStep, MoveFail, AddToBucket, PInv, Bytes
      <4>2. pc' # "idle" => key' = key
        BY <4>1 DEF Step, SearchFound, SearchExpand, SearchFail,
                    DecodeStep, PathStep, MoveStep, MoveFail, AddToBucket, Return
      <4> QED
        BY <4>1, <4>2
    <3> QED
      BY <3>1, <3>2
  <2> QED
    BY <1>1, <1>2, <1>6, <2>4, <2>5 DEF Bytes
<1>9. Loading'
  <2> SUFFICES ASSUME main' = "insert", NEW j \in DOMAIN r, j < n'
               PROVE  r[j] \in StoredKeys' \/ (pc' # "idle" /\ key' = r[j])
    BY <1>1, <1>2, <1>5 DEF Loading
  <2>1. CASE InsertCall
    <3>1. pc = "idle" /\ n' = n + 1
      BY <2>1 DEF InsertCall
    <3>2. CASE j = n
      BY <1>2, <1>3, <2>1, <3>2, CallOutcome DEF InsertCall
    <3>3. CASE j # n
      BY <1>2, <1>5, <1>v, <3>1, <3>3
    <3> QED
      BY <3>2, <3>3
  <2>2. CASE InsertGoesOn
    <3>1. Step /\ n' = n /\ ~(pc' = "idle" /\ ret'.status = "failure_table_full")
      BY <2>2 DEF InsertGoesOn
    <3> QED
      BY <1>2, <1>5, <3>1, InsertOutcome
  <2> QED
    BY <2>1, <2>2
<1>10. Loaded' /\ Between' /\ InRound' /\ AfterRounds' /\ Marked'
  BY <1>1 DEF Loaded, Between, InRound, AfterRounds, Marked, PInv
<1>11. Copied'
  BY <1>1 DEF PInv, Copied, Separates
<1> QED
  BY <1>7, <1>8, <1>9, <1>10, <1>11 DEF PInv

------------------------------------------------------------------------------
(* Sums.                                                                    *)

LEMMA BucketsFinite == IsFiniteSet(BucketIndex) /\ Cardinality(BucketIndex) = BucketCount
<1>1. 0 \in Int /\ BucketCount - 1 \in Int /\ BucketCount \in Nat \ {0}
  BY BucketCountAssumption
<1> QED
  BY <1>1, FS_Interval DEF BucketIndex

\* A sum, counted one unit further, grows by the terms that have that unit.
LEMMA TotalStep ==
    ASSUME NEW D, IsFiniteSet(D), NEW f \in [D -> Nat], NEW m \in Nat
    PROVE  /\ Total(f, m) \in Nat
           /\ Total(f, m + 1) = Total(f, m) + Cardinality({d \in D : f[d] >= m + 1})
<1> DEFINE Units(h) == {x \in D \X (1 .. h) : x[2] <= f[x[1]]}
           above == {d \in D : f[d] >= m + 1}
           last  == above \X {m + 1}
<1>1. Total(f, m) = Cardinality(Units(m)) /\ Total(f, m + 1) = Cardinality(Units(m + 1))
  BY DEF Total
<1>2. IsFiniteSet(Units(m))
  <2>1. 1 \in Int /\ m \in Int
    OBVIOUS
  <2>2. IsFiniteSet(1 .. m)
    BY <2>1, FS_Interval
  <2>3. IsFiniteSet(D \X (1 .. m))
    BY <2>2, FS_Product
  <2>4. Units(m) \in SUBSET (D \X (1 .. m))
    OBVIOUS
  <2> QED
    BY <2>3, <2>4, FS_Subset
<1>3. IsFiniteSet(above)
  <2>1. above \in SUBSET D
    OBVIOUS
  <2> QED
    BY <2>1, FS_Subset
<1>4. IsFiniteSet(last) /\ Cardinality(last) = Cardinality(above)
  <2>1. IsFiniteSet({m + 1}) /\ Cardinality({m + 1}) = 1
    BY FS_Singleton
  <2>2. Cardinality(above) \in Nat
    BY <1>3, FS_CardinalityType
  <2> HIDE DEF above
  <2>3. IsFiniteSet(last) /\ Cardinality(last) = Cardinality(above) * Cardinality({m + 1})
    BY <1>3, <2>1, FS_Product
  <2> QED
    BY <2>1, <2>2, <2>3
<1>5. Units(m + 1) = Units(m) \union last
  <2>1. ASSUME NEW x PROVE x \in Units(m + 1) <=> x \in Units(m) \/ x \in last
    <3>1. ASSUME x \in D \X (1 .. m + 1) PROVE x[1] \in D /\ x[2] \in Nat /\ f[x[1]] \in Nat
      BY <3>1
    <3>2. CASE x \in D \X (1 .. m + 1)
      <4>1. x = <<x[1], x[2]>> /\ x[1] \in D /\ x[2] \in 1 .. m + 1 /\ f[x[1]] \in Nat
        BY <3>2
      <4> QED
        BY <3>2, <4>1
    <3>3. CASE x \notin D \X (1 .. m + 1)
      <4>1. x \notin D \X (1 .. m) /\ x \notin last
        BY <3>3
      <4> QED
        BY <3>3, <4>1
    <3> QED
      BY <3>2, <3>3
  <2> QED
    BY <2>1
<1>6. Units(m) \intersect last = {}
  OBVIOUS
<1> HIDE DEF Units, last, above
<1>7. /\ Cardinality(Units(m) \union last)
           = Cardinality(Units(m)) + Cardinality(last) - Cardinality(Units(m) \intersect last)
      /\ Cardinality(Units(m) \intersect last) = 0
      /\ Cardinality(Units(m)) \in Nat /\ Cardinality(last) \in Nat
  BY <1>2, <1>4, <1>6, FS_Union, FS_EmptySet, FS_CardinalityType
<1>8. Cardinality(Units(m + 1)) = Cardinality(Units(m) \union last)
  BY <1>5, Zenon
<1>9. Cardinality(above) = Cardinality({d \in D : f[d] >= m + 1})
  BY DEF above
<1> QED
  BY <1>1, <1>4, <1>7, <1>8, <1>9

\* Counting up to m, only what is below m matters of a term.
LEMMA TotalSame ==
    ASSUME NEW D, NEW f \in [D -> Nat], NEW g \in [D -> Nat], NEW m \in Nat,
           \A d \in D : f[d] = g[d] \/ (f[d] >= m /\ g[d] >= m)
    PROVE  Total(f, m) = Total(g, m)
<1>1. {x \in D \X (1 .. m) : x[2] <= f[x[1]]} = {x \in D \X (1 .. m) : x[2] <= g[x[1]]}
  <2>1. ASSUME NEW x \in D \X (1 .. m) PROVE x[2] <= f[x[1]] <=> x[2] <= g[x[1]]
    <3>1. x[1] \in D /\ x[2] \in 1 .. m /\ f[x[1]] \in Nat /\ g[x[1]] \in Nat
      OBVIOUS
    <3> QED
      BY <3>1
  <2> QED
    BY <2>1
<1> QED
  BY <1>1 DEF Total

\* Counting beyond the largest term adds nothing.
LEMMA TotalCapped ==
    ASSUME NEW D, NEW f \in [D -> Nat], NEW m \in Nat, NEW h \in Nat, m <= h,
           \A d \in D : f[d] <= m
    PROVE  Total(f, h) = Total(f, m)
<1>1. {x \in D \X (1 .. h) : x[2] <= f[x[1]]} = {x \in D \X (1 .. m) : x[2] <= f[x[1]]}
  <2>1. ASSUME NEW d \in D, NEW u
        PROVE  u \in 1 .. h /\ u <= f[d] <=> u \in 1 .. m /\ u <= f[d]
    BY f[d] \in Nat
  <2> QED
    BY <2>1
<1> QED
  BY <1>1 DEF Total

\* The sizes of the classes of equal terms add up to the number of terms.
EqualTerms(D, f, v) == {d \in D : f[d] = v}
SizeUnits(D, f, m, max) ==
    {x \in (0 .. m - 1) \X (1 .. max) : x[2] <= Cardinality(EqualTerms(D, f, x[1]))}

LEMMA ClassSizes ==
    ASSUME NEW D, IsFiniteSet(D), NEW f \in [D -> Nat]
    PROVE  \A m \in Nat :
              Cardinality(SizeUnits(D, f, m, Cardinality(D)))
              = Cardinality({d \in D : f[d] < m})
<1> DEFINE Class(v) == {d \in D : f[d] = v}
           Below(m) == {d \in D : f[d] < m}
           All == 1 .. Cardinality(D)
           Units(m) == {x \in (0 .. m - 1) \X All : x[2] <= Cardinality(Class(x[1]))}
           S == {m \in Nat : IsFiniteSet(Units(m))
                              /\ Cardinality(Units(m)) = Cardinality(Below(m))}
<1>d. Cardinality(D) \in Nat
  BY FS_CardinalityType
<1>1. \A v : IsFiniteSet(Class(v)) /\ Cardinality(Class(v)) \in 0 .. Cardinality(D)
  <2> TAKE v
  <2>1. Class(v) \in SUBSET D
    OBVIOUS
  <2>2. IsFiniteSet(Class(v)) /\ Cardinality(Class(v)) <= Cardinality(D)
    BY <2>1, FS_Subset
  <2>3. Cardinality(Class(v)) \in Nat
    BY <2>2, FS_CardinalityType
  <2> QED
    BY <1>d, <2>2, <2>3
<1>2. \A m : IsFiniteSet(Below(m))
  <2> TAKE m
  <2>1. Below(m) \in SUBSET D
    OBVIOUS
  <2> QED
    BY <2>1, FS_Subset
<1>3. 0 \in S
  <2>1. Units(0) = {} /\ Below(0) = {}
    OBVIOUS
  <2> QED
    BY <2>1, FS_EmptySet
<1>4. ASSUME NEW m \in Nat, m \in S PROVE m + 1 \in S
  <2> DEFINE c == Cardinality(Class(m))
             new == {m} \X (1 .. c)
  <2>1. Below(m + 1) = Below(m) \union Class(m) /\ Below(m) \intersect Class(m) = {}
    OBVIOUS
  <2>2. Units(m + 1) = Units(m) \union new /\ Units(m) \intersect new = {}
    <3>1. c \in 0 .. Cardinality(D)
      BY <1>1
    <3>2. \A u, v : /\ <<u, v>> \in Units(m + 1)
                        <=> u \in 0 .. m /\ v \in All /\ v <= Cardinality(Class(u))
                    /\ <<u, v>> \in Units(m)
                        <=> u \in 0 .. m - 1 /\ v \in All /\ v <= Cardinality(Class(u))
                    /\ <<u, v>> \in new <=> u = m /\ v \in 1 .. c
      <4> HIDE DEF Class, All, c
      <4>1. (m + 1) - 1 = m
        OBVIOUS
      <4> QED
        BY <4>1
    <3>3. \A v : v \in 1 .. c <=> v \in All /\ v <= c
      BY <1>d, <3>1
    <3>4. \A u : u \in 0 .. m <=> u \in 0 .. m - 1 \/ u = m
      OBVIOUS
    <3>5. m \notin 0 .. m - 1
      OBVIOUS
    <3>6. \A x : x \in Units(m + 1) \/ x \in Units(m) \/ x \in new => x = <<x[1], x[2]>>
      <4> HIDE DEF Class, All, c
      <4> QED
        OBVIOUS
    <3> HIDE DEF Units, new, Class, All
    <3>7. \A u, v : /\ <<u, v>> \in Units(m + 1) <=> <<u, v>> \in Units(m) \/ <<u, v>> \in new
                    /\ ~(<<u, v>> \in Units(m) /\ <<u, v>> \in new)
      BY <3>2, <3>3, <3>4, <3>5 DEF c
    <3> HIDE DEF c
    <3>8. \A x : /\ x \in Units(m + 1) <=> x \in Units(m) \/ x \in new
                 /\ ~(x \in Units(m) /\ x \in new)
      BY <3>6, <3>7
    <3> QED
      BY <3>8
  <2>3. IsFiniteSet(new) /\ Cardinality(new) = c
    <3>1. IsFiniteSet({m}) /\ Cardinality({m}) = 1
      BY FS_Singleton
    <3>2. c \in Nat /\ c \in Int /\ 1 \in Int
      BY <1>1, <1>d
    <3> HIDE DEF c
    <3>3. IsFiniteSet(1 .. c) /\ Cardinality(1 .. c) = c
      BY <3>2, FS_Interval
    <3>4. IsFiniteSet(new) /\ Cardinality(new) = Cardinality({m}) * Cardinality(1 .. c)
      BY <3>1, <3>3, FS_Product
    <3> QED
      BY <3>1, <3>2, <3>3, <3>4
  <2>4. IsFiniteSet(Units(m)) /\ Cardinality(Units(m)) = Cardinality(Below(m))
    BY <1>4
  <2>5. IsFiniteSet(Class(m)) /\ IsFiniteSet(Below(m))
    BY <1>1, <1>2
  <2>6. Cardinality(Units(m)) \in Nat /\ Cardinality(new) \in Nat
        /\ Cardinality(Below(m)) \in Nat /\ Cardinality(Class(m)) \in Nat
    <3> HIDE DEF Units, new, Below, Class
    <3> QED
      BY <2>3, <2>4, <2>5, FS_CardinalityType
  <2>7. Cardinality(Units(m + 1)) = Cardinality(Units(m)) + Cardinality(new)
        /\ IsFiniteSet(Units(m + 1))
    <3> HIDE DEF Units, new
    <3>1. /\ IsFiniteSet(Units(m) \union new)
          /\ Cardinality(Units(m) \union new)
               = Cardinality(Units(m)) + Cardinality(new) - Cardinality(Units(m) \intersect new)
      BY <2>3, <2>4, FS_Union
    <3>2. /\ IsFiniteSet(Units(m + 1))
          /\ Cardinality(Units(m + 1))
               = Cardinality(Units(m)) + Cardinality(new) - Cardinality({})
      BY <2>2, <3>1, Zenon
    <3> QED
      BY <2>6, <3>2, FS_EmptySet
  <2>8. Cardinality(Below(m + 1)) = Cardinality(Below(m)) + Cardinality(Class(m))
    <3> HIDE DEF Below, Class
    <3>1. Cardinality(Below(m) \union Class(m))
             = Cardinality(Below(m)) + Cardinality(Class(m))
               - Cardinality(Below(m) \intersect Class(m))
      BY <2>5, FS_Union
    <3>2. Cardinality(Below(m + 1))
             = Cardinality(Below(m)) + Cardinality(Class(m)) - Cardinality({})
      BY <2>1, <3>1, Zenon
    <3> QED
      BY <2>6, <3>2, FS_EmptySet
  <2> HIDE DEF Units, Below, Class, new
  <2> QED
    BY <2>3, <2>4, <2>7, <2>8 DEF c
<1>5. \A m \in Nat : m \in S
  <2> HIDE DEF S
  <2> QED
    BY <1>3, <1>4, NatInductionInSet
<1>6. \A m : SizeUnits(D, f, m, Cardinality(D)) = Units(m)
  BY DEF SizeUnits, EqualTerms
<1>7. \A m \in Nat : Cardinality(Units(m)) = Cardinality(Below(m))
  BY <1>5
<1> QED
  BY <1>6, <1>7, Zenon

------------------------------------------------------------------------------
(* Rounds.                                                                  *)

LEMMA FirstRound ==
    ASSUME PInv, InsertsDone
    PROVE  PInv'
<1>1. /\ main = "insert" /\ pc = "idle" /\ n > Len(r) /\ main' = "start"
      /\ UNCHANGED <<vars, seeds, num_lookup_rds, r, s, n,
                     false_queries, definite_queries, total_rehash, rehashBSet,
                     fp_table, filter_seeds, tags, filter_items>>
  BY DEF InsertsDone, roundVars, rounds, queries, filter
<1>2. /\ IInv /\ num_lookup_rds = 0 /\ total_rehash = 0
      /\ \A b \in BucketIndex : seeds[b] = 0
      /\ \A j \in DOMAIN r : j < n => r[j] \in StoredKeys
  BY <1>1 DEF PInv, Loading
<1>v. Len(r) \in Nat /\ DOMAIN r = 1 .. Len(r) /\ n \in Nat
  BY VectorTypes DEF PInv, PTypes, ProgramTypeOK
<1>3. RKeys \subseteq StoredKeys
  BY <1>1, <1>2, <1>v DEF RKeys
<1>4. RKeys' = RKeys /\ SKeys' = SKeys /\ StoredKeys' = StoredKeys
  BY <1>1 DEF RKeys, SKeys, StoredKeys, OccupiedSlots, vars
<1>5. PTypes'
  BY <1>1, <1>2 DEF PInv, PTypes, ProgramTypeOK, RoundsTypeOK, TypeOK, StorageTypeOK,
                    KeyOK, StoredAreKeys, StoredKeys, OccupiedSlots, vars
<1>6. Bytes'
  BY <1>1, <1>4 DEF PInv, Bytes, vars
<1>7. Loaded'
  <2>1. KeyHome'
    BY <1>1, <1>2 DEF IInv, Placed, KeyHome, OccupiedSlots, vars
  <2> QED
    BY <1>1, <1>3, <1>4, <2>1 DEF Loaded, vars
<1>8. Between'
  <2>1. \A b \in BucketIndex : Synced(partials, seeds, b)
    BY <1>2 DEF IInv, Placed, PartialsMatch, Synced, OccupiedSlots, Slots
  <2>2. \A b \in BucketIndex : Synced(partials, seeds, b)'
    BY <1>1, <2>1 DEF Synced, vars
  <2>3. Total(seeds, 0) = 0
    <3>1. {x \in (DOMAIN seeds) \X (1 .. 0) : x[2] <= seeds[x[1]]} = {}
      OBVIOUS
    <3> QED
      BY <3>1, FS_EmptySet DEF Total
  <2>4. 0 \in BucketIndex
    BY BucketCountAssumption DEF BucketIndex
  <2> QED
    BY <1>1, <1>2, <2>2, <2>3, <2>4 DEF Between
<1>9. Loading' /\ InRound' /\ AfterRounds' /\ Marked'
  BY <1>1 DEF Loading, InRound, AfterRounds, Marked, PInv
<1>10. Copied'
  BY <1>1 DEF PInv, Copied
<1> QED
  BY <1>5, <1>6, <1>7, <1>8, <1>9, <1>10 DEF PInv

LEMMA RoundBegins ==
    ASSUME PInv, StartRound
    PROVE  PInv'
<1>1. /\ main = "start" /\ main' = "query" /\ n' = 1
      /\ num_lookup_rds < MaxRounds /\ num_lookup_rds' = num_lookup_rds + 1
      /\ false_queries' = 0 /\ definite_queries' = 0
      /\ UNCHANGED <<vars, seeds, r, s, total_rehash, rehashBSet,
                     fp_table, filter_seeds, tags, filter_items>>
  BY DEF StartRound, StartLookup, filter
<1>2. RKeys' = RKeys /\ SKeys' = SKeys /\ StoredKeys' = StoredKeys
  BY <1>1 DEF RKeys, SKeys, StoredKeys, OccupiedSlots, vars
<1>t. /\ num_lookup_rds \in Nat /\ seeds \in [BucketIndex -> Nat]
      /\ num_lookup_rds \in 0 .. MaxRounds /\ MaxRounds \in Nat
  BY MaxRoundsAssumption DEF PInv, PTypes, ProgramTypeOK, RoundsTypeOK
<1>3. PTypes'
  BY <1>1, <1>2, <1>t DEF PInv, PTypes, ProgramTypeOK, RoundsTypeOK, TypeOK, StorageTypeOK,
                          KeyOK, StoredAreKeys, vars
<1>4. Bytes' /\ Loaded'
  BY <1>1, <1>2 DEF PInv, Bytes, Loaded, KeyHome, OccupiedSlots, vars
<1>5. InRound'
  <2>1. ASSUME NEW b \in BucketIndex
        PROVE  /\ seeds[b] <= num_lookup_rds /\ seeds[b] \in Nat
               /\ Synced(partials, seeds, b)
               /\ seeds[b] < num_lookup_rds => \A k \in SKeys : ~Hit(partials, seeds, b, k)
    BY <1>1, <1>t DEF PInv, Between
  <2>2. ASSUME NEW b \in BucketIndex
        PROVE  Synced(partials, seeds, b)' <=> Synced(partials, seeds, b)
    BY <1>1 DEF Synced, vars
  <2>3. seeds' = seeds /\ partials' = partials /\ s' = s
    BY <1>1 DEF vars
  <2>4. /\ \E b \in BucketIndex : seeds[b] = num_lookup_rds
        /\ total_rehash = Total(seeds, num_lookup_rds)
    BY <1>1 DEF PInv, Between
  <2>5. \A j \in DOMAIN s : ~(j < 1)
    BY VectorTypes DEF PInv, PTypes
  <2>6. num_lookup_rds' - 1 = num_lookup_rds
    BY <1>1, <1>t
  <2>7. \E b \in BucketIndex : seeds[b] >= num_lookup_rds
    BY <1>t, <2>4
  <2>8. ASSUME NEW b \in BucketIndex
        PROVE  seeds[b] <= num_lookup_rds + 1 /\ seeds[b] # num_lookup_rds + 1
    BY <1>t, <2>1
  <2> QED
    BY <1>1, <1>2, <1>t, <2>1, <2>2, <2>3, <2>4, <2>5, <2>6, <2>7, <2>8 DEF InRound
<1>6. Loading' /\ Between' /\ AfterRounds' /\ Marked'
  BY <1>1 DEF PInv, Loading, Between, AfterRounds, Marked
<1>7. Copied'
  BY <1>1 DEF PInv, Copied
<1> QED
  BY <1>3, <1>4, <1>5, <1>6, <1>7 DEF PInv

\* Hits and fingerprints in step depend on a bucket's seed and no other.
LEMMA SameSeed ==
    ASSUME NEW fp, NEW sd, NEW new, NEW b, new[b] = sd[b]
    PROVE  /\ Synced(fp, new, b) <=> Synced(fp, sd, b)
           /\ \A k : Hit(fp, new, b, k) <=> Hit(fp, sd, b, k)
BY DEF Synced, Hit

\* lookup returns a bucket that was hit, if there is one.
LEMMA LookupHits ==
    ASSUME NEW k \in Keys
    PROVE  /\ lookup(k) >= 0 <=> \E b \in BucketIndex : Hit(partials, seeds, b, k)
           /\ lookup(k) >= 0 => /\ lookup(k) \in BucketIndex
                               /\ Hit(partials, seeds, lookup(k), k)
<1>1. i1(k) \in BucketIndex /\ i2(k) \in BucketIndex
  BY AltHome
<1>2. \A b : Hit(partials, seeds, b, k) <=> b \in {i1(k), i2(k)} /\ FpHit(b, k)
  BY DEF Hit, FpHit, Home
<1>3. \A b \in BucketIndex : b >= 0
  BY BucketCountAssumption DEF BucketIndex
<1>4. CASE FpHit(i2(k), k)
  BY <1>1, <1>2, <1>3, <1>4 DEF lookup
<1>5. CASE ~FpHit(i2(k), k) /\ FpHit(i1(k), k)
  BY <1>1, <1>2, <1>3, <1>5 DEF lookup
<1>6. CASE ~FpHit(i2(k), k) /\ ~FpHit(i1(k), k)
  <2>1. lookup(k) = -1
    BY <1>6 DEF lookup
  <2>2. ~(lookup(k) >= 0)
    BY <2>1
  <2> QED
    BY <1>2, <1>6, <2>2
<1> QED
  BY <1>4, <1>5, <1>6

\* One key of s.  A bucket it hits was hit in every round before, so that its
\* seed reaches the number of the round at once.
LEMMA QueryKeeps ==
    ASSUME PInv, Query
    PROVE  PInv'
<1> DEFINE k == s[n]
           R == num_lookup_rds
<1>1. /\ main = "query" /\ main' = main /\ n <= Len(s) /\ n' = n + 1
      /\ Lookup(k)
      /\ definite_queries' = definite_queries + (IF find(k) >= 0 THEN 1 ELSE 0)
      /\ IF lookup(k) >= 0
         THEN /\ false_queries' = false_queries + 1
              /\ rehashBSet' = rehashBSet \union {lookup(k)}
         ELSE UNCHANGED <<false_queries, rehashBSet>>
      /\ UNCHANGED <<vars, num_lookup_rds, r, s, total_rehash,
                     fp_table, filter_seeds, tags, filter_items>>
  BY DEF Query, Lookup, filter
<1>t. /\ num_lookup_rds \in Nat /\ num_lookup_rds \in 0 .. MaxRounds /\ MaxRounds \in Nat
      /\ seeds \in [BucketIndex -> Nat]
      /\ n \in Nat /\ n >= 1
      /\ false_queries \in Nat /\ definite_queries \in Nat /\ rehashBSet \subseteq BucketIndex
  BY <1>1, MaxRoundsAssumption DEF PInv, PTypes, ProgramTypeOK, RoundsTypeOK
<1>v. n \in DOMAIN s /\ k \in SKeys /\ k \in Keys /\ Len(s) \in Nat /\ DOMAIN s = 1 .. Len(s)
  BY <1>1, <1>t, VectorTypes DEF PInv, PTypes
<1>2. RKeys' = RKeys /\ SKeys' = SKeys /\ StoredKeys' = StoredKeys
      /\ keys' = keys /\ partials' = partials /\ occupied' = occupied
  BY <1>1 DEF RKeys, SKeys, StoredKeys, OccupiedSlots, vars
<1> HIDE DEF k, R
<1>3. /\ R > 0 /\ R \in Nat
      /\ \A b \in BucketIndex :
            /\ seeds[b] <= R
            /\ seeds[b] < R =>
                  /\ Synced(partials, seeds, b)
                  /\ \A j \in DOMAIN s :
                        j < n => ~Hit(partials, seeds, b, s[j])
            /\ seeds[b] < R - 1 =>
                  \A y \in SKeys : ~Hit(partials, seeds, b, y)
            /\ seeds[b] = R => false_queries > 0
      /\ false_queries > 0 => \E b \in BucketIndex : seeds[b] = R
      /\ \E b \in BucketIndex : seeds[b] >= R - 1
      /\ total_rehash = Total(seeds, R - 1)
  BY <1>1, <1>t DEF PInv, InRound, R
<1>4. /\ seeds' \in [BucketIndex -> Nat]
      /\ \A b \in BucketIndex :
            /\ seeds[b] <= seeds'[b] /\ seeds'[b] <= R
            /\ Hit(partials, seeds, b, k) =>
                  seeds'[b] = R \/ seeds'[b] >= seeds[b] + 1
            /\ ~Hit(partials, seeds, b, k) => seeds'[b] = seeds[b]
  <2>1. \A b : Hit(partials, seeds, b, k) <=> b \in Home(k) /\ FpHit(b, k)
    BY DEF Hit, FpHit
  <2>2. \A c \in BucketIndex : seeds[c] <= num_lookup_rds
    BY <1>3 DEF R
  <2>3. /\ seeds' \in [BucketIndex -> Nat]
        /\ \A c \in BucketIndex : seeds[c] <= seeds'[c] /\ seeds'[c] <= num_lookup_rds
        /\ \A c \in Home(k) : FpHit(c, k) =>
              seeds'[c] = num_lookup_rds \/ seeds'[c] >= seeds[c] + 1
        /\ \A c \in BucketIndex :
              ~(c \in Home(k) /\ FpHit(c, k)) => seeds'[c] = seeds[c]
    BY <1>1, <1>t, <1>v, <2>2, LookupSeeds
  <2> QED
    BY <2>1, <2>3 DEF R
<1>5. \A b \in BucketIndex :
         seeds'[b] = IF Hit(partials, seeds, b, k) THEN R ELSE seeds[b]
  <2> SUFFICES ASSUME NEW b \in BucketIndex, Hit(partials, seeds, b, k)
               PROVE  seeds'[b] = R
    BY <1>4
  <2>1. seeds[b] >= R - 1
    BY <1>3, <1>t, <1>v
  <2> QED
    BY <1>3, <1>4, <1>t, <2>1
<1>6. /\ lookup(k) >= 0 <=> \E b \in BucketIndex : Hit(partials, seeds, b, k)
      /\ lookup(k) >= 0 => lookup(k) \in BucketIndex /\ seeds'[lookup(k)] = R
  BY <1>5, <1>v, LookupHits
<1>7. PTypes'
  <2>1. seeds' \in [BucketIndex -> 0 .. MaxRounds]
    <3>1. \A b \in BucketIndex : seeds'[b] \in 0 .. MaxRounds
      BY <1>4, <1>t DEF R
    <3> QED
      BY <1>4, <3>1
  <2>2. false_queries' \in Nat /\ definite_queries' \in Nat /\ rehashBSet' \subseteq BucketIndex
    BY <1>1, <1>6, <1>t
  <2> QED
    BY <1>1, <1>2, <1>t, <2>1, <2>2
       DEF PInv, PTypes, ProgramTypeOK, RoundsTypeOK, TypeOK, StorageTypeOK,
           KeyOK, StoredAreKeys, vars
<1>8. Bytes'
  <2>1. ASSUME find(k) >= 0 PROVE \E p \in Slots : keys[p] = k
    <3>1. SeenIn(i1(k), k) \/ SeenIn(i2(k), k)
      <4>1. find(k) # -1
        BY <2>1
      <4> QED
        BY <4>1 DEF find
    <3>2. i1(k) \in BucketIndex /\ i2(k) \in BucketIndex
      BY <1>v, AltHome
    <3> QED
      BY <3>1, <3>2 DEF SeenIn, Slots
  <2>2. definite_queries' > 0 => \E y \in SKeys, p \in Slots : keys[p] = y
    <3>1. CASE find(k) >= 0
      BY <1>v, <2>1, <3>1
    <3>2. CASE ~(find(k) >= 0)
      <4>1. definite_queries' = definite_queries
        BY <1>1, <1>t, <3>2
      <4> QED
        BY <4>1 DEF PInv, Bytes
    <3> QED
      BY <3>1, <3>2
  <2> QED
    BY <1>1, <1>2, <2>2 DEF PInv, Bytes, vars
<1>9. InRound'
  <2>1. ASSUME NEW b \in BucketIndex, seeds'[b] < R
        PROVE  /\ seeds'[b] = seeds[b] /\ ~Hit(partials, seeds, b, k)
               /\ Synced(partials, seeds, b)
               /\ \A j \in DOMAIN s : j < n + 1 => ~Hit(partials, seeds, b, s[j])
    <3>1. seeds'[b] = seeds[b] /\ ~Hit(partials, seeds, b, k)
      BY <1>3, <1>5, <2>1
    <3>2. \A j \in DOMAIN s : j < n + 1 => j < n \/ j = n
      BY <1>v, <1>t
    <3> QED
      BY <1>3, <2>1, <3>1, <3>2 DEF k
  <2>2. ASSUME NEW b \in BucketIndex, seeds'[b] < R
        PROVE  /\ Synced(partials, seeds, b)'
               /\ \A y : Hit(partials, seeds, b, y)' <=> Hit(partials, seeds, b, y)
    <3>1. seeds'[b] = seeds[b]
      BY <2>1, <2>2
    <3>2. Synced(partials, seeds', b) /\ \A y : Hit(partials, seeds', b, y) <=> Hit(partials, seeds, b, y)
      BY <2>1, <2>2, <3>1, SameSeed
    <3>3. Synced(partials, seeds, b)' <=> Synced(partials, seeds', b)
      BY <1>2 DEF Synced
    <3> QED
      BY <1>2, <3>2, <3>3
  <2>3. ASSUME NEW b \in BucketIndex, seeds'[b] < R - 1, NEW y \in SKeys
        PROVE  ~Hit(partials, seeds, b, y)'
    <3>1. seeds'[b] < R /\ seeds'[b] \in Nat
      BY <1>3, <1>4, <2>3
    <3>2. seeds[b] < R - 1
      BY <2>1, <2>3, <3>1
    <3> QED
      BY <1>3, <2>2, <2>3, <3>1, <3>2
  <2>4. \A b \in BucketIndex : seeds'[b] = R => false_queries' > 0
    BY <1>1, <1>3, <1>5, <1>6, <1>t
  <2>5. false_queries' > 0 => \E b \in BucketIndex : seeds'[b] = R
    <3>1. CASE lookup(k) >= 0
      BY <1>6, <3>1
    <3>2. CASE ~(lookup(k) >= 0)
      BY <1>1, <1>3, <1>5, <1>6, <3>2
    <3> QED
      BY <3>1, <3>2
  <2>6. \E b \in BucketIndex : seeds'[b] >= R - 1
    <3>1. PICK b \in BucketIndex : seeds[b] >= R - 1
      BY <1>3
    <3>2. seeds'[b] >= R - 1
      BY <1>3, <1>4, <1>t, <3>1
    <3> QED
      BY <3>2
  <2>7. Total(seeds', R - 1) = Total(seeds, R - 1)
    <3>1. R - 1 \in Nat
      BY <1>3
    <3>2. \A b \in BucketIndex : seeds'[b] = seeds[b] \/ (seeds'[b] >= R - 1 /\ seeds[b] >= R - 1)
      BY <1>3, <1>4, <1>5, <1>t, <1>v
    <3> QED
      BY <1>4, <1>t, <3>1, <3>2, TotalSame
  <2>8. num_lookup_rds' = R /\ s' = s /\ n' = n + 1 /\ total_rehash' = total_rehash
    BY <1>1 DEF R
  <2>9. \A b \in BucketIndex : seeds'[b] <= R
    BY <1>4
  <2> QED
    BY <1>2, <1>3, <2>1, <2>2, <2>3, <2>4, <2>5, <2>6, <2>7, <2>8, <2>9 DEF InRound
<1>10. Marked'
  <2>1. ASSUME NEW b \in rehashBSet' PROVE seeds'[b] > 0
    <3>1. CASE b \in rehashBSet
      <4>1. seeds[b] > 0 /\ b \in BucketIndex
        BY <1>t, <3>1 DEF PInv, Marked
      <4> QED
        BY <1>4, <1>t, <4>1
    <3>2. CASE b \notin rehashBSet
      <4>1. lookup(k) >= 0 /\ b = lookup(k)
        BY <1>1, <2>1, <3>2
      <4> QED
        BY <1>3, <1>6, <4>1
    <3> QED
      BY <3>1, <3>2
  <2> QED
    BY <2>1 DEF Marked
<1>11. Loading' /\ Loaded' /\ Between' /\ AfterRounds'
  BY <1>1, <1>2 DEF PInv, Loading, Loaded, KeyHome, OccupiedSlots, Between, AfterRounds, vars
<1>12. Copied'
  BY <1>1 DEF PInv, Copied
<1> QED
  BY <1>7, <1>8, <1>9, <1>10, <1>11, <1>12 DEF PInv

\* A bucket at the number of the round is given fingerprints under its seed; a
\* bucket that is not was hit by no key of the round, and keeps its own.
LEMMA RehashKeeps ==
    ASSUME PInv, RoundRehash
    PROVE  PInv'
<1> DEFINE R == num_lookup_rds
<1>1. /\ main = "query" /\ main' = "start" /\ n > Len(s) /\ false_queries > 0
      /\ RehashBuckets /\ total_rehash' = total_rehash + RehashCount
      /\ UNCHANGED <<occupied, keys, num_items, pc, key, slots, first, code, path,
                     depth, i, ret, seeds, num_lookup_rds, r, s, n, false_queries,
                     definite_queries, rehashBSet, fp_table, filter_seeds, tags,
                     filter_items>>
  BY DEF RoundRehash, AtRoundEnd, RehashBuckets, locals, rounds, filter
<1>t. /\ R \in Nat /\ R \in 0 .. MaxRounds /\ seeds \in [BucketIndex -> Nat] /\ n \in Nat
      /\ StorageTypeOK /\ StoredAreKeys /\ total_rehash \in Nat
  BY MaxRoundsAssumption DEF PInv, PTypes, ProgramTypeOK, RoundsTypeOK, TypeOK
<1>2. RKeys' = RKeys /\ SKeys' = SKeys /\ StoredKeys' = StoredKeys
      /\ OccupiedSlots' = OccupiedSlots
  BY <1>1 DEF RKeys, SKeys, StoredKeys, OccupiedSlots
<1>3. /\ StorageTypeOK'
      /\ \A p \in Slots :
            partials'[p] = IF occupied[p] /\ seeds[p[1]] = R
                           THEN partial_key(keys[p], seeds[p[1]])
                           ELSE partials[p]
  BY <1>1, <1>t, RehashFacts
<1> HIDE DEF R
<1>4. /\ R > 0
      /\ \A b \in BucketIndex :
            /\ seeds[b] <= R
            /\ seeds[b] < R =>
                  /\ Synced(partials, seeds, b)
                  /\ \A j \in DOMAIN s : j < n => ~Hit(partials, seeds, b, s[j])
      /\ \E b \in BucketIndex : seeds[b] = R
      /\ total_rehash = Total(seeds, R - 1)
  BY <1>1, <1>t DEF PInv, InRound, R
<1>5. total_rehash' = Total(seeds, R)
  <2>1. R - 1 \in Nat /\ (R - 1) + 1 = R
    BY <1>4, <1>t
  <2>2. Total(seeds, (R - 1) + 1)
           = Total(seeds, R - 1) + Cardinality({b \in BucketIndex : seeds[b] >= (R - 1) + 1})
    BY <1>t, <2>1, BucketsFinite, TotalStep
  <2>3. {b \in BucketIndex : seeds[b] >= R} = {b \in BucketIndex : seeds[b] = R}
    BY <1>4, <1>t
  <2>4. RehashCount = Cardinality({b \in BucketIndex : seeds[b] >= R})
    BY <2>3, Zenon DEF RehashCount, R
  <2> QED
    BY <1>1, <1>4, <2>1, <2>2, <2>4
<1>6. PTypes'
  <2>1. TypeOK' /\ KeyOK' /\ StoredAreKeys'
    BY <1>1, <1>2, <1>3, <1>t
       DEF PInv, PTypes, ProgramTypeOK, RoundsTypeOK, TypeOK, KeyOK, StoredAreKeys
  <2>2. total_rehash' \in Nat
    BY <1>5, <1>t, BucketsFinite, TotalStep
  <2> QED
    BY <1>1, <2>1, <2>2 DEF PInv, PTypes, ProgramTypeOK, RoundsTypeOK
<1>7. Bytes' /\ Loaded'
  BY <1>1, <1>2 DEF PInv, Bytes, Loaded, KeyHome
<1>8. Between'
  <2>1. ASSUME NEW b \in BucketIndex PROVE Synced(partials, seeds, b)'
    <3> SUFFICES ASSUME NEW j \in SlotIndex, occupied[<<b, j>>]
                 PROVE  partials'[<<b, j>>] = partial_key(keys[<<b, j>>], seeds[b])
      BY <1>1 DEF Synced
    <3>1. <<b, j>> \in Slots /\ <<b, j>>[1] = b
      BY DEF Slots
    <3>2. CASE seeds[b] = R
      BY <1>3, <3>1, <3>2
    <3>3. CASE seeds[b] # R
      <4>1. Synced(partials, seeds, b)
        BY <1>4, <1>t, <3>3
      <4> QED
        BY <1>3, <3>1, <3>3, <4>1 DEF Synced
    <3> QED
      BY <3>2, <3>3
  <2>2. ASSUME NEW b \in BucketIndex, seeds[b] < R, NEW k \in SKeys
        PROVE  ~Hit(partials, seeds, b, k)'
    <3>1. PICK j \in DOMAIN s : k = s[j]
      BY DEF SKeys
    <3>2. j < n
      BY <1>1, <1>t, VectorTypes DEF PInv, PTypes
    <3>3. ~Hit(partials, seeds, b, k)
      BY <1>4, <2>2, <3>1, <3>2
    <3>4. \A h \in SlotIndex : partials'[<<b, h>>] = partials[<<b, h>>]
      <4>1. \A h \in SlotIndex : <<b, h>> \in Slots /\ <<b, h>>[1] = b
        BY DEF Slots
      <4>2. seeds[b] # R
        BY <2>2, <1>t
      <4> QED
        BY <1>3, <4>1, <4>2
    <3> QED
      BY <1>1, <3>3, <3>4 DEF Hit
  <2> QED
    BY <1>1, <1>2, <1>4, <1>5, <2>1, <2>2 DEF Between, R
<1>9. Loading' /\ InRound' /\ AfterRounds' /\ Marked'
  BY <1>1 DEF PInv, Loading, InRound, AfterRounds, Marked
<1>10. Copied'
  BY <1>1 DEF PInv, Copied
<1> QED
  BY <1>6, <1>7, <1>8, <1>9, <1>10 DEF PInv

\* What the other ends of a round leave alone.
LEMMA RoundEnds ==
    ASSUME PInv, RoundAborts \/ RoundsDone
    PROVE  PInv'
<1>1. /\ main = "query" /\ n > Len(s)
      /\ UNCHANGED <<vars, seeds, num_lookup_rds, r, s, n, false_queries,
                     definite_queries, total_rehash, rehashBSet, filter_seeds, tags,
                     filter_items>>
      /\ \/ main' = "aborted" /\ definite_queries > 0 /\ fp_table' = fp_table
         \/ main' = "export" /\ false_queries = 0 /\ fp_table' = partials
  BY DEF RoundAborts, RoundsDone, AtRoundEnd, roundVars, rounds, queries, filter
<1>2. RKeys' = RKeys /\ SKeys' = SKeys /\ StoredKeys' = StoredKeys
  BY <1>1 DEF RKeys, SKeys, StoredKeys, OccupiedSlots, vars
<1>3. PTypes'
  <2>1. TypeOK' /\ KeyOK' /\ StoredAreKeys'
    BY <1>1, <1>2 DEF PInv, PTypes, ProgramTypeOK, RoundsTypeOK, TypeOK, StorageTypeOK,
                      KeyOK, StoredAreKeys, vars
  <2>2. partials \in [Slots -> PartialBytes] /\ fp_table \in [Slots -> PartialBytes]
    BY DEF PInv, PTypes, ProgramTypeOK, RoundsTypeOK, TypeOK, StorageTypeOK
  <2> QED
    BY <1>1, <2>1, <2>2 DEF PInv, PTypes, ProgramTypeOK, RoundsTypeOK
<1>4. Bytes' /\ Loaded'
  BY <1>1, <1>2 DEF PInv, Bytes, Loaded, KeyHome, OccupiedSlots, vars
<1>5. InRound'
  <2>1. InRound => InRound' \/ main' = "aborted"
    BY <1>1, <1>2 DEF InRound, Synced, Hit, vars
  <2> QED
    BY <2>1 DEF PInv, InRound
<1>6. AfterRounds' /\ Marked'
  BY <1>1 DEF PInv, AfterRounds, Marked, vars
<1>7. Loading' /\ Between'
  BY <1>1 DEF Loading, Between
<1>8. Copied'
  BY <1>1 DEF PInv, Copied
<1> QED
  BY <1>3, <1>4, <1>5, <1>6, <1>7, <1>8 DEF PInv

------------------------------------------------------------------------------
(* The filter.                                                              *)

LEMMA Exported ==
    ASSUME PInv, main = "export"
    PROVE  Separates(fp_table, seeds)
<1>t. /\ num_lookup_rds \in Nat /\ seeds \in [BucketIndex -> Nat] /\ n \in Nat
  BY MaxRoundsAssumption DEF PInv, PTypes, ProgramTypeOK, RoundsTypeOK
<1>1. /\ n > Len(s) /\ fp_table = partials
      /\ \A b \in BucketIndex :
            /\ seeds[b] < num_lookup_rds
            /\ Synced(partials, seeds, b)
            /\ \A j \in DOMAIN s : j < n => ~Hit(partials, seeds, b, s[j])
  BY <1>t DEF PInv, AfterRounds, InRound
<1>2. KeyHome /\ RKeys \subseteq StoredKeys
  BY DEF PInv, Loaded
<1>3. ASSUME NEW k \in RKeys PROVE \E b \in BucketIndex : Hit(partials, seeds, b, k)
  <2>1. PICK p \in OccupiedSlots : keys[p] = k
    BY <1>2, <1>3 DEF StoredKeys
  <2>2. /\ p[1] \in Home(k) /\ p = <<p[1], p[2]>>
        /\ p[1] \in BucketIndex /\ p[2] \in SlotIndex /\ occupied[p]
    BY <1>2, <2>1 DEF KeyHome, OccupiedSlots, Slots
  <2>3. partials[p] = partial_key(k, seeds[p[1]])
    BY <1>1, <2>1, <2>2 DEF Synced
  <2> QED
    BY <2>2, <2>3 DEF Hit
<1>4. ASSUME NEW k \in SKeys, NEW b \in BucketIndex PROVE ~Hit(partials, seeds, b, k)
  <2>1. PICK j \in DOMAIN s : k = s[j]
    BY DEF SKeys
  <2>2. j < n
    BY <1>1, <1>t, VectorTypes DEF PInv, PTypes
  <2> QED
    BY <1>1, <2>1, <2>2
<1> QED
  BY <1>1, <1>3, <1>4 DEF Separates

LEMMA ReturnKeeps ==
    ASSUME PInv, ReturnSeeds
    PROVE  PInv'
<1>1. /\ main = "export" /\ main' = "copy" /\ n' = 0 /\ filter_seeds' = seeds
      /\ occupied' = [p \in Slots |-> FALSE]
      /\ UNCHANGED <<keys, partials, num_items, pc, key, slots, first, code, path,
                     depth, i, ret, seeds, num_lookup_rds, r, s, false_queries,
                     definite_queries, total_rehash, rehashBSet, fp_table, tags,
                     filter_items>>
  BY DEF ReturnSeeds, clear, locals, rounds, queries
<1>2. RKeys' = RKeys /\ SKeys' = SKeys /\ StoredKeys' = {}
  BY <1>1 DEF RKeys, SKeys, StoredKeys, OccupiedSlots
<1>3. PTypes'
  <2>1. seeds \in [BucketIndex -> Seeds]
    BY MaxRoundsAssumption DEF PInv, PTypes, ProgramTypeOK, RoundsTypeOK
  <2>2. TypeOK' /\ KeyOK' /\ StoredAreKeys'
    BY <1>1, <1>2 DEF PInv, PTypes, ProgramTypeOK, RoundsTypeOK, TypeOK, StorageTypeOK,
                      KeyOK, StoredAreKeys
  <2> QED
    BY <1>1, <2>1, <2>2 DEF PInv, PTypes, ProgramTypeOK, RoundsTypeOK
<1>4. Bytes'
  BY <1>1, <1>2 DEF PInv, Bytes
<1>5. Copied'
  <2>1. Separates(fp_table, seeds)
    BY <1>1, Exported
  <2>2. Separates(fp_table, filter_seeds)'
    BY <1>1, <1>2, <2>1 DEF Separates, Hit
  <2>3. \A p \in Slots : ~(Position(p) < 0)
    <3>1. \A a, c \in Nat : a * SlotPerBucket + c \in Nat
      BY SlotPerBucketAssumption
    <3> QED
      BY <3>1, BucketCountAssumption DEF Position, Slots, BucketIndex, SlotIndex
  <2>4. 0 <= BucketCount * SlotPerBucket
    BY BucketCountAssumption, SlotPerBucketAssumption
  <2> QED
    BY <1>1, <2>2, <2>3, <2>4 DEF PInv, Copied
<1>6. Loading' /\ Loaded' /\ Between' /\ InRound' /\ AfterRounds' /\ Marked'
  BY <1>1 DEF PInv, Loading, Loaded, Between, InRound, AfterRounds, Marked
<1> QED
  BY <1>3, <1>4, <1>5, <1>6 DEF PInv

\* The two loops visit every slot once.
LEMMA CopyOrder ==
    /\ \A p \in Slots : Position(p) \in Nat /\ Position(p) < BucketCount * SlotPerBucket
    /\ \A m \in Nat : m < BucketCount * SlotPerBucket =>
          LET q == <<m \div SlotPerBucket, m % SlotPerBucket>> IN
          q \in Slots /\ \A p \in Slots : p = q <=> Position(p) = m
<1> DEFINE S == SlotPerBucket
<1>s. S \in Nat \ {0} /\ BucketCount \in Nat \ {0}
  BY SlotPerBucketAssumption, BucketCountAssumption
<1>p. ASSUME NEW p \in Slots
      PROVE  /\ p = <<p[1], p[2]>> /\ p[1] \in Nat /\ p[1] <= BucketCount - 1
             /\ p[2] \in 0 .. S - 1 /\ Position(p) = S * p[1] + p[2]
  BY <1>s DEF Slots, BucketIndex, SlotIndex, Position
<1> HIDE DEF S
<1>1. ASSUME NEW p \in Slots
      PROVE  Position(p) \in Nat /\ Position(p) < S * BucketCount
  <2>1. p[1] + 1 \in Nat /\ p[1] + 1 <= BucketCount
    BY <1>s, <1>p
  <2>2. S * (p[1] + 1) <= S * BucketCount /\ S * (p[1] + 1) \in Nat /\ S * BucketCount \in Nat
    BY <1>s, <2>1, TimesMonotone
  <2>3. S * (p[1] + 1) = S * p[1] + S /\ S * p[1] \in Nat
    BY <1>s, <1>p
  <2> QED
    BY <1>s, <1>p, <2>2, <2>3
<1>2. BucketCount * SlotPerBucket = S * BucketCount
  BY <1>s DEF S
<1>3. ASSUME NEW m \in Nat, m < S * BucketCount
      PROVE  LET q == <<m \div S, m % S>> IN
             q \in Slots /\ \A p \in Slots : p = q <=> Position(p) = m
  <2> DEFINE d == m \div S
             e == m % S
  <2>1. d \in Nat /\ e \in 0 .. S - 1 /\ m = S * d + e
    BY <1>s, QuotientRemainder
  <2> HIDE DEF d, e
  <2>2. d <= BucketCount - 1
    <3> SUFFICES ASSUME BucketCount <= d PROVE FALSE
      BY <1>s, <2>1
    <3>1. S * BucketCount <= S * d /\ S * BucketCount \in Nat /\ S * d \in Nat
      BY <1>s, <2>1, TimesMonotone
    <3> QED
      BY <1>3, <2>1, <3>1
  <2>3. <<d, e>> \in Slots
    BY <1>s, <2>1, <2>2 DEF Slots, BucketIndex, SlotIndex, S
  <2>4. Position(<<d, e>>) = m
    BY <1>p, <2>1, <2>3
  <2>5. ASSUME NEW p \in Slots, Position(p) = m PROVE p = <<d, e>>
    <3>1. p[1] \in Nat /\ p[2] \in 0 .. S - 1 /\ S * p[1] + p[2] = S * d + e
      BY <1>p, <2>1, <2>5
    <3>2. ASSUME NEW u \in Nat, NEW v \in Nat, u < v,
                 NEW x \in 0 .. S - 1, NEW y \in 0 .. S - 1
          PROVE  S * u + x # S * v + y
      <4>1. S * (u + 1) <= S * v /\ S * (u + 1) \in Nat /\ S * v \in Nat
        BY <1>s, <3>2, TimesMonotone
      <4>2. S * (u + 1) = S * u + S /\ S * u \in Nat
        BY <1>s
      <4> QED
        BY <1>s, <4>1, <4>2
    <3>3. p[1] = d
      BY <2>1, <3>1, <3>2
    <3>4. p[2] = e
      <4>1. S * d \in Nat
        BY <1>s, <2>1
      <4> QED
        BY <2>1, <3>1, <3>3, <4>1
    <3> QED
      BY <1>p, <3>3, <3>4
  <2> QED
    BY <2>3, <2>4, <2>5 DEF d, e
<1> QED
  BY <1>1, <1>2, <1>3 DEF S

LEMMA CopyKeeps ==
    ASSUME PInv, CopyTag \/ CopyDone
    PROVE  PInv'
<1>1. /\ main = "copy" /\ main' \in {"copy", "done"}
      /\ UNCHANGED <<vars, seeds, num_lookup_rds, r, s, false_queries,
                     definite_queries, total_rehash, rehashBSet, fp_table,
                     filter_seeds>>
  BY DEF CopyTag, CopyDone, roundVars, rounds, queries, filter
<1>t. /\ n \in Nat /\ n <= BucketCount * SlotPerBucket
      /\ BucketCount * SlotPerBucket \in Nat
      /\ tags \in [Slots -> 0 .. TagModulus - 1] /\ filter_items \in Nat
      /\ TagModulus \in Nat \ {0} /\ NDEBUG \in BOOLEAN
      /\ \A p \in Slots : fp_table[p] \in Nat
  <2>1. \A p \in Slots : fp_table[p] \in Partials \union {NoPartial}
    BY DEF PInv, PTypes, ProgramTypeOK, PartialBytes
  <2>2. Partials \subseteq Nat /\ NoPartial \in Nat
    BY ProgramAssumption
  <2>3. \A p \in Slots : fp_table[p] \in Nat
    BY <2>1, <2>2
  <2>4. BucketCount * SlotPerBucket \in Nat
    BY BucketCountAssumption, SlotPerBucketAssumption
  <2>5. /\ n \in Nat /\ n <= BucketCount * SlotPerBucket
        /\ tags \in [Slots -> 0 .. TagModulus - 1] /\ filter_items \in Nat
    BY <1>1 DEF PInv, PTypes, ProgramTypeOK, Copied
  <2> QED
    BY <2>3, <2>4, <2>5, ProgramAssumption
<1>2. RKeys' = RKeys /\ SKeys' = SKeys /\ StoredKeys' = StoredKeys
  BY <1>1 DEF RKeys, SKeys, StoredKeys, OccupiedSlots, vars
<1>3. /\ n' \in Nat /\ n' <= BucketCount * SlotPerBucket
      /\ main' = "done" => n' = BucketCount * SlotPerBucket
      /\ tags' \in [Slots -> 0 .. TagModulus - 1] /\ filter_items' \in Nat
      /\ \A p \in Slots :
            tags'[p] = IF Position(p) < n' /\ ~NDEBUG
                       THEN fp_table[p] % TagModulus ELSE 0
  <2>1. \A p \in Slots :
           tags[p] = IF Position(p) < n /\ ~NDEBUG
                     THEN fp_table[p] % TagModulus ELSE 0
    BY <1>1 DEF PInv, Copied
  <2>2. CASE CopyDone
    BY <1>t, <2>1, <2>2 DEF CopyDone, filter
  <2>3. CASE CopyTag
    <3>1. /\ n < BucketCount * SlotPerBucket /\ n' = n + 1 /\ main' = "copy"
          /\ \/ /\ fp_table[CopySlot] # 0 /\ ~NDEBUG
                /\ tags' = [tags EXCEPT ![CopySlot] = fp_table[CopySlot] % TagModulus]
                /\ filter_items' = filter_items + 1
             \/ /\ ~(fp_table[CopySlot] # 0 /\ ~NDEBUG)
                /\ tags' = tags /\ filter_items' = filter_items
      BY <1>1, <2>3 DEF CopyTag, Filter!CopyInsert
    <3>2. CopySlot \in Slots /\ \A p \in Slots : p = CopySlot <=> Position(p) = n
      BY <1>t, <3>1, CopyOrder DEF CopySlot
    <3>3. \A p \in Slots : Position(p) \in Nat
      BY CopyOrder
    <3>4. fp_table[CopySlot] % TagModulus \in 0 .. TagModulus - 1 /\ 0 % TagModulus = 0
      BY <1>t, <3>2
    <3> HIDE DEF CopySlot
    <3>5. \A p \in Slots : Position(p) < n + 1 <=> Position(p) < n \/ p = CopySlot
      BY <1>t, <3>2, <3>3
    <3>6. tags' \in [Slots -> 0 .. TagModulus - 1] /\ filter_items' \in Nat
      BY <1>t, <3>1, <3>2, <3>4
    <3>7. ASSUME NEW p \in Slots
          PROVE  tags'[p] = IF Position(p) < n + 1 /\ ~NDEBUG
                            THEN fp_table[p] % TagModulus ELSE 0
      <4>1. CASE p = CopySlot
        <5>1. ~(Position(p) < n)
          BY <1>t, <3>2, <4>1
        <5> QED
          BY <1>t, <2>1, <3>1, <3>2, <3>4, <3>5, <4>1, <5>1
      <4>2. CASE p # CopySlot
        BY <1>t, <2>1, <3>1, <3>2, <3>5, <4>2
      <4> QED
        BY <4>1, <4>2
    <3> QED
      BY <1>t, <3>1, <3>6, <3>7
  <2> QED
    BY <2>2, <2>3
<1>4. PTypes'
  <2>1. TypeOK' /\ KeyOK' /\ StoredAreKeys'
    BY <1>1, <1>2 DEF PInv, PTypes, ProgramTypeOK, RoundsTypeOK, TypeOK, StorageTypeOK,
                      KeyOK, StoredAreKeys, vars
  <2> QED
    BY <1>1, <1>3, <2>1 DEF PInv, PTypes, ProgramTypeOK, RoundsTypeOK
<1>5. Bytes'
  BY <1>1, <1>2 DEF PInv, Bytes, vars
<1>6. Loading' /\ Loaded' /\ Between' /\ InRound' /\ AfterRounds' /\ Marked'
  BY <1>1 DEF PInv, Loading, Loaded, Between, InRound, AfterRounds, Marked
<1>7. Copied'
  <2>1. Separates(fp_table, filter_seeds)'
    BY <1>1, <1>2 DEF PInv, Copied, Separates, Hit
  <2> QED
    BY <1>1, <1>3, <2>1 DEF Copied
<1> QED
  BY <1>4, <1>5, <1>6, <1>7 DEF PInv

------------------------------------------------------------------------------
(* The invariant.                                                           *)

LEMMA PInvInit == ProgramInit => PInv
<1> SUFFICES ASSUME ProgramInit PROVE PInv
  OBVIOUS
<1>1. /\ Init /\ seeds = [b \in BucketIndex |-> 0] /\ num_lookup_rds = 0
      /\ r \in RVectors /\ s \in SVectors /\ main = "insert" /\ n = 1
      /\ false_queries = 0 /\ definite_queries = 0
      /\ total_rehash = 0 /\ rehashBSet = {}
      /\ fp_table = [p \in Slots |-> NoPartial]
      /\ filter_seeds = [b \in BucketIndex |-> 0]
      /\ tags = [p \in Slots |-> 0] /\ filter_items = 0
  BY DEF ProgramInit, RoundsInit
<1>2. IInv /\ TypeOK /\ KeyOK
  BY <1>1, IInvInit, TypeInit
<1>3. PTypes
  <2>1. 0 \in Seeds /\ 0 \in 0 .. MaxRounds
    BY HashAssumption, MaxRoundsAssumption
  <2>2. 0 \in 0 .. TagModulus - 1
    BY ProgramAssumption
  <2> QED
    BY <1>1, <1>2, <2>1, <2>2
       DEF PTypes, ProgramTypeOK, RoundsTypeOK, IInv, Placed, PartialBytes
<1>4. Bytes
  BY <1>1 DEF Bytes, Init, StorageInit
<1>5. Loading
  <2>1. \A j \in DOMAIN r : ~(j < n)
    BY <1>1, <1>3, VectorTypes DEF PTypes
  <2> QED
    BY <1>1, <1>2, <2>1 DEF Loading
<1>6. Loaded /\ Between /\ InRound /\ AfterRounds /\ Marked /\ Copied
  BY <1>1 DEF Loaded, Between, InRound, AfterRounds, Marked, Copied
<1> QED
  BY <1>3, <1>4, <1>5, <1>6 DEF PInv

LEMMA PInvStutter ==
    ASSUME PInv, UNCHANGED allVars
    PROVE  PInv'
<1>1. UNCHANGED <<vars, seeds, num_lookup_rds, r, s, main, n, false_queries,
                  definite_queries, total_rehash, rehashBSet, fp_table,
                  filter_seeds, tags, filter_items>>
  BY DEF allVars, roundVars, rounds, program, queries, filter
<1>2. RKeys' = RKeys /\ SKeys' = SKeys /\ StoredKeys' = StoredKeys
  BY <1>1 DEF RKeys, SKeys, StoredKeys, OccupiedSlots, vars
<1>3. PTypes' /\ Bytes'
  BY <1>1, <1>2 DEF PInv, PTypes, ProgramTypeOK, RoundsTypeOK, TypeOK, StorageTypeOK,
                    KeyOK, StoredAreKeys, Bytes, vars
<1>4. Loading'
  <2>1. IInv => IInv'
    BY <1>1, IInvStep
  <2> QED
    BY <1>1, <1>2, <2>1 DEF PInv, Loading, vars
<1>5. Loaded'
  BY <1>1, <1>2 DEF PInv, Loaded, KeyHome, OccupiedSlots, vars
<1>6. Between' /\ InRound'
  BY <1>1, <1>2 DEF PInv, Between, InRound, Synced, Hit, vars
<1>7. AfterRounds' /\ Marked'
  BY <1>1 DEF PInv, AfterRounds, Marked, vars
<1>8. Copied'
  BY <1>1, <1>2 DEF PInv, Copied, Separates, Hit
<1> QED
  BY <1>3, <1>4, <1>5, <1>6, <1>7, <1>8 DEF PInv

LEMMA PInvStep == PInv /\ [ProgramNext]_allVars => PInv'
BY InsertKeeps, FirstRound, RoundBegins, QueryKeeps, RehashKeeps, RoundEnds,
   ReturnKeeps, CopyKeeps, PInvStutter DEF ProgramNext

LEMMA ProgramInvariance == ProgramSpec => []PInv
BY PInvInit, PInvStep, PTL DEF ProgramSpec

------------------------------------------------------------------------------
(* What it gives.                                                           *)

\* Tables, figures, exported copies and tags keep their types.
THEOREM ProgramTypeCorrect == ProgramSpec => []ProgramTypeOK
<1>1. PInv => ProgramTypeOK
  BY DEF PInv, PTypes
<1> QED
  BY <1>1, ProgramInvariance, PTL

\* At the end of every round a bucket that fell behind is one no key of s hits,
\* so that rehashing the buckets at the number of the round was enough.
THEOREM LaggardsQuietHolds == ProgramSpec => []LaggardsQuiet
<1>1. PInv => LaggardsQuiet
  BY DEF PInv, Between, LaggardsQuiet, Quiet, Hit, FpHit
<1> QED
  BY <1>1, ProgramInvariance, PTL

\* Between rounds, and when the table is exported, fingerprints follow seeds.
THEOREM RoundsInSyncHolds == ProgramSpec => []RoundsInSync
<1>1. PInv => RoundsInSync
  <2> SUFFICES ASSUME PInv, main \in {"start", "export"}, NEW b \in BucketIndex
               PROVE  InSync(b)
    BY DEF RoundsInSync
  <2>1. Synced(partials, seeds, b)
    <3>1. CASE main = "start"
      BY <3>1 DEF PInv, Between
    <3>2. CASE main = "export"
      <4>1. seeds[b] \in Nat /\ num_lookup_rds \in Nat /\ false_queries = 0
        BY <3>2, MaxRoundsAssumption DEF PInv, PTypes, ProgramTypeOK, RoundsTypeOK, AfterRounds
      <4> QED
        BY <3>2, <4>1 DEF PInv, InRound
    <3> QED
      BY <3>1, <3>2
  <2> QED
    BY <2>1 DEF Synced, InSync
<1> QED
  BY <1>1, ProgramInvariance, PTL

\* The assertions of hashtable_ops hold, unless r and s share a key: in memory
\* that holds no key when the table is made of it.
THEOREM AssertionsHoldTheorem ==
    ASSUME NoStaleKeys
    PROVE  ProgramSpec => []AssertionsHold
<1>1. PInv => AssertionsHold
  <2> SUFFICES ASSUME PInv PROVE AssertionsHold
    OBVIOUS
  <2>v. RKeys \subseteq Keys /\ SKeys \subseteq Keys
    BY VectorTypes DEF PInv, PTypes
  <2>1. ASSUME main = "start", num_lookup_rds = 0, NEW k \in RKeys
        PROVE  lookup(k) >= 0 /\ find(k) >= 0
    <3>1. PICK p \in OccupiedSlots : keys[p] = k
      BY <2>1 DEF PInv, Loaded, StoredKeys
    <3>2. /\ p[1] \in Home(k) /\ p = <<p[1], p[2]>>
          /\ p[1] \in BucketIndex /\ p[2] \in SlotIndex /\ occupied[p]
      BY <2>1, <3>1 DEF PInv, Loaded, KeyHome, OccupiedSlots, Slots
    <3>3. Hit(partials, seeds, p[1], k)
      BY <2>1, <3>1, <3>2 DEF PInv, Between, Synced, Hit
    <3>4. SeenIn(p[1], k)
      BY <3>1, <3>2 DEF SeenIn
    <3>5. i1(k) \in BucketIndex /\ i2(k) \in BucketIndex /\ \A b \in BucketIndex : b >= 0
      BY <2>v, AltHome, BucketCountAssumption DEF BucketIndex
    <3>6. find(k) >= 0
      BY <3>2, <3>4, <3>5 DEF find, Home
    <3> QED
      BY <2>v, <3>2, <3>3, <3>6, LookupHits
  <2>2. ASSUME main = "aborted" PROVE RKeys \intersect SKeys # {}
    <3>1. PICK k \in SKeys, p \in Slots : keys[p] = k
      BY <2>2 DEF PInv, Bytes
    <3>2. k \in RKeys \union GarbageKeys
      BY <3>1 DEF PInv, Bytes
    <3> QED
      BY <2>v, <3>1, <3>2 DEF NoStaleKeys
  <2> QED
    BY <2>1, <2>2 DEF AssertionsHold
<1> QED
  BY <1>1, ProgramInvariance, PTL

LEMMA SeedMapTotal ==
    ASSUME BucketCount < CountModulus, seeds \in [BucketIndex -> 0 .. MaxRounds]
    PROVE  Total(seed_map, BucketCount) = BucketCount
<1> DEFINE Class(v) == {b \in BucketIndex : seeds[b] = v}
           Units == {x \in (0 .. (MaxRounds + 1) - 1) \X (1 .. BucketCount) :
                        x[2] <= Cardinality(Class(x[1]))}
           mapped == {x \in (DOMAIN seed_map) \X (1 .. BucketCount) : x[2] <= seed_map[x[1]]}
<1>t. /\ MaxRounds \in Nat /\ MaxRounds + 1 \in Nat /\ (MaxRounds + 1) - 1 = MaxRounds
      /\ BucketCount \in Nat /\ CountModulus \in Nat \ {0}
  BY MaxRoundsAssumption, BucketCountAssumption, ProgramAssumption
<1>1. \A v : Cardinality(Class(v)) \in 0 .. BucketCount
  <2> TAKE v
  <2>1. Class(v) \in SUBSET BucketIndex
    OBVIOUS
  <2>2. IsFiniteSet(Class(v)) /\ Cardinality(Class(v)) <= BucketCount
    BY <2>1, BucketsFinite, FS_Subset
  <2>3. Cardinality(Class(v)) \in Nat
    BY <2>2, FS_CardinalityType
  <2> QED
    BY <1>t, <2>2, <2>3
<1>2. \A v : Cardinality(Class(v)) % CountModulus = Cardinality(Class(v))
  <2>1. \A c \in 0 .. BucketCount : c % CountModulus = c
    BY <1>t
  <2> HIDE DEF Class
  <2> QED
    BY <1>1, <2>1
<1>3. DOMAIN seed_map = {seeds[b] : b \in BucketIndex}
  BY DEF seed_map
<1>4. \A v \in DOMAIN seed_map : seed_map[v] = Cardinality(Class(v))
  <2>1. \A v \in DOMAIN seed_map : seed_map[v] = Cardinality(Class(v)) % CountModulus
    BY DEF seed_map
  <2> QED
    BY <1>2, <2>1
<1>5. \A v \in 0 .. MaxRounds : v \notin DOMAIN seed_map => Cardinality(Class(v)) = 0
  <2> SUFFICES ASSUME NEW v, v \notin DOMAIN seed_map PROVE Cardinality(Class(v)) = 0
    OBVIOUS
  <2>1. Class(v) = {}
    BY <1>3
  <2> QED
    BY <2>1, FS_EmptySet
<1>6. DOMAIN seed_map \subseteq 0 .. MaxRounds
  BY <1>3
<1>7. mapped = Units
  <2> HIDE DEF Class
  <2>1. ASSUME NEW u, NEW v
        PROVE  /\ <<u, v>> \in mapped <=> u \in DOMAIN seed_map /\ v \in 1 .. BucketCount
                                          /\ v <= seed_map[u]
               /\ <<u, v>> \in Units <=> u \in 0 .. MaxRounds /\ v \in 1 .. BucketCount
                                         /\ v <= Cardinality(Class(u))
    BY <1>t
  <2>2. \A x : x \in mapped \/ x \in Units => x = <<x[1], x[2]>>
    OBVIOUS
  <2> HIDE DEF mapped, Units
  <2>3. \A u, v : <<u, v>> \in mapped <=> <<u, v>> \in Units
    <3> TAKE u, v
    <3>1. CASE u \in DOMAIN seed_map
      BY <1>4, <1>6, <2>1, <3>1
    <3>2. CASE u \notin DOMAIN seed_map
      BY <1>5, <2>1, <3>2
    <3> QED
      BY <3>1, <3>2
  <2>4. \A x : x \in mapped <=> x \in Units
    BY <2>2, <2>3
  <2> QED
    BY <2>4
<1>8. Total(seed_map, BucketCount) = Cardinality(Units)
  <2>1. Total(seed_map, BucketCount) = Cardinality(mapped)
    BY DEF Total
  <2> QED
    BY <1>7, <2>1, Zenon
<1>9. Cardinality(Units) = Cardinality({b \in BucketIndex : seeds[b] < MaxRounds + 1})
  <2>1. seeds \in [BucketIndex -> Nat]
    BY <1>t
  <2>2. \A m \in Nat :
           Cardinality(SizeUnits(BucketIndex, seeds, m, BucketCount))
           = Cardinality({d \in BucketIndex : seeds[d] < m})
    BY <2>1, BucketsFinite, ClassSizes, Zenon
  <2>3. Units = SizeUnits(BucketIndex, seeds, MaxRounds + 1, BucketCount)
    BY DEF SizeUnits, EqualTerms
  <2> QED
    BY <1>t, <2>2, <2>3, Zenon
<1>10. {b \in BucketIndex : seeds[b] < MaxRounds + 1} = BucketIndex
  BY <1>t
<1>11. Cardinality({b \in BucketIndex : seeds[b] < MaxRounds + 1}) = Cardinality(BucketIndex)
  BY <1>10, Zenon
<1> HIDE DEF Units
<1> QED
  BY <1>8, <1>9, <1>11, BucketsFinite

\* Totals, maximum and counts per seed are right, whatever the rounds were, while
\* the buckets can be counted in the type of the counts; and no bucket enters the
\* percentage that was not rehashed.
THEOREM StatisticsTrueHolds ==
    ASSUME BucketCount < CountModulus
    PROVE  ProgramSpec => []StatisticsTrue
<1>1. PInv => StatisticsTrue
  <2> SUFFICES ASSUME PInv, main = "export"
               PROVE  /\ total_rehash = Total(seeds, MaxRounds)
                      /\ \A b \in BucketIndex : seeds[b] <= num_rehashes
                      /\ \E b \in BucketIndex : seeds[b] = num_rehashes
                      /\ Total(seed_map, BucketCount) = BucketCount
                      /\ \A b \in rehashBSet : seeds[b] > 0
    BY DEF StatisticsTrue
  <2>1. /\ seeds \in [BucketIndex -> 0 .. MaxRounds]
        /\ num_lookup_rds \in 0 .. MaxRounds /\ MaxRounds \in Nat
        /\ false_queries = 0
    BY MaxRoundsAssumption DEF PInv, PTypes, ProgramTypeOK, RoundsTypeOK, AfterRounds
  <2>2. /\ num_lookup_rds > 0
        /\ \A b \in BucketIndex : seeds[b] <= num_lookup_rds /\ seeds[b] # num_lookup_rds
        /\ \E b \in BucketIndex : seeds[b] >= num_lookup_rds - 1
        /\ total_rehash = Total(seeds, num_lookup_rds - 1)
    BY <2>1 DEF PInv, InRound
  <2>3. num_rehashes \in Nat /\ num_rehashes <= MaxRounds
        /\ \A b \in BucketIndex : seeds[b] <= num_rehashes
    BY <2>1, <2>2 DEF num_rehashes
  <2>4. \E b \in BucketIndex : seeds[b] = num_rehashes
    BY <2>1, <2>2 DEF num_rehashes
  <2>5. Total(seeds, MaxRounds) = Total(seeds, num_rehashes)
    <3>1. seeds \in [BucketIndex -> Nat]
      BY <2>1
    <3> QED
      BY <2>1, <2>3, <3>1, TotalCapped
  <2>6. Total(seed_map, BucketCount) = BucketCount
    BY <2>1, SeedMapTotal
  <2> QED
    BY <2>2, <2>3, <2>4, <2>5, <2>6 DEF PInv, Marked, num_rehashes
<1> QED
  BY <1>1, ProgramInvariance, PTL

\* Uninitialized fingerprints are no wider than a tag, as zeroed memory is:
\* wider ones become tags of keys by losing bits.
NarrowGarbage == NoPartial < TagModulus

\* The tags are the exported fingerprints, and Contain looks for them where
\* lookup did.
LEMMA FilterHits ==
    ASSUME ~NDEBUG, NarrowGarbage, PInv, main = "done", NEW k \in Keys
    PROVE  Filter!Contain(k)
              <=> \E b \in BucketIndex : Hit(fp_table, filter_seeds, b, k)
<1>1. \A p \in Slots : tags[p] = fp_table[p]
  <2> SUFFICES ASSUME NEW p \in Slots PROVE tags[p] = fp_table[p]
    OBVIOUS
  <2>1. tags[p] = fp_table[p] % TagModulus
    BY CopyOrder DEF PInv, Copied
  <2>2. fp_table[p] \in Partials \union {NoPartial}
    BY DEF PInv, PTypes, ProgramTypeOK, PartialBytes
  <2>3. TagModulus \in Nat \ {0} /\ fp_table[p] \in 0 .. TagModulus - 1
    <3>1. /\ TagModulus \in Nat \ {0} /\ NoPartial \in 0 .. TagModulus - 1
          /\ Partials \subseteq 1 .. TagModulus - 1
      BY ProgramAssumption DEF NarrowGarbage
    <3>2. \A v \in 1 .. TagModulus - 1 : v \in 0 .. TagModulus - 1
      BY <3>1
    <3> QED
      BY <2>2, <3>1, <3>2
  <2>4. \A v \in 0 .. TagModulus - 1 : v % TagModulus = v
    BY <2>3
  <2> QED
    BY <2>1, <2>3, <2>4
<1>2. i1(k) \in BucketIndex /\ i2(k) \in BucketIndex
  BY AltHome
<1>3. Filter!TagSlots = Slots
  BY DEF Filter!TagSlots, Filter!TagBuckets, Slots, BucketIndex, SlotIndex
<1>4. \A b \in BucketIndex :
         Filter!HasTag(b, Filter!TagHash(k, b))
            <=> \E j \in SlotIndex : fp_table[<<b, j>>] = partial_key(k, filter_seeds[b])
  <2> SUFFICES ASSUME NEW b \in BucketIndex, NEW t
               PROVE  Filter!HasTag(b, t) <=> \E j \in SlotIndex : fp_table[<<b, j>>] = t
    BY DEF Filter!TagHash, partial_key
  <2>1. Filter!HasTag(b, t) <=> \E p \in Slots : p[1] = b /\ fp_table[p] = t
    BY <1>1, <1>3 DEF Filter!HasTag
  <2>2. \A p \in Slots : p = <<p[1], p[2]>> /\ p[2] \in SlotIndex
    BY DEF Slots
  <2>3. \A j \in SlotIndex : <<b, j>> \in Slots /\ <<b, j>>[1] = b
    BY DEF Slots
  <2> QED
    BY <2>1, <2>2, <2>3
<1>5. Filter!IndexHash(k) = i1(k) /\ Filter!AltIndexItem(i1(k), k) = i2(k)
  BY DEF Filter!IndexHash, Filter!AltIndexItem, i1, i2, index_hash, alt_index
<1>6. Filter!Contain(k) <=> \/ Filter!HasTag(i1(k), Filter!TagHash(k, i1(k)))
                           \/ Filter!HasTag(i2(k), Filter!TagHash(k, i2(k)))
  BY <1>5 DEF Filter!Contain
<1> QED
  BY <1>2, <1>4, <1>6 DEF Hit, Home

\* The filter holds every key of r and no key of s, however many rounds it took
\* and however large the table is, in spite of the false negatives that comments
\* in example.cc report:
\* where the copying is not compiled out with the assertion around it, and no
\* uninitialized fingerprint is wider than a tag.
THEOREM FilterSeparatesHolds ==
    ASSUME ~NDEBUG, NarrowGarbage
    PROVE  ProgramSpec => []FilterSeparates
<1>1. PInv => FilterSeparates
  <2> SUFFICES ASSUME PInv, main = "done"
               PROVE  /\ \A k \in RKeys : Filter!Contain(k)
                      /\ \A k \in SKeys : ~Filter!Contain(k)
    BY DEF FilterSeparates
  <2>1. RKeys \subseteq Keys /\ SKeys \subseteq Keys
    BY VectorTypes DEF PInv, PTypes
  <2>2. Separates(fp_table, filter_seeds)
    BY DEF PInv, Copied
  <2>3. \A k \in Keys : Filter!Contain(k)
                          <=> \E b \in BucketIndex : Hit(fp_table, filter_seeds, b, k)
    BY FilterHits
  <2> QED
    BY <2>1, <2>2, <2>3 DEF Separates
<1> QED
  BY <1>1, ProgramInvariance, PTL

\* For every key, also one of neither vector, the filter answers as the table
\* would.
THEOREM FilterAgreesHolds ==
    ASSUME ~NDEBUG, NarrowGarbage
    PROVE  ProgramSpec => []FilterAgrees
<1>1. PInv => FilterAgrees
  <2> SUFFICES ASSUME PInv, main = "done", NEW k \in Keys
               PROVE  Filter!Contain(k) <=> TableFinds(k)
    BY DEF FilterAgrees
  <2>1. Filter!Contain(k) <=> \E b \in BucketIndex : Hit(fp_table, filter_seeds, b, k)
    BY FilterHits
  <2>2. Home(k) \subseteq BucketIndex
    BY AltHome DEF Home
  <2> QED
    BY <2>1, <2>2 DEF Hit, TableFinds
<1> QED
  BY <1>1, ProgramInvariance, PTL

================================================================================
