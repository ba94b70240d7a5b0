------------------------ MODULE CuckooHashtable_proofs ------------------------
(***************************************************************************)
(* Proofs about CuckooHashtable, in three parts.                           *)
(*  1. For every table size, every hash and every path length, no insert   *)
(*     loses, duplicates or misplaces a key, and the table implements      *)
(*     KeySet.                                                             *)
(*  2. slot_search never overruns the array of b_queue, and an insert that *)
(*     fails has looked at every bucket a path of evictions reaches, for   *)
(*     every width of the pathcode.                                        *)
(*  3. In a table whose pathcode is wide enough the path the search found  *)
(*     is decoded as it was found, it can be moved along at once and to    *)
(*     its end, and no moved key leaves its bytes in a slot find reads.    *)
(***************************************************************************)
EXTENDS CuckooHashtable, NatFacts

\* The memory buckets are made of holds no key.
NoStaleKeys == GarbageKeys \intersect Keys = {}

------------------------------------------------------------------------------
(* Facts about hashes and storage.                                          *)

\* The two buckets of a key are buckets, and alt_index leads from each to the
\* other.
LEMMA AltHome ==
    ASSUME NEW k \in Keys
    PROVE  /\ i1(k) \in BucketIndex
           /\ i2(k) \in BucketIndex
           /\ \A b \in Home(k) : alt_index(k, b) \in Home(k)
<1>1. k \in KeyBytes
  BY DEF KeyBytes
<1>2. HashIndex[k] \in BucketIndex /\ AltIndex[k][HashIndex[k]] \in BucketIndex
  BY <1>1, HashAssumption
<1>3. AltIndex[k][AltIndex[k][HashIndex[k]]] = HashIndex[k]
  BY <1>2, HashAssumption
<1> QED
  BY <1>2, <1>3 DEF i1, i2, Home, alt_index, index_hash

\* Writing a key into a slot that is not occupied adds that slot and that key,
\* and changes no other stored key.
LEMMA SetAdds ==
    ASSUME StorageTypeOK, NEW p \in Slots, ~occupied[p],
           NEW fp, NEW k, setK(p, fp, k)
    PROVE  /\ OccupiedSlots' = OccupiedSlots \union {p}
           /\ StoredKeys' = StoredKeys \union {k}
           /\ keys'[p] = k /\ partials'[p] = fp
           /\ \A q \in OccupiedSlots : keys'[q] = keys[q] /\ partials'[q] = partials[q]
<1>1. /\ occupied' = [occupied EXCEPT ![p] = TRUE]
      /\ keys' = [keys EXCEPT ![p] = k]
      /\ partials' = [partials EXCEPT ![p] = fp]
  BY DEF setK
<1>2. /\ occupied \in [Slots -> BOOLEAN]
      /\ keys \in [Slots -> KeyBytes]
      /\ partials \in [Slots -> PartialBytes]
  BY DEF StorageTypeOK
<1>3. OccupiedSlots' = OccupiedSlots \union {p}
  BY <1>1, <1>2 DEF OccupiedSlots
<1>4. keys'[p] = k /\ partials'[p] = fp
  BY <1>1, <1>2
<1>5. \A q \in OccupiedSlots : keys'[q] = keys[q] /\ partials'[q] = partials[q]
  BY <1>1, <1>2 DEF OccupiedSlots
<1>6. StoredKeys' = StoredKeys \union {k}
  BY <1>3, <1>4, <1>5 DEF StoredKeys
<1> QED
  BY <1>3, <1>4, <1>5, <1>6

\* Moving an item from an occupied slot to one that is not occupied changes
\* where it is, and neither the stored keys nor any other item.
LEMMA MoveKeeps ==
    ASSUME StorageTypeOK, NEW from \in Slots, NEW to \in Slots,
           occupied[from], ~occupied[to], setK_eraseK(from, to)
    PROVE  /\ OccupiedSlots' = (OccupiedSlots \ {from}) \union {to}
           /\ StoredKeys' = StoredKeys
           /\ keys'[to] = keys[from] /\ partials'[to] = partials[from]
           /\ \A q \in OccupiedSlots : keys'[q] = keys[q] /\ partials'[q] = partials[q]
<1>1. /\ occupied' = [occupied EXCEPT ![to] = TRUE, ![from] = FALSE]
      /\ keys' = [keys EXCEPT ![to] = keys[from]]
      /\ partials' = [partials EXCEPT ![to] = partials[from]]
  BY DEF setK_eraseK
<1>2. /\ occupied \in [Slots -> BOOLEAN]
      /\ keys \in [Slots -> KeyBytes]
      /\ partials \in [Slots -> PartialBytes]
  BY DEF StorageTypeOK
<1>3. to # from
  OBVIOUS
<1>4. OccupiedSlots' = (OccupiedSlots \ {from}) \union {to}
  BY <1>1, <1>2, <1>3 DEF OccupiedSlots
<1>5. keys'[to] = keys[from] /\ partials'[to] = partials[from]
  BY <1>1, <1>2
<1>6. \A q \in OccupiedSlots : keys'[q] = keys[q] /\ partials'[q] = partials[q]
  BY <1>1, <1>2 DEF OccupiedSlots
<1>7. from \in OccupiedSlots
  BY DEF OccupiedSlots
<1>8. StoredKeys' = StoredKeys
  BY <1>4, <1>5, <1>6, <1>7 DEF StoredKeys
<1> QED
  BY <1>4, <1>5, <1>6, <1>8

------------------------------------------------------------------------------
(* Type correctness.                                                        *)

\* Positions of path records and of scanned slots are slots of the table.
LEMMA ScanSlotType ==
    ASSUME NEW x \in b_slot, NEW n \in Nat
    PROVE  ScanSlot(x, n) \in SlotIndex
BY SlotPerBucketAssumption DEF ScanSlot, SlotIndex, b_slot

LEMMA ExtendType ==
    ASSUME NEW x \in b_slot, NEW s \in SlotIndex
    PROVE  Extend(x, s) \in Nat
<1>1. PathcodeMax \in Nat /\ SlotPerBucket \in Nat /\ x.pathcode \in Nat /\ s \in Nat
  BY PathcodeMaxAssumption, SlotPerBucketAssumption DEF SlotIndex, b_slot
<1>2. x.pathcode * SlotPerBucket + s \in Nat
  BY <1>1
<1> QED
  BY <1>1, <1>2 DEF Extend

LEMMA RootsType ==
    ASSUME NEW k \in Keys
    PROVE  Roots(k) \in Seq(b_slot)
<1>1. 0 \in PathIndex
  BY PathLenAssumption DEF PathIndex
<1> QED
  BY <1>1, AltHome DEF Roots, b_slot

LEMMA ChildrenType ==
    ASSUME TypeOK, NEW x \in b_slot, x.depth < MAX_BFS_PATH_LEN - 1
    PROVE  Children(x) \in Seq(b_slot)
<1>1. ASSUME NEW n \in 1 .. SlotPerBucket
      PROVE  Child(x, ScanSlot(x, n - 1)) \in b_slot
  <2> DEFINE s == ScanSlot(x, n - 1)
  <2>1. n - 1 \in Nat
    OBVIOUS
  <2>2. s \in SlotIndex
    BY <2>1, ScanSlotType
  <2>3. Extend(x, s) \in Nat
    BY <2>2, ExtendType
  <2>4. <<x.bucket, s>> \in Slots /\ x.bucket \in BucketIndex
    BY <2>2 DEF Slots, b_slot
  <2>5. keys[<<x.bucket, s>>] \in KeyBytes
    BY <2>4 DEF TypeOK, StorageTypeOK
  <2>6. alt_index(keys[<<x.bucket, s>>], x.bucket) \in BucketIndex
    BY <2>4, <2>5, HashAssumption DEF alt_index
  <2>7. x.depth + 1 \in PathIndex
    BY PathLenAssumption DEF PathIndex, b_slot
  <2> HIDE DEF s
  <2> QED
    BY <2>3, <2>6, <2>7 DEF Child, b_slot, s
<1> QED
  BY <1>1, SlotPerBucketAssumption DEF Children

\* Values every call leaves its locals with.
LEMMA LocalTypes ==
    /\ 0 \in PathIndex
    /\ NoKey \in KeyBytes
    /\ NoSlots \in Seq(b_slot)
    /\ NoPath \in [PathIndex -> CuckooRecord]
    /\ <<0, 0>> \in Slots
<1>1. 0 \in PathIndex /\ 0 \in BucketIndex /\ 0 \in SlotIndex
  BY PathLenAssumption, BucketCountAssumption, SlotPerBucketAssumption
     DEF PathIndex, BucketIndex, SlotIndex
<1>2. NoRecord \in CuckooRecord
  BY <1>1 DEF NoRecord, CuckooRecord, KeyBytes
<1> QED
  BY <1>1, <1>2 DEF NoPath, NoSlots, KeyBytes, Slots

LEMMA ReturnType ==
    ASSUME NEW status \in {"ok", "failure_key_duplicated", "failure_table_full"},
           NEW k \in KeyBytes, NEW p \in Slots, Return(status, k, p)
    PROVE  /\ pc' = "idle" /\ pc' \in PC
           /\ key' \in KeyBytes
           /\ slots' \in Seq(b_slot)
           /\ first' \in Nat \ {0}
           /\ code' \in Nat
           /\ path' \in [PathIndex -> CuckooRecord]
           /\ depth' \in PathIndex
           /\ i' \in PathIndex
           /\ ret' \in Outcome
BY LocalTypes DEF Return, PC, Outcome

LEMMA SetType ==
    ASSUME StorageTypeOK, NEW p \in Slots, NEW fp \in Partials, NEW k \in Keys,
           setK(p, fp, k)
    PROVE  StorageTypeOK'
BY DEF StorageTypeOK, setK, KeyBytes, PartialBytes

LEMMA MoveType ==
    ASSUME StorageTypeOK, NEW from \in Slots, NEW to \in Slots,
           setK_eraseK(from, to)
    PROVE  StorageTypeOK'
BY DEF StorageTypeOK, setK_eraseK

LEMMA AtType ==
    ASSUME TypeOK, NEW n \in PathIndex
    PROVE  At(path[n]) \in Slots
BY DEF TypeOK, CuckooRecord, At, Slots

\* The key of the call in progress is a key of the client.
KeyOK == pc # "idle" => key \in Keys

LEMMA PathBucketType ==
    ASSUME TypeOK, key \in Keys
    PROVE  PathBucket \in BucketIndex
<1>1. CASE i = 0
  BY <1>1, AltHome DEF PathBucket
<1>2. CASE i # 0
  <2>1. i - 1 \in PathIndex
    BY <1>2, PathLenAssumption DEF TypeOK, PathIndex
  <2>2. path[i - 1].key \in KeyBytes /\ path[i - 1].bucket \in BucketIndex
    BY <2>1 DEF TypeOK, CuckooRecord
  <2> QED
    BY <1>2, <2>2, HashAssumption DEF PathBucket, alt_index
<1> QED
  BY <1>1, <1>2

LEMMA TypeInit == Init => TypeOK /\ KeyOK
<1> SUFFICES ASSUME Init PROVE TypeOK /\ KeyOK
  OBVIOUS
<1>1. StorageTypeOK
  BY BytesAssumption DEF Init, StorageInit, StorageTypeOK, KeyBytes, PartialBytes
<1>2. ret \in Outcome
  BY LocalTypes DEF Init, Outcome
<1> QED
  BY <1>1, <1>2, LocalTypes DEF Init, TypeOK, KeyOK, PC

LEMMA TypeStep == TypeOK /\ KeyOK /\ [Next]_vars => TypeOK' /\ KeyOK'
<1> SUFFICES ASSUME TypeOK, KeyOK, [Next]_vars PROVE TypeOK' /\ KeyOK'
  OBVIOUS
<1> USE DEF storage
<1>1. ASSUME NEW k \in Keys, InsertDuplicate(k) PROVE TypeOK' /\ KeyOK'
  <2>1. PICK b \in BucketIndex, s \in SlotIndex :
            Return("failure_key_duplicated", k, <<b, s>>)
    BY <1>1 DEF InsertDuplicate
  <2>2. k \in KeyBytes /\ <<b, s>> \in Slots
    BY DEF KeyBytes, Slots
  <2> QED
    BY <1>1, <2>1, <2>2, ReturnType DEF InsertDuplicate, TypeOK, StorageTypeOK, KeyOK
<1>2. ASSUME NEW k \in Keys, InsertDirect(k) PROVE TypeOK' /\ KeyOK'
  <2>1. PICK b \in BucketIndex, s \in SlotIndex :
            /\ setK(<<b, s>>, partial_key(k, 0), k)
            /\ Return("ok", k, <<b, s>>)
    BY <1>2 DEF InsertDirect
  <2>2. k \in KeyBytes /\ <<b, s>> \in Slots
    BY DEF KeyBytes, Slots
  <2>3. partial_key(k, 0) \in Partials
    BY HashAssumption DEF partial_key
  <2>4. StorageTypeOK'
    BY <2>1, <2>2, <2>3, SetType DEF TypeOK
  <2>5. num_items' \in Nat
    BY <1>2 DEF InsertDirect, TypeOK
  <2> QED
    BY <2>1, <2>2, <2>4, <2>5, ReturnType DEF TypeOK, KeyOK
<1>3. ASSUME NEW k \in Keys, RunCuckoo(k) PROVE TypeOK' /\ KeyOK'
  BY <1>3, RootsType DEF RunCuckoo, TypeOK, StorageTypeOK, KeyOK, PC, KeyBytes
<1>4. ASSUME SearchFound PROVE TypeOK' /\ KeyOK'
  <2> DEFINE x == slots[first]
  <2>1. x \in b_slot
    BY <1>4 DEF SearchFound, TypeOK
  <2>2. PICK n \in SlotIndex : /\ code' = Extend(x, ScanSlot(x, n))
                               /\ depth' = x.depth
                               /\ i' = x.depth
    BY <1>4 DEF SearchFound
  <2>3. n \in Nat
    BY DEF SlotIndex
  <2>4. code' \in Nat
    BY <2>1, <2>2, <2>3, ScanSlotType, ExtendType
  <2>5. depth' \in PathIndex /\ i' \in PathIndex
    BY <2>1, <2>2 DEF b_slot
  <2> HIDE DEF x
  <2> QED
    BY <1>4, <2>4, <2>5, LocalTypes DEF SearchFound, TypeOK, StorageTypeOK, KeyOK, PC
<1>5. ASSUME SearchExpand PROVE TypeOK' /\ KeyOK'
  <2> DEFINE x == slots[first]
  <2>1. x \in b_slot
    BY <1>5 DEF SearchExpand, TypeOK
  <2>2. slots' = IF x.depth < MAX_BFS_PATH_LEN - 1 THEN slots \o Children(x) ELSE slots
    BY <1>5 DEF SearchExpand, CanExtend
  <2>3. slots \in Seq(b_slot)
    BY DEF TypeOK
  <2> HIDE DEF x
  <2>4. slots' \in Seq(b_slot)
    <3>1. CASE x.depth < MAX_BFS_PATH_LEN - 1
      <4>1. Children(x) \in Seq(b_slot)
        BY <2>1, <3>1, ChildrenType
      <4> QED
        BY <2>2, <2>3, <3>1, <4>1
    <3> QED
      BY <2>2, <2>3, <3>1
  <2> QED
    BY <1>5, <2>4 DEF SearchExpand, TypeOK, StorageTypeOK, KeyOK
<1>6. ASSUME SearchFail PROVE TypeOK' /\ KeyOK'
  <2>1. Return("failure_table_full", key, <<0, 0>>) /\ key \in KeyBytes
    BY <1>6 DEF SearchFail, TypeOK
  <2> QED
    BY <1>6, <2>1, LocalTypes, ReturnType DEF SearchFail, TypeOK, StorageTypeOK, KeyOK
<1>7. ASSUME DecodeStep PROVE TypeOK' /\ KeyOK'
  <2>1. code % SlotPerBucket \in SlotIndex /\ code \div SlotPerBucket \in Nat
    BY SlotPerBucketAssumption DEF TypeOK, SlotIndex
  <2>2. path' \in [PathIndex -> CuckooRecord]
    BY <1>7, <2>1 DEF DecodeStep, TypeOK, CuckooRecord
  <2>3. i' \in PathIndex
    BY <1>7, PathLenAssumption DEF DecodeStep, TypeOK, PathIndex
  <2> QED
    BY <1>7, <2>1, <2>2, <2>3 DEF DecodeStep, TypeOK, StorageTypeOK, KeyOK, PC
<1>8. ASSUME PathStep PROVE TypeOK' /\ KeyOK'
  <2> DEFINE p == <<PathBucket, path[i].slot>>
  <2>1. key \in Keys /\ i \in PathIndex
    BY <1>8 DEF PathStep, KeyOK, TypeOK
  <2>2. PathBucket \in BucketIndex
    BY <2>1, PathBucketType
  <2>3. p \in Slots
    BY <2>1, <2>2 DEF TypeOK, CuckooRecord, Slots
  <2>4. keys[p] \in KeyBytes
    BY <2>3 DEF TypeOK, StorageTypeOK
  <2>5. path' = [path EXCEPT ![i].bucket = PathBucket,
                             ![i].key = IF occupied[p] THEN keys[p] ELSE @]
    BY <1>8 DEF PathStep
  <2> HIDE DEF p
  <2>6. path' \in [PathIndex -> CuckooRecord]
    BY <2>1, <2>2, <2>4, <2>5 DEF TypeOK, CuckooRecord
  <2>7. i' \in PathIndex /\ depth' \in PathIndex
    BY <1>8, PathLenAssumption DEF PathStep, TypeOK, PathIndex
  <2> QED
    BY <1>8, <2>6, <2>7 DEF PathStep, TypeOK, StorageTypeOK, KeyOK, PC
<1>9. ASSUME MoveStep PROVE TypeOK' /\ KeyOK'
  <2>1. StorageTypeOK' /\ depth' \in PathIndex
    <3>1. CASE depth = 0
      BY <1>9, <3>1 DEF MoveStep, TypeOK, StorageTypeOK
    <3>2. CASE depth # 0
      <4>1. depth \in PathIndex /\ depth - 1 \in PathIndex
        BY <3>2, PathLenAssumption DEF TypeOK, PathIndex
      <4>2. At(path[depth - 1]) \in Slots /\ At(path[depth]) \in Slots
        BY <4>1, AtType
      <4> QED
        BY <1>9, <3>2, <4>1, <4>2, MoveType DEF MoveStep, TypeOK
    <3> QED
      BY <3>1, <3>2
  <2> QED
    BY <1>9, <2>1 DEF MoveStep, TypeOK, KeyOK, PC
<1>10. ASSUME MoveFail PROVE TypeOK' /\ KeyOK'
  <2>1. Roots(key) \in Seq(b_slot)
    BY <1>10, RootsType DEF MoveFail, KeyOK
  <2> QED
    BY <1>10, <2>1, LocalTypes DEF MoveFail, TypeOK, StorageTypeOK, KeyOK, PC
<1>11. ASSUME AddToBucket PROVE TypeOK' /\ KeyOK'
  <2>1. key \in Keys /\ key \in KeyBytes
    BY <1>11 DEF AddToBucket, KeyOK, TypeOK
  <2>2. At(path[0]) \in Slots
    BY LocalTypes, AtType
  <2>3. partial_key(key, 0) \in Partials
    BY <2>1, HashAssumption DEF partial_key
  <2>4. StorageTypeOK'
    BY <1>11, <2>1, <2>2, <2>3, SetType DEF AddToBucket, TypeOK
  <2>5. num_items' \in Nat /\ Return("ok", key, At(path[0]))
    BY <1>11 DEF AddToBucket, TypeOK
  <2> QED
    BY <2>1, <2>2, <2>4, <2>5, ReturnType DEF TypeOK, KeyOK
<1>12. CASE UNCHANGED vars
  BY <1>12 DEF vars, TypeOK, StorageTypeOK, KeyOK
<1> QED
  BY <1>1, <1>2, <1>3, <1>4, <1>5, <1>6, <1>7, <1>8, <1>9, <1>10, <1>11, <1>12
     DEF Next, Call, Step

\* Every variable keeps its type: in particular every record of a decoded
\* path is a slot of the table and the depth never exceeds the path's length.
THEOREM TypeCorrect == Spec => []TypeOK
<1>1. Spec => [](TypeOK /\ KeyOK)
  BY TypeInit, TypeStep, PTL DEF Spec
<1> QED
  BY <1>1, PTL

------------------------------------------------------------------------------
(* The inductive invariant.                                                 *)

StoredAreKeys == StoredKeys \subseteq Keys

\* What the items in the table satisfy at every step.
Placed == StoredAreKeys /\ KeyHome /\ NoDuplicates /\ PartialsMatch

\* The key of the call in progress is not in the table.  The duplicate check
\* looked at its two buckets only: KeyHome makes that enough.
PendingNew == pc # "idle" => key \notin StoredKeys

\* The first n records of the path each name an item that may move to the
\* bucket of the next record.
Linked(n) ==
    \A j \in 1 .. n : /\ path[j - 1].key \in Keys
                      /\ path[j - 1].bucket \in Home(path[j - 1].key)
                      /\ path[j].bucket = alt_index(path[j - 1].key, path[j - 1].bucket)

PathOK ==
    /\ pc = "decode" => i <= depth
    /\ pc = "cuckoopath_search" =>
          /\ i <= depth
          /\ i > 0 => /\ path[0].bucket \in Home(key)
                      /\ Linked(i - 1)
                      /\ path[i - 1].key \in Keys
                      /\ path[i - 1].bucket \in Home(path[i - 1].key)
    /\ pc = "cuckoopath_move" => path[0].bucket \in Home(key) /\ Linked(depth)
    /\ pc = "add_to_bucket" => /\ path[0].bucket \in Home(key)
                               /\ ~occupied[At(path[0])]

IInv == TypeOK /\ KeyOK /\ Placed /\ NumItemsExact /\ PendingNew /\ PathOK

LEMMA FiniteSlots ==
    ASSUME NEW S \in SUBSET Slots
    PROVE  IsFiniteSet(S)
<1>1. IsFiniteSet(BucketIndex) /\ IsFiniteSet(SlotIndex)
  BY FS_Interval, BucketCountAssumption, SlotPerBucketAssumption
     DEF BucketIndex, SlotIndex
<1>2. IsFiniteSet(Slots)
  BY <1>1, FS_Product DEF Slots
<1> QED
  BY <1>2, FS_Subset

LEMMA OccupiedFinite == IsFiniteSet(OccupiedSlots)
BY FiniteSlots DEF OccupiedSlots

LEMMA AddPlaced ==
    ASSUME StorageTypeOK, Placed, NumItemsExact,
           NEW p \in Slots, ~occupied[p],
           NEW k \in Keys, k \notin StoredKeys, p[1] \in Home(k),
           setK(p, partial_key(k, 0), k), num_items' = num_items + 1
    PROVE  Placed' /\ NumItemsExact'
<1>1. /\ OccupiedSlots' = OccupiedSlots \union {p}
      /\ StoredKeys' = StoredKeys \union {k}
      /\ keys'[p] = k /\ partials'[p] = partial_key(k, 0)
      /\ \A q \in OccupiedSlots : keys'[q] = keys[q] /\ partials'[q] = partials[q]
  BY SetAdds
<1>2. StoredAreKeys' /\ KeyHome' /\ PartialsMatch'
  BY <1>1 DEF Placed, StoredAreKeys, KeyHome, PartialsMatch
<1>3. NoDuplicates'
  <2>1. \A q \in OccupiedSlots : keys[q] # k
    BY DEF StoredKeys
  <2> QED
    BY <1>1, <2>1 DEF Placed, NoDuplicates
<1>4. NumItemsExact'
  <2>1. p \notin OccupiedSlots
    BY DEF OccupiedSlots
  <2> QED
    BY <1>1, <2>1, OccupiedFinite, FS_AddElement DEF NumItemsExact
<1> QED
  BY <1>2, <1>3, <1>4 DEF Placed

LEMMA MovePlaced ==
    ASSUME StorageTypeOK, Placed, NumItemsExact,
           NEW from \in Slots, NEW to \in Slots, occupied[from], ~occupied[to],
           to[1] \in Home(keys[from]),
           setK_eraseK(from, to), num_items' = num_items
    PROVE  Placed' /\ NumItemsExact'
<1>1. /\ OccupiedSlots' = (OccupiedSlots \ {from}) \union {to}
      /\ StoredKeys' = StoredKeys
      /\ keys'[to] = keys[from] /\ partials'[to] = partials[from]
      /\ \A q \in OccupiedSlots : keys'[q] = keys[q] /\ partials'[q] = partials[q]
  BY MoveKeeps
<1>2. from \in OccupiedSlots /\ to \notin OccupiedSlots
  BY DEF OccupiedSlots
<1>3. StoredAreKeys' /\ KeyHome' /\ PartialsMatch'
  BY <1>1, <1>2 DEF Placed, StoredAreKeys, KeyHome, PartialsMatch
<1>4. NoDuplicates'
  BY <1>1, <1>2 DEF Placed, NoDuplicates
<1>5. NumItemsExact'
  <2> DEFINE rest == OccupiedSlots \ {from}
  <2>1. IsFiniteSet(rest) /\ Cardinality(rest) = Cardinality(OccupiedSlots) - 1
    BY <1>2, OccupiedFinite, FS_RemoveElement
  <2>2. to \notin rest
    BY <1>2
  <2>3. Cardinality(rest \union {to}) = Cardinality(rest) + 1
    BY <2>1, <2>2, FS_AddElement
  <2>4. Cardinality(OccupiedSlots) \in Nat
    BY OccupiedFinite, FS_CardinalityType
  <2> QED
    BY <1>1, <2>1, <2>3, <2>4 DEF NumItemsExact
<1> QED
  BY <1>3, <1>4, <1>5 DEF Placed

\* With every item in one of its two buckets, a key that neither of its
\* buckets holds is not in the table.
LEMMA NotStored ==
    ASSUME TypeOK, Placed, NEW k \in Keys,
           ~HoldsKey(i1(k), k), ~HoldsKey(i2(k), k)
    PROVE  k \notin StoredKeys
<1> SUFFICES ASSUME NEW p \in OccupiedSlots, keys[p] = k PROVE FALSE
  BY DEF StoredKeys
<1>1. p \in BucketIndex \X SlotIndex /\ occupied[p] /\ p[1] \in Home(k)
  BY DEF OccupiedSlots, Slots, Placed, KeyHome
<1>2. p = <<p[1], p[2]>> /\ p[2] \in SlotIndex
  BY <1>1
<1>3. HoldsKey(p[1], k)
  BY <1>1, <1>2 DEF HoldsKey
<1> QED
  BY <1>1, <1>3 DEF Home

LEMMA UnchangedPlaced ==
    ASSUME Placed, NumItemsExact, UNCHANGED <<storage, num_items>>
    PROVE  Placed' /\ NumItemsExact' /\ StoredKeys' = StoredKeys
BY DEF Placed, NumItemsExact, StoredAreKeys, KeyHome, NoDuplicates,
       PartialsMatch, StoredKeys, OccupiedSlots, storage

LEMMA IInvInit == Init => IInv
<1> SUFFICES ASSUME Init PROVE IInv
  OBVIOUS
<1>1. TypeOK /\ KeyOK
  BY TypeInit
<1>2. OccupiedSlots = {} /\ StoredKeys = {}
  BY DEF Init, StorageInit, OccupiedSlots, StoredKeys
<1>3. Placed
  BY <1>2 DEF Placed, StoredAreKeys, KeyHome, NoDuplicates, PartialsMatch
<1>4. NumItemsExact
  BY <1>2, FS_EmptySet DEF NumItemsExact, Init
<1> QED
  BY <1>1, <1>3, <1>4 DEF Init, IInv, PendingNew, PathOK

LEMMA IInvStep == IInv /\ [Next]_vars => IInv'
<1> SUFFICES ASSUME IInv, [Next]_vars PROVE IInv'
  OBVIOUS
<1>a. TypeOK' /\ KeyOK'
  BY TypeStep DEF IInv
<1>b. TypeOK /\ KeyOK /\ Placed /\ NumItemsExact /\ StorageTypeOK /\ PathOK
  BY DEF IInv, TypeOK
<1>c. ASSUME UNCHANGED <<storage, num_items>>
      PROVE  Placed' /\ NumItemsExact' /\ StoredKeys' = StoredKeys
  BY <1>b, <1>c, UnchangedPlaced
<1>1. ASSUME NEW k \in Keys, InsertDuplicate(k) PROVE IInv'
  <2>1. pc' = "idle" /\ UNCHANGED <<storage, num_items>>
    BY <1>1 DEF InsertDuplicate, Return
  <2> QED
    BY <1>a, <1>c, <2>1 DEF IInv, PendingNew, PathOK
<1>2. ASSUME NEW k \in Keys, InsertDirect(k) PROVE IInv'
  <2>1. PICK b \in BucketIndex, s \in SlotIndex :
            /\ EmptyAt(k, b, s)
            /\ setK(<<b, s>>, partial_key(k, 0), k)
            /\ Return("ok", k, <<b, s>>)
    BY <1>2 DEF InsertDirect
  <2>2. <<b, s>> \in Slots /\ ~occupied[<<b, s>>] /\ <<b, s>>[1] \in Home(k)
    BY <2>1 DEF EmptyAt, Slots
  <2>3. k \notin StoredKeys
    BY <1>b, <2>1, NotStored DEF EmptyAt
  <2>4. num_items' = num_items + 1
    BY <1>2 DEF InsertDirect
  <2>5. Placed' /\ NumItemsExact'
    BY <1>b, <2>1, <2>2, <2>3, <2>4, AddPlaced
  <2> QED
    BY <1>a, <2>1, <2>5 DEF IInv, PendingNew, PathOK, Return
<1>3. ASSUME NEW k \in Keys, RunCuckoo(k) PROVE IInv'
  <2>1. k \notin StoredKeys
    BY <1>3, <1>b, NotStored DEF RunCuckoo
  <2>2. pc' = "slot_search" /\ key' = k /\ UNCHANGED <<storage, num_items>>
    BY <1>3 DEF RunCuckoo
  <2> QED
    BY <1>a, <1>c, <2>1, <2>2 DEF IInv, PendingNew, PathOK
<1>4. ASSUME SearchFound PROVE IInv'
  <2>1. /\ pc = "slot_search" /\ pc' = "decode" /\ i' = depth' /\ key' = key
        /\ UNCHANGED <<storage, num_items>>
    BY <1>4 DEF SearchFound
  <2>2. i' <= depth'
    BY <1>a, <2>1 DEF TypeOK, PathIndex
  <2> QED
    BY <1>a, <1>c, <2>1, <2>2 DEF IInv, PendingNew, PathOK
<1>5. ASSUME SearchExpand PROVE IInv'
  <2>1. /\ pc = "slot_search" /\ pc' = pc /\ key' = key
        /\ UNCHANGED <<storage, num_items>>
    BY <1>5 DEF SearchExpand
  <2> QED
    BY <1>a, <1>c, <2>1 DEF IInv, PendingNew, PathOK
<1>6. ASSUME SearchFail PROVE IInv'
  <2>1. pc' = "idle" /\ UNCHANGED <<storage, num_items>>
    BY <1>6 DEF SearchFail, Return
  <2> QED
    BY <1>a, <1>c, <2>1 DEF IInv, PendingNew, PathOK
<1>7. ASSUME DecodeStep PROVE IInv'
  <2>1. /\ pc = "decode" /\ key' = key /\ depth' = depth
        /\ UNCHANGED <<storage, num_items>>
        /\ \/ i' = i - 1 /\ pc' = "decode"
           \/ i' = 0 /\ pc' = "cuckoopath_search"
    BY <1>7 DEF DecodeStep
  <2>2. i' <= depth'
    BY <1>b, <2>1 DEF PathOK, TypeOK, PathIndex
  <2>3. PathOK'
    BY <2>1, <2>2 DEF PathOK
  <2> QED
    BY <1>a, <1>c, <2>1, <2>3 DEF IInv, PendingNew
<1>8. ASSUME PathStep PROVE IInv'
  <2> DEFINE p == <<PathBucket, path[i].slot>>
             NewLinked(n) ==
                \A j \in 1 .. n :
                    /\ path'[j - 1].key \in Keys
                    /\ path'[j - 1].bucket \in Home(path'[j - 1].key)
                    /\ path'[j].bucket =
                         alt_index(path'[j - 1].key, path'[j - 1].bucket)
  <2>1. /\ pc = "cuckoopath_search" /\ key' = key
        /\ UNCHANGED <<storage, num_items>>
        /\ i \in PathIndex /\ i <= depth /\ depth \in PathIndex /\ key \in Keys
    BY <1>8, <1>b DEF PathStep, PathOK, KeyOK, TypeOK
  <2>2. p \in Slots
    BY <2>1, <1>b, PathBucketType DEF TypeOK, CuckooRecord, Slots
  <2>3. /\ path \in [PathIndex -> CuckooRecord]
        /\ path' = [path EXCEPT ![i].bucket = PathBucket,
                                ![i].key = IF occupied[p] THEN keys[p] ELSE @]
    BY <1>8 DEF PathStep, TypeOK, IInv
  <2>4. /\ path'[i].bucket = PathBucket
        /\ occupied[p] => path'[i].key = keys[p]
        /\ \A j \in PathIndex : j # i => path'[j] = path[j]
    <3> HIDE DEF p
    <3> QED
      BY <2>1, <2>3 DEF CuckooRecord
  <2>5. occupied[p] => path'[i].key \in Keys /\ path'[i].bucket \in Home(path'[i].key)
    <3> SUFFICES ASSUME occupied[p] PROVE keys[p] \in Keys /\ PathBucket \in Home(keys[p])
      BY <2>4
    <3>1. p \in OccupiedSlots /\ p[1] = PathBucket
      BY <2>2 DEF OccupiedSlots
    <3> QED
      BY <1>b, <3>1 DEF Placed, KeyHome, StoredAreKeys, StoredKeys
  <2>6. path'[0].bucket \in Home(key) /\ NewLinked(i)
    <3>1. CASE i = 0
      <4>1. PathBucket \in Home(key)
        BY <3>1 DEF PathBucket, Home
      <4>2. NewLinked(0)
        OBVIOUS
      <4> QED
        BY <2>4, <3>1, <4>1, <4>2
    <3>2. CASE i > 0
      <4>1. /\ path[0].bucket \in Home(key)
            /\ Linked(i - 1)
            /\ path[i - 1].key \in Keys
            /\ path[i - 1].bucket \in Home(path[i - 1].key)
        BY <1>b, <2>1, <3>2 DEF PathOK
      <4>2. PathBucket = alt_index(path[i - 1].key, path[i - 1].bucket)
        BY <2>1, <3>2 DEF PathBucket, PathIndex
      <4>3. \A j \in 0 .. i - 1 : path'[j] = path[j]
        BY <2>1, <2>4, PathLenAssumption DEF PathIndex
      <4>4. path'[0].bucket \in Home(key)
        BY <2>1, <3>2, <4>1, <4>3 DEF PathIndex
      <4>5. ASSUME NEW j \in 1 .. i
            PROVE  /\ path'[j - 1].key \in Keys
                   /\ path'[j - 1].bucket \in Home(path'[j - 1].key)
                   /\ path'[j].bucket =
                        alt_index(path'[j - 1].key, path'[j - 1].bucket)
        <5>1. CASE j = i
          BY <2>1, <2>4, <3>2, <4>1, <4>2, <4>3, <5>1 DEF PathIndex
        <5>2. CASE j # i
          <6>1. j \in 1 .. i - 1 /\ j \in 0 .. i - 1 /\ j - 1 \in 0 .. i - 1
            BY <2>1, <5>2 DEF PathIndex
          <6> QED
            BY <4>1, <4>3, <6>1 DEF Linked
        <5> QED
          BY <5>1, <5>2
      <4> QED
        BY <4>4, <4>5
    <3> QED
      BY <2>1, <3>1, <3>2 DEF PathIndex
  <2>7. PathOK'
    <3>1. CASE occupied[p] /\ i < depth
      <4>1. i' = i + 1 /\ pc' = "cuckoopath_search" /\ depth' = depth
        BY <1>8, <2>1, <3>1 DEF PathStep
      <4>2. i' <= depth' /\ i' > 0 /\ i' - 1 = i
        BY <2>1, <3>1, <4>1 DEF PathIndex
      <4>3. Linked(i - 1)'
        BY <2>6, <4>2 DEF Linked
      <4> QED
        BY <2>1, <2>5, <2>6, <3>1, <4>1, <4>2, <4>3 DEF PathOK
    <3>2. CASE ~(occupied[p] /\ i < depth)
      <4>1. depth' = i /\ pc' = "cuckoopath_move"
        BY <1>8, <2>1, <3>2 DEF PathStep
      <4>2. Linked(depth)'
        BY <2>6, <4>1 DEF Linked
      <4> QED
        BY <2>1, <2>6, <4>1, <4>2 DEF PathOK
    <3> QED
      BY <3>1, <3>2
  <2> QED
    BY <1>a, <1>c, <1>8, <2>1, <2>7 DEF IInv, PendingNew, PathStep
<1>9. ASSUME MoveStep PROVE IInv'
  <2> DEFINE from == At(path[depth - 1])
             to   == At(path[depth])
  <2>1. /\ pc = "cuckoopath_move" /\ CanMove /\ key' = key /\ path' = path
        /\ num_items' = num_items
        /\ pc' = IF depth <= 1 THEN "add_to_bucket" ELSE pc
        /\ depth \in PathIndex /\ path[0].bucket \in Home(key) /\ Linked(depth)
        /\ key \notin StoredKeys
    BY <1>9, <1>b DEF MoveStep, PathOK, TypeOK, IInv, PendingNew
  <2>2. CASE depth = 0
    <3>1. UNCHANGED <<storage, depth>> /\ pc' = "add_to_bucket" /\ ~occupied[At(path[0])]
      BY <1>9, <2>1, <2>2 DEF MoveStep, CanMove
    <3>2. UNCHANGED <<storage, num_items>> /\ occupied' = occupied
      BY <2>1, <3>1 DEF storage
    <3> QED
      BY <1>a, <1>c, <2>1, <3>1, <3>2 DEF IInv, PendingNew, PathOK, At
  <2>3. CASE depth # 0
    <3>1. /\ setK_eraseK(from, to) /\ depth' = depth - 1
          /\ occupied[from] /\ ~occupied[to] /\ keys[from] = path[depth - 1].key
      BY <1>9, <2>1, <2>3 DEF MoveStep, CanMove
    <3>2. depth - 1 \in PathIndex /\ depth \in 1 .. depth
      BY <2>1, <2>3, PathLenAssumption DEF PathIndex
    <3>3. from \in Slots /\ to \in Slots
      BY <1>b, <2>1, <3>2, AtType
    <3>4. to[1] \in Home(keys[from])
      <4>1. /\ path[depth - 1].key \in Keys
            /\ path[depth - 1].bucket \in Home(path[depth - 1].key)
            /\ path[depth].bucket = alt_index(path[depth - 1].key, path[depth - 1].bucket)
        BY <2>1, <3>2 DEF Linked
      <4> QED
        BY <3>1, <4>1, AltHome DEF At
    <3> HIDE DEF from, to
    <3>5. Placed' /\ NumItemsExact'
      BY <1>b, <2>1, <3>1, <3>3, <3>4, MovePlaced
    <3>6. StoredKeys' = StoredKeys
      BY <1>b, <3>1, <3>3, MoveKeeps
    <3>7. ~occupied'[from]
      BY <1>b, <3>1, <3>3 DEF setK_eraseK, StorageTypeOK
    <3>8. Linked(depth)'
      <4>1. \A j \in 1 .. depth' : j \in 1 .. depth
        BY <2>1, <3>1 DEF PathIndex
      <4> QED
        BY <2>1, <4>1 DEF Linked
    <3>9. PathOK'
      <4>1. CASE depth = 1
        BY <2>1, <3>7, <4>1 DEF PathOK, from
      <4>2. CASE depth # 1
        <5>1. pc' = "cuckoopath_move"
          BY <2>1, <2>3, <4>2 DEF PathIndex
        <5> QED
          BY <2>1, <3>8, <5>1 DEF PathOK
      <4> QED
        BY <4>1, <4>2
    <3> QED
      BY <1>a, <2>1, <3>5, <3>6, <3>9 DEF IInv, PendingNew
  <2> QED
    BY <2>2, <2>3
<1>10. ASSUME MoveFail PROVE IInv'
  <2>1. /\ pc = "cuckoopath_move" /\ pc' = "slot_search" /\ key' = key
        /\ UNCHANGED <<storage, num_items>>
    BY <1>10 DEF MoveFail
  <2> QED
    BY <1>a, <1>c, <2>1 DEF IInv, PendingNew, PathOK
<1>11. ASSUME AddToBucket PROVE IInv'
  <2>1. /\ pc = "add_to_bucket" /\ pc' = "idle"
        /\ setK(At(path[0]), partial_key(key, 0), key)
        /\ num_items' = num_items + 1
    BY <1>11 DEF AddToBucket, Return
  <2>2. /\ key \in Keys /\ key \notin StoredKeys /\ ~occupied[At(path[0])]
        /\ At(path[0])[1] \in Home(key)
    BY <2>1, <1>b DEF KeyOK, IInv, PendingNew, PathOK, At
  <2>3. At(path[0]) \in Slots
    BY <1>b, LocalTypes, AtType
  <2>4. Placed' /\ NumItemsExact'
    BY <1>b, <2>1, <2>2, <2>3, AddPlaced
  <2> QED
    BY <1>a, <2>1, <2>4 DEF IInv, PendingNew, PathOK
<1>12. CASE UNCHANGED vars
  <2>1. UNCHANGED <<storage, num_items>> /\ UNCHANGED <<pc, key, path, depth, i>>
    BY <1>12 DEF vars, storage
  <2>2. PathOK'
    BY <1>b, <2>1 DEF PathOK, Linked, storage
  <2> QED
    BY <1>a, <1>c, <2>1, <2>2 DEF IInv, PendingNew
<1> QED
  BY <1>1, <1>2, <1>3, <1>4, <1>5, <1>6, <1>7, <1>8, <1>9, <1>10, <1>11, <1>12
     DEF Next, Call, Step

LEMMA Invariance == Spec => []IInv
BY IInvInit, IInvStep, PTL DEF Spec

------------------------------------------------------------------------------
(* What it gives.                                                           *)

\* Whatever is inserted, in whatever order and with whatever hashes, every
\* stored key is in one of the two buckets find and lookup search.
THEOREM KeyHomeHolds == Spec => []KeyHome
<1>1. IInv => KeyHome
  BY DEF IInv, Placed
<1> QED
  BY <1>1, Invariance, PTL

\* No sequence of inserts and evictions stores a key twice.
THEOREM NoDuplicatesHolds == Spec => []NoDuplicates
<1>1. IInv => NoDuplicates
  BY DEF IInv, Placed
<1> QED
  BY <1>1, Invariance, PTL

\* num_items_ is exact at every step, between the two halves of a cuckoo
\* insert too.
THEOREM NumItemsHolds == Spec => []NumItemsExact
<1>1. IInv => NumItemsExact
  BY DEF IInv
<1> QED
  BY <1>1, Invariance, PTL

\* The fingerprint next to a key is that key's, wherever it was moved.
THEOREM PartialsMatchHolds == Spec => []PartialsMatch
<1>1. IInv => PartialsMatch
  BY DEF IInv, Placed
<1> QED
  BY <1>1, Invariance, PTL

\* The assertions cuckoo_insert and run_cuckoo make of the freed slot hold,
\* and the new key is not stored twice, however wide the pathcode is.
THEOREM FreedSlotHolds == Spec => []FreedSlotUsable
<1>1. IInv => FreedSlotUsable
  BY DEF IInv, PathOK, PendingNew, FreedSlotUsable
<1> QED
  BY <1>1, Invariance, PTL

\* How the stored keys and the outcome change in one step of the table.
LEMMA StepEffect ==
    ASSUME IInv, [Next]_vars
    PROVE  \/ UNCHANGED <<StoredKeys, ret>>
           \/ \E k \in Keys :
                 \/ /\ k \notin StoredKeys
                    /\ StoredKeys' = StoredKeys \union {k}
                    /\ ret'.status = "ok" /\ ret'.key = k
                 \/ /\ k \in StoredKeys
                    /\ StoredKeys' = StoredKeys
                    /\ ret'.status = "failure_key_duplicated" /\ ret'.key = k
                 \/ /\ k \notin StoredKeys
                    /\ StoredKeys' = StoredKeys
                    /\ ret'.status = "failure_table_full" /\ ret'.key = k
<1> DEFINE Ok(k) == /\ k \notin StoredKeys
                    /\ StoredKeys' = StoredKeys \union {k}
                    /\ ret'.status = "ok" /\ ret'.key = k
           Dup(k) == /\ k \in StoredKeys
                     /\ StoredKeys' = StoredKeys
                     /\ ret'.status = "failure_key_duplicated" /\ ret'.key = k
           NoRoom(k) == /\ k \notin StoredKeys
                        /\ StoredKeys' = StoredKeys
                        /\ ret'.status = "failure_table_full" /\ ret'.key = k
           Stutter == UNCHANGED <<StoredKeys, ret>>
<1> SUFFICES Stutter \/ \E k \in Keys : Ok(k) \/ Dup(k) \/ NoRoom(k)
  OBVIOUS
<1>b. TypeOK /\ StorageTypeOK /\ KeyOK /\ Placed /\ NumItemsExact /\ PendingNew /\ PathOK
  BY DEF IInv, TypeOK
<1>c. ASSUME UNCHANGED <<storage, num_items>> PROVE StoredKeys' = StoredKeys
  BY <1>b, <1>c, UnchangedPlaced
<1>1. ASSUME NEW k \in Keys, InsertDuplicate(k) PROVE Dup(k)
  <2>1. PICK b \in BucketIndex, s \in SlotIndex :
            /\ DuplicateAt(k, b, s)
            /\ Return("failure_key_duplicated", k, <<b, s>>)
    BY <1>1 DEF InsertDuplicate
  <2>2. <<b, s>> \in OccupiedSlots /\ keys[<<b, s>>] = k
    BY <2>1 DEF DuplicateAt, OccupiedSlots, Slots
  <2>3. StoredKeys' = StoredKeys
    BY <1>1, <1>c DEF InsertDuplicate
  <2> QED
    BY <2>1, <2>2, <2>3 DEF StoredKeys, Return
<1>2. ASSUME NEW k \in Keys, InsertDirect(k) PROVE Ok(k)
  <2>1. PICK b \in BucketIndex, s \in SlotIndex :
            /\ EmptyAt(k, b, s)
            /\ setK(<<b, s>>, partial_key(k, 0), k)
            /\ Return("ok", k, <<b, s>>)
    BY <1>2 DEF InsertDirect
  <2>2. <<b, s>> \in Slots /\ ~occupied[<<b, s>>]
    BY <2>1 DEF EmptyAt, Slots
  <2>3. k \notin StoredKeys
    BY <1>b, <2>1, NotStored DEF EmptyAt
  <2>4. StoredKeys' = StoredKeys \union {k}
    BY <1>b, <2>1, <2>2, SetAdds
  <2> QED
    BY <2>1, <2>3, <2>4 DEF Return
<1>3. ASSUME SearchFail PROVE key \in Keys /\ NoRoom(key)
  <2>1. StoredKeys' = StoredKeys
    BY <1>3, <1>c DEF SearchFail
  <2> QED
    BY <1>3, <1>b, <2>1 DEF SearchFail, Return, KeyOK, PendingNew
<1>4. ASSUME AddToBucket PROVE key \in Keys /\ Ok(key)
  <2>1. /\ setK(At(path[0]), partial_key(key, 0), key)
        /\ Return("ok", key, At(path[0]))
        /\ key \in Keys /\ key \notin StoredKeys /\ ~occupied[At(path[0])]
    BY <1>4, <1>b DEF AddToBucket, KeyOK, PendingNew, PathOK
  <2>2. At(path[0]) \in Slots
    BY <1>b, LocalTypes, AtType
  <2>3. StoredKeys' = StoredKeys \union {key}
    BY <1>b, <2>1, <2>2, SetAdds
  <2> QED
    BY <2>1, <2>3 DEF Return
<1>5. ASSUME MoveStep PROVE Stutter
  <2>1. ret' = ret
    BY <1>5 DEF MoveStep
  <2>2. CASE depth = 0
    BY <1>5, <1>c, <2>1, <2>2 DEF MoveStep
  <2>3. CASE depth # 0
    <3>1. /\ setK_eraseK(At(path[depth - 1]), At(path[depth]))
          /\ occupied[At(path[depth - 1])] /\ ~occupied[At(path[depth])]
      BY <1>5, <2>3 DEF MoveStep, CanMove
    <3>2. depth - 1 \in PathIndex /\ depth \in PathIndex
      BY <1>b, <2>3, PathLenAssumption DEF PathIndex, TypeOK
    <3>3. At(path[depth - 1]) \in Slots /\ At(path[depth]) \in Slots
      BY <1>b, <3>2, AtType
    <3> QED
      BY <1>b, <2>1, <3>1, <3>3, MoveKeeps
  <2> QED
    BY <2>2, <2>3
<1>6. ASSUME \/ \E k \in Keys : RunCuckoo(k)
             \/ SearchFound \/ SearchExpand \/ DecodeStep \/ PathStep \/ MoveFail
             \/ UNCHANGED vars
      PROVE  Stutter
  <2>1. UNCHANGED <<storage, num_items>> /\ ret' = ret
    BY <1>6 DEF RunCuckoo, SearchFound, SearchExpand, DecodeStep, PathStep,
                MoveFail, vars, storage
  <2> QED
    BY <1>c, <2>1
<1> HIDE DEF Ok, Dup, NoRoom, Stutter
<1> QED
  BY <1>1, <1>2, <1>3, <1>4, <1>5, <1>6 DEF Next, Call, Step

\* No step of the table, evictions included, loses a stored key.
THEOREM NoKeyLostHolds == Spec => NoKeyLost
<1>1. IInv /\ [Next]_vars => [StoredKeys \subseteq StoredKeys']_vars
  BY StepEffect
<1> QED
  BY <1>1, Invariance, PTL DEF Spec, NoKeyLost

\* The table with its searches and evictions implements the set of keys
\* KeySet describes: an insert takes effect in one step, when it ends.
THEOREM Refinement == Spec => ImplementsKeySet
<1>1. Init => Abstract!Init
  BY DEF Init, StorageInit, Abstract!Init, StoredKeys, OccupiedSlots
<1>2. IInv /\ [Next]_vars => [Abstract!Next]_(Abstract!vars)
  <2> SUFFICES ASSUME IInv, [Next]_vars PROVE [Abstract!Next]_(Abstract!vars)
    OBVIOUS
  <2>1. CASE UNCHANGED <<StoredKeys, ret>>
    BY <2>1 DEF Abstract!vars
  <2>2. ASSUME NEW k \in Keys,
               k \notin StoredKeys, StoredKeys' = StoredKeys \union {k},
               ret'.status = "ok", ret'.key = k
        PROVE  Abstract!Next
    BY <2>2 DEF Abstract!Next, Abstract!InsertOk
  <2>3. ASSUME NEW k \in Keys,
               k \in StoredKeys, StoredKeys' = StoredKeys,
               ret'.status = "failure_key_duplicated", ret'.key = k
        PROVE  Abstract!Next
    BY <2>3 DEF Abstract!Next, Abstract!InsertDuplicate
  <2>4. ASSUME NEW k \in Keys,
               k \notin StoredKeys, StoredKeys' = StoredKeys,
               ret'.status = "failure_table_full", ret'.key = k
        PROVE  Abstract!Next
    BY <2>4 DEF Abstract!Next, Abstract!InsertFull
  <2> QED
    BY <2>1, <2>2, <2>3, <2>4, StepEffect
<1> QED
  BY <1>1, <1>2, Invariance, PTL DEF Spec, ImplementsKeySet, Abstract!Spec
------------------------------------------------------------------------------
(* Part 2: slot_search.                                                     *)

------------------------------------------------------------------------------
(* Powers and their sums: the sizes of the levels of the search.            *)

LEMMA ConstPow ==
    /\ const_pow \in [Nat -> Nat]
    /\ const_pow[0] = 1
    /\ \A n \in Nat : const_pow[n + 1] = SlotPerBucket * const_pow[n]
<1>1. SlotPerBucket \in Nat
  BY SlotPerBucketAssumption
<1>2. const_pow = [b \in Nat |-> IF b = 0 THEN 1 ELSE SlotPerBucket * const_pow[b - 1]]
  BY <1>1, PowerFunction DEF const_pow
<1> QED
  BY <1>1, <1>2, PowerValues

\* A search from one bucket sees const_pow - 1 over SlotPerBucket - 1 buckets
\* in its first n levels.
LEMMA GeometricSum ==
    \A n \in Nat : \E m \in Nat : const_pow[n] - 1 = (SlotPerBucket - 1) * m
<1> DEFINE S == {n \in Nat : \E m \in Nat : const_pow[n] - 1 = (SlotPerBucket - 1) * m}
<1>1. 0 \in S
  <2>1. const_pow[0] - 1 = (SlotPerBucket - 1) * 0
    BY ConstPow, SlotPerBucketAssumption
  <2> QED
    BY <2>1
<1>2. ASSUME NEW n \in Nat, n \in S PROVE n + 1 \in S
  <2> DEFINE c == SlotPerBucket
             p == const_pow[n]
  <2>1. PICK m \in Nat : p - 1 = (c - 1) * m
    BY <1>2
  <2>2. c \in Nat /\ c - 1 \in Nat /\ p \in Nat /\ const_pow[n + 1] = c * p
    BY ConstPow, SlotPerBucketAssumption
  <2> HIDE DEF c, p
  <2>3. p = (c - 1) * m + 1 /\ (c - 1) * m \in Nat
    BY <2>1, <2>2
  <2>4. c * p - 1 = (c - 1) * (c * m + 1)
    <3>1. c * p = c * ((c - 1) * m) + c
      BY <2>2, <2>3
    <3>2. c * ((c - 1) * m) = (c - 1) * (c * m)
      BY <2>2
    <3>3. (c - 1) * (c * m + 1) = (c - 1) * (c * m) + (c - 1)
      BY <2>2
    <3> QED
      BY <2>2, <3>1, <3>2, <3>3
  <2>5. c * m + 1 \in Nat
    BY <2>2
  <2>6. const_pow[n + 1] - 1 = (SlotPerBucket - 1) * (c * m + 1)
    BY <2>2, <2>4 DEF c
  <2> QED
    BY <2>5, <2>6
<1> HIDE DEF S
<1>3. \A n \in Nat : n \in S
  BY <1>1, <1>2, NatInductionInSet
<1> QED
  BY <1>3 DEF S

\* The number of b_slots a search from two buckets enqueues in its first n
\* levels, computed the way MAX_CUCKOO_COUNT is.
QueueBefore(n) ==
    2 * (IF SlotPerBucket = 1
         THEN n
         ELSE (const_pow[n] - 1) \div (SlotPerBucket - 1))

LEMMA QueueBeforeValues ==
    /\ QueueBefore(0) = 0
    /\ \A n \in Nat : /\ QueueBefore(n) \in Nat
                      /\ QueueBefore(n + 1) = 2 + SlotPerBucket * QueueBefore(n)
<1> DEFINE c == SlotPerBucket
<1>1. CASE c = 1
  BY <1>1 DEF QueueBefore
<1>2. CASE c # 1
  <2>1. c - 1 \in Nat \ {0} /\ c \in Nat
    BY <1>2, SlotPerBucketAssumption
  <2>2. ASSUME NEW n \in Nat, NEW m \in Nat, const_pow[n] - 1 = (c - 1) * m
        PROVE  QueueBefore(n) = 2 * m
    <3>1. (const_pow[n] - 1) \div (c - 1) = m
      BY <2>1, <2>2, ExactQuotient
    <3> QED
      BY <1>2, <3>1 DEF QueueBefore
  <2>3. QueueBefore(0) = 0
    <3>1. const_pow[0] - 1 = (c - 1) * 0
      BY ConstPow, <2>1
    <3> QED
      BY <2>2, <3>1
  <2>4. ASSUME NEW n \in Nat
        PROVE  QueueBefore(n) \in Nat /\ QueueBefore(n + 1) = 2 + c * QueueBefore(n)
    <3> DEFINE p == const_pow[n]
    <3>1. PICK m \in Nat : p - 1 = (c - 1) * m
      BY GeometricSum
    <3>2. p \in Nat /\ const_pow[n + 1] = c * p
      BY ConstPow
    <3> HIDE DEF c, p
    <3>3. c * p - 1 = (c - 1) * (c * m + 1)
      <4>0. p = (c - 1) * m + 1
        BY <2>1, <3>1, <3>2
      <4>1. c * p = c * ((c - 1) * m) + c
        BY <2>1, <4>0
      <4>2. c * ((c - 1) * m) = (c - 1) * (c * m)
        BY <2>1
      <4>3. (c - 1) * (c * m + 1) = (c - 1) * (c * m) + (c - 1)
        BY <2>1
      <4> QED
        BY <2>1, <4>1, <4>2, <4>3
    <3>4. n + 1 \in Nat /\ c * m + 1 \in Nat
      BY <2>1
    <3>5. QueueBefore(n) = 2 * m /\ QueueBefore(n + 1) = 2 * (c * m + 1)
      BY <2>2, <3>1, <3>2, <3>3, <3>4 DEF p
    <3>6. c * (2 * m) = 2 * (c * m) /\ c * m \in Nat
      BY <2>1
    <3> QED
      BY <3>5, <3>6
  <2> QED
    BY <2>3, <2>4
<1> QED
  BY <1>1, <1>2

LEMMA QueueBeforeMonotone ==
    ASSUME NEW m \in Nat, NEW n \in Nat, m <= n
    PROVE  QueueBefore(m) <= QueueBefore(n)
<1> DEFINE S == {d \in Nat : QueueBefore(m) <= QueueBefore(m + d)}
<1>1. 0 \in S
  BY QueueBeforeValues
<1>2. ASSUME NEW d \in Nat, d \in S PROVE d + 1 \in S
  <2>1. m + d \in Nat /\ m + (d + 1) = (m + d) + 1
    OBVIOUS
  <2> DEFINE before == QueueBefore(m + d)
             after  == QueueBefore((m + d) + 1)
  <2>2. /\ QueueBefore(m) \in Nat /\ before \in Nat /\ after \in Nat
        /\ after = 2 + SlotPerBucket * before
    BY <2>1, QueueBeforeValues
  <2>3. QueueBefore(m) <= before
    BY <1>2
  <2> HIDE DEF before, after
  <2>4. before <= after
    <3>1. SlotPerBucket - 1 \in Nat /\ (SlotPerBucket - 1) * before \in Nat
      BY <2>2, SlotPerBucketAssumption
    <3>2. SlotPerBucket * before = (SlotPerBucket - 1) * before + before
      BY <2>2, SlotPerBucketAssumption
    <3> QED
      BY <2>2, <3>1, <3>2
  <2>5. QueueBefore(m) <= after
    BY <2>2, <2>3, <2>4
  <2>6. QueueBefore(m) <= QueueBefore(m + (d + 1))
    BY <2>1, <2>5 DEF after
  <2> QED
    BY <2>6
<1> HIDE DEF S
<1>3. \A d \in Nat : d \in S
  BY <1>1, <1>2, NatInductionInSet
<1>4. n - m \in Nat /\ m + (n - m) = n
  OBVIOUS
<1> QED
  BY <1>3, <1>4 DEF S

LEMMA MaxCount ==
    /\ MAX_CUCKOO_COUNT = QueueBefore(MAX_BFS_PATH_LEN)
    /\ MAX_CUCKOO_COUNT = 2 + SlotPerBucket * QueueBefore(MAX_BFS_PATH_LEN - 1)
<1>1. MAX_CUCKOO_COUNT = QueueBefore(MAX_BFS_PATH_LEN)
  BY DEF MAX_CUCKOO_COUNT, QueueBefore
<1>2. MAX_BFS_PATH_LEN - 1 \in Nat /\ (MAX_BFS_PATH_LEN - 1) + 1 = MAX_BFS_PATH_LEN
  BY PathLenAssumption
<1>3. QueueBefore((MAX_BFS_PATH_LEN - 1) + 1) =
          2 + SlotPerBucket * QueueBefore(MAX_BFS_PATH_LEN - 1)
  BY <1>2, QueueBeforeValues
<1> QED
  BY <1>1, <1>2, <1>3

\* The scan of a bucket starts where the pathcode says, and sees every slot.
LEMMA ScanSeesAll ==
    ASSUME NEW x \in b_slot, NEW s \in SlotIndex
    PROVE  \E n \in SlotIndex : ScanSlot(x, n) = s
<1> DEFINE c == SlotPerBucket
           r == x.pathcode % c
<1>1. c \in Nat \ {0} /\ x.pathcode \in Nat /\ s \in 0 .. c - 1
  BY SlotPerBucketAssumption DEF b_slot, SlotIndex
<1>2. r \in 0 .. c - 1
  BY <1>1
<1>3. PICK a \in Nat : x.pathcode = c * a + r
  <2> QED
    BY <1>1, QuotientRemainder
<1> HIDE DEF r
<1>4. ASSUME NEW n \in 0 .. c - 1, NEW m \in Nat, x.pathcode + n = c * m + s
      PROVE  ScanSlot(x, n) = s
  <2>1. (c * m + s) % c = s
    BY <1>1
  <2> QED
    BY <1>4, <2>1 DEF ScanSlot
<1>5. CASE r <= s
  <2>1. s - r \in 0 .. c - 1
    BY <1>1, <1>2, <1>5
  <2>2. x.pathcode + (s - r) = c * a + s
    BY <1>1, <1>2, <1>3
  <2> QED
    BY <1>4, <2>1, <2>2 DEF SlotIndex
<1>6. CASE s < r
  <2>1. (s - r) + c \in 0 .. c - 1
    BY <1>1, <1>2, <1>6
  <2>2. x.pathcode + ((s - r) + c) = c * (a + 1) + s
    <3>1. c * (a + 1) = c * a + c /\ c * a \in Nat
      BY <1>1
    <3> QED
      BY <1>1, <1>2, <1>3, <3>1
  <2> QED
    BY <1>4, <2>1, <2>2 DEF SlotIndex
<1> QED
  BY <1>1, <1>2, <1>5, <1>6

------------------------------------------------------------------------------
(* The invariant of the queue.                                              *)

LastLevel == MAX_BFS_PATH_LEN - 1

\* The number of b_slots dequeued so far that were above the last level.
Expanded == IF first - 1 < QueueBefore(LastLevel)
            THEN first - 1
            ELSE QueueBefore(LastLevel)

\* Each b_slot dequeued above the last level left one for each slot, and the
\* position of a b_slot in the queue is in the range of its level.
QueueShape ==
    /\ first <= Len(slots) + 1
    /\ Len(slots) = 2 + SlotPerBucket * Expanded
    /\ \A q \in 1 .. Len(slots) : /\ QueueBefore(slots[q].depth) < q
                                  /\ q <= QueueBefore(slots[q].depth + 1)

Queued(queue, b, d) ==
    \E q \in 1 .. Len(queue) : queue[q].bucket = b /\ queue[q].depth = d

\* The buckets that the items of x may move to are queued.
Followed(queue, bytes, x) ==
    \A s \in SlotIndex :
        Queued(queue, alt_index(bytes[<<x.bucket, s>>], x.bucket), x.depth + 1)

\* Both buckets of the key were queued; every bucket dequeued was full, and
\* was followed unless it is on the last level.
Searched ==
    /\ \A b \in Home(key) : Queued(slots, b, 0)
    /\ \A q \in 1 .. first - 1 :
          /\ Full(slots[q].bucket)
          /\ slots[q].depth < LastLevel => Followed(slots, keys, slots[q])

QueueInv ==
    /\ pc = "slot_search" => QueueShape /\ Searched
    /\ pc # "slot_search" => slots = NoSlots /\ first = 1

SearchInv == IInv /\ QueueInv /\ FullMeansNoPath

LEMMA LevelValues ==
    /\ LastLevel \in Nat
    /\ LastLevel + 1 = MAX_BFS_PATH_LEN
    /\ PathIndex = 0 .. LastLevel
BY PathLenAssumption DEF LastLevel, PathIndex

LEMMA EmptyShape ==
    ASSUME NEW k \in Keys, first' = 1, slots' = Roots(k), key' = k
    PROVE  QueueShape' /\ Searched'
<1> DEFINE S == SlotPerBucket
<1>1. Len(slots') = 2 /\ slots'[1].depth = 0 /\ slots'[2].depth = 0
      /\ slots'[1].bucket = i1(k) /\ slots'[2].bucket = i2(k)
  BY DEF Roots
<1>2. QueueBefore(0) = 0 /\ QueueBefore(0 + 1) = 2 + S * 0 /\ S * 0 = 0
  BY QueueBeforeValues, SlotPerBucketAssumption
<1>3. QueueBefore(LastLevel) \in Nat
  BY LevelValues, QueueBeforeValues
<1>4. Expanded' = 0
  BY <1>3 DEF Expanded, QueueBefore, LastLevel
<1>5. QueueShape'
  <2>1. Len(slots') = 2 + S * Expanded'
    BY <1>1, <1>2, <1>4
  <2>2. ASSUME NEW q \in 1 .. 2
        PROVE  QueueBefore(slots'[q].depth) < q /\ q <= QueueBefore(slots'[q].depth + 1)
    <3>1. slots'[q].depth = 0
      BY <1>1
    <3> QED
      BY <1>2, <3>1
  <2>3. \A q \in 1 .. Len(slots') : /\ QueueBefore(slots'[q].depth) < q
                                    /\ q <= QueueBefore(slots'[q].depth + 1)
    BY <1>1, <2>2
  <2>4. first' <= Len(slots') + 1
    BY <1>1
  <2> QED
    BY <2>1, <2>3, <2>4 DEF QueueShape, QueueBefore
<1>6. Searched'
  <2>1. \A q \in 1 .. first' - 1 : FALSE
    OBVIOUS
  <2>2. \A b \in Home(k) : Queued(slots', b, 0)
    BY <1>1 DEF Home, Queued
  <2> QED
    BY <2>1, <2>2 DEF Searched, Home, i1, i2, index_hash, alt_index
<1> QED
  BY <1>5, <1>6

LEMMA ChildrenValues ==
    ASSUME TypeOK, NEW x \in b_slot
    PROVE  /\ Len(Children(x)) = SlotPerBucket
           /\ \A n \in 1 .. SlotPerBucket :
                 Children(x)[n] = Child(x, ScanSlot(x, n - 1))
BY SlotPerBucketAssumption DEF Children

LEMMA ExpandShape ==
    ASSUME TypeOK, QueueShape, SearchExpand
    PROVE  QueueShape'
<1> DEFINE x == slots[first]
           S == SlotPerBucket
           last == Len(slots)
<1>1. /\ first \in 1 .. last /\ last \in Nat /\ slots \in Seq(b_slot)
      /\ x \in b_slot /\ x.depth \in Nat /\ x.depth <= LastLevel
      /\ first' = first + 1
  <2>1. first \in 1 .. last /\ last \in Nat /\ slots \in Seq(b_slot) /\ first' = first + 1
    BY DEF SearchExpand, TypeOK
  <2>2. x \in b_slot
    BY <2>1
  <2> HIDE DEF x
  <2>3. x.depth \in 0 .. LastLevel
    BY <2>2, LevelValues DEF b_slot
  <2> QED
    BY <2>1, <2>2, <2>3, LevelValues
<1>2. /\ QueueBefore(x.depth) < first /\ first <= QueueBefore(x.depth + 1)
      /\ QueueBefore(x.depth) \in Nat /\ QueueBefore(x.depth + 1) \in Nat
      /\ QueueBefore(LastLevel) \in Nat
  <2>1. x.depth + 1 \in Nat
    BY <1>1
  <2>2. QueueBefore(x.depth) < first /\ first <= QueueBefore(x.depth + 1)
    BY <1>1 DEF QueueShape
  <2> HIDE DEF x
  <2> QED
    BY <1>1, <2>1, <2>2, LevelValues, QueueBeforeValues
<1>3. \A q \in 1 .. last : /\ QueueBefore(slots[q].depth) < q
                           /\ q <= QueueBefore(slots[q].depth + 1)
  BY DEF QueueShape
<1>4. CASE CanExtend(x)
  <2>1. x.depth + 1 <= LastLevel /\ x.depth + 1 \in Nat
    BY <1>1, <1>4, LevelValues DEF CanExtend, LastLevel
  <2>2. QueueBefore(x.depth + 1) <= QueueBefore(LastLevel)
    BY <2>1, LevelValues, QueueBeforeMonotone
  <2>3. Expanded = first - 1 /\ Expanded' = first
    <3>1. QueueBefore(LastLevel)' = QueueBefore(LastLevel)
      BY DEF QueueBefore, LastLevel
    <3> QED
      BY <1>1, <1>2, <2>2, <3>1 DEF Expanded
  <2>4. slots' = slots \o Children(x)
    BY <1>4 DEF SearchExpand
  <2>5. /\ Len(slots') = last + S
        /\ \A q \in 1 .. last : slots'[q] = slots[q]
        /\ \A n \in 1 .. S : slots'[last + n] = Child(x, ScanSlot(x, n - 1))
    <3>1. Children(x) \in Seq(b_slot)
      <4>1. x.depth < MAX_BFS_PATH_LEN - 1
        BY <1>1, <2>1, LevelValues
      <4> HIDE DEF x
      <4> QED
        BY <1>1, <4>1, ChildrenType
    <3> HIDE DEF x
    <3> QED
      BY <1>1, <2>4, <3>1, ChildrenValues, SlotPerBucketAssumption
  <2>6. last = 2 + S * (first - 1)
    BY <2>3 DEF QueueShape
  <2>7. S \in Nat /\ S * (first - 1) + S = S * first /\ S * first \in Nat
    BY <1>1, SlotPerBucketAssumption
  <2>8. Len(slots') = 2 + S * first
    BY <1>1, <2>5, <2>6, <2>7
  <2>9. ASSUME NEW n \in 1 .. S
        PROVE  /\ QueueBefore(slots'[last + n].depth) < last + n
               /\ last + n <= QueueBefore(slots'[last + n].depth + 1)
    <3>1. slots'[last + n].depth = x.depth + 1
      <4>1. slots'[last + n] = Child(x, ScanSlot(x, n - 1))
        BY <2>5
      <4> HIDE DEF x, last
      <4> QED
        BY <4>1 DEF Child
    <3>2. /\ QueueBefore(x.depth + 1) = 2 + S * QueueBefore(x.depth)
          /\ QueueBefore((x.depth + 1) + 1) = 2 + S * QueueBefore(x.depth + 1)
      BY <1>1, <2>1, QueueBeforeValues
    <3>3. S * QueueBefore(x.depth) <= S * (first - 1)
          /\ S * QueueBefore(x.depth) \in Nat /\ S * (first - 1) \in Nat
      <4>1. first - 1 \in Nat /\ QueueBefore(x.depth) <= first - 1
        BY <1>1, <1>2
      <4> QED
        BY <1>2, <2>7, <4>1, TimesMonotone
    <3>4. S * first <= S * QueueBefore(x.depth + 1)
          /\ S * QueueBefore(x.depth + 1) \in Nat
      BY <1>1, <1>2, <2>7, TimesMonotone
    <3> HIDE DEF x, last, S
    <3> QED
      BY <1>1, <2>6, <2>7, <3>1, <3>2, <3>3, <3>4
  <2>10. ASSUME NEW q \in 1 .. Len(slots')
         PROVE  QueueBefore(slots'[q].depth) < q /\ q <= QueueBefore(slots'[q].depth + 1)
    <3>1. CASE q <= last
      <4>1. q \in 1 .. last /\ slots'[q] = slots[q]
        BY <2>5, <3>1
      <4> QED
        BY <1>3, <4>1
    <3>2. CASE q > last
      <4>1. q - last \in 1 .. S /\ last + (q - last) = q
        BY <1>1, <2>5, <2>7, <3>2
      <4> QED
        BY <2>9, <4>1
    <3> QED
      BY <1>1, <3>1, <3>2
  <2>11. first' <= Len(slots') + 1
    BY <1>1, <2>5, <2>7
  <2> HIDE DEF x, last
  <2> QED
    BY <2>3, <2>8, <2>10, <2>11 DEF QueueShape, QueueBefore
<1>5. CASE ~CanExtend(x)
  <2>1. slots' = slots
    BY <1>5 DEF SearchExpand
  <2>2. x.depth = LastLevel
    BY <1>1, <1>5, LevelValues DEF CanExtend, LastLevel
  <2>3. QueueBefore(LastLevel) < first
    BY <1>2, <2>2
  <2>4. Expanded = QueueBefore(LastLevel) /\ Expanded' = QueueBefore(LastLevel)
    <3>1. QueueBefore(LastLevel)' = QueueBefore(LastLevel)
      BY DEF QueueBefore, LastLevel
    <3> QED
      BY <1>1, <1>2, <2>3, <3>1 DEF Expanded
  <2> HIDE DEF x
  <2> QED
    BY <1>1, <2>1, <2>4 DEF QueueShape, QueueBefore
<1> QED
  BY <1>4, <1>5

\* What SearchExpand appends is behind what it leaves in place.
LEMMA Appends ==
    ASSUME TypeOK, SearchExpand
    PROVE  /\ \A q \in 1 .. Len(slots) : q \in 1 .. Len(slots') /\ slots'[q] = slots[q]
           /\ CanExtend(slots[first]) =>
                 \A n \in 1 .. SlotPerBucket :
                    /\ Len(slots) + n \in 1 .. Len(slots')
                    /\ slots'[Len(slots) + n] =
                          Child(slots[first], ScanSlot(slots[first], n - 1))
<1> DEFINE x == slots[first]
<1>1. x \in b_slot /\ slots \in Seq(b_slot)
  BY DEF SearchExpand, TypeOK
<1>2. slots' = IF CanExtend(x) THEN slots \o Children(x) ELSE slots
  BY DEF SearchExpand
<1> HIDE DEF x
<1>3. CASE CanExtend(x)
  <2>1. Children(x) \in Seq(b_slot)
    BY <1>1, <1>3, ChildrenType DEF CanExtend
  <2>2. SlotPerBucket \in Nat
    BY SlotPerBucketAssumption
  <2> QED
    BY <1>1, <1>2, <1>3, <2>1, <2>2, ChildrenValues DEF x
<1> QED
  BY <1>2, <1>3 DEF x

LEMMA ExpandSearched ==
    ASSUME TypeOK, Searched, SearchExpand
    PROVE  Searched'
<1> DEFINE x == slots[first]
<1>1. /\ first \in 1 .. Len(slots) /\ slots \in Seq(b_slot) /\ first' = first + 1
      /\ key' = key /\ keys' = keys /\ occupied' = occupied
      /\ Full(x.bucket)
  BY DEF SearchExpand, TypeOK, storage
<1>2. x \in b_slot
  BY <1>1
<1>3. \A q \in 1 .. Len(slots) : q \in 1 .. Len(slots') /\ slots'[q] = slots[q]
  BY Appends
<1>4. \A b, d : Queued(slots, b, d) => Queued(slots', b, d)
  BY <1>3 DEF Queued
<1>5. ASSUME NEW q \in 1 .. first - 1
      PROVE  /\ Full(slots[q].bucket)
             /\ slots[q].depth < LastLevel => Followed(slots', keys, slots[q])
  BY <1>4, <1>5 DEF Searched, Followed
<1>6. ASSUME CanExtend(x) PROVE Followed(slots', keys, x)
  <2> SUFFICES ASSUME NEW s \in SlotIndex
               PROVE  Queued(slots', alt_index(keys[<<x.bucket, s>>], x.bucket), x.depth + 1)
    BY DEF Followed
  <2>1. PICK n \in SlotIndex : ScanSlot(x, n) = s
    BY <1>2, ScanSeesAll
  <2>2. n + 1 \in 1 .. SlotPerBucket /\ (n + 1) - 1 = n
    BY SlotPerBucketAssumption DEF SlotIndex
  <2>3. /\ Len(slots) + (n + 1) \in 1 .. Len(slots')
        /\ slots'[Len(slots) + (n + 1)] = Child(x, s)
    BY <1>6, <2>1, <2>2, Appends
  <2> HIDE DEF x
  <2>4. /\ Child(x, s).bucket = alt_index(keys[<<x.bucket, s>>], x.bucket)
        /\ Child(x, s).depth = x.depth + 1
    BY DEF Child
  <2> QED
    BY <2>3, <2>4 DEF Queued
<1>7. ASSUME NEW q \in 1 .. first' - 1
      PROVE  /\ q \in 1 .. Len(slots) /\ slots'[q] = slots[q]
             /\ Full(slots[q].bucket)
             /\ slots[q].depth < LastLevel => Followed(slots', keys, slots[q])
  <2>1. CASE q = first
    BY <1>1, <1>3, <1>6, <2>1 DEF CanExtend, LastLevel
  <2>2. CASE q # first
    <3>1. q \in 1 .. first - 1
      BY <1>1, <2>2
    <3> QED
      BY <1>1, <1>3, <1>5, <3>1
  <2> QED
    BY <2>1, <2>2
<1>8. \A q \in 1 .. first' - 1 :
         /\ \A s \in SlotIndex : occupied'[<<slots'[q].bucket, s>>]
         /\ slots'[q].depth < LastLevel => Followed(slots', keys', slots'[q])
  BY <1>1, <1>7 DEF Full
<1>9. \A b \in Home(key') : Queued(slots', b, 0)
  BY <1>1, <1>4 DEF Searched
<1> HIDE DEF x
<1> QED
  BY <1>8, <1>9 DEF Searched, LastLevel, Home, i1, i2, index_hash, alt_index, Full

\* w is a walk of n evictions from a bucket of k.
Walk(w, n, k, bytes) ==
    /\ w[0] \in Home(k)
    /\ \A j \in 1 .. n : \E s \in SlotIndex :
          w[j] = alt_index(bytes[<<w[j - 1], s>>], w[j - 1])

\* Once the levels up to the n-th are dequeued, all walks of n evictions have
\* been seen, and met full buckets only.
LEMMA WalksFull ==
    ASSUME TypeOK, Searched, NEW n \in PathIndex,
           \A q \in 1 .. Len(slots) : slots[q].depth <= n => q < first,
           NEW w, Walk(w, n, key, keys)
    PROVE  \A j \in 0 .. n : Full(w[j])
<1> DEFINE S == {j \in Nat : j <= n => Queued(slots, w[j], j)}
<1>a. n \in Nat /\ n <= LastLevel /\ LastLevel \in Nat
  BY LevelValues
<1>b. ASSUME NEW q \in 1 .. Len(slots), slots[q].depth <= n
      PROVE  /\ Full(slots[q].bucket)
             /\ slots[q].depth < LastLevel => Followed(slots, keys, slots[q])
  <2>1. q \in 1 .. first - 1
    BY <1>b DEF TypeOK
  <2> QED
    BY <2>1 DEF Searched
<1>1. 0 \in S
  BY DEF Searched, Walk
<1>2. ASSUME NEW j \in Nat, j \in S PROVE j + 1 \in S
  <2> SUFFICES ASSUME j + 1 <= n PROVE Queued(slots, w[j + 1], j + 1)
    OBVIOUS
  <2>1. PICK q \in 1 .. Len(slots) : slots[q].bucket = w[j] /\ slots[q].depth = j
    BY <1>2, <1>a DEF Queued
  <2>2. slots[q].depth <= n /\ slots[q].depth < LastLevel
    BY <1>a, <2>1
  <2>3. Followed(slots, keys, slots[q])
    BY <1>b, <2>2
  <2>4. PICK s \in SlotIndex : w[j + 1] = alt_index(keys[<<w[j], s>>], w[j])
    <3>1. j + 1 \in 1 .. n /\ (j + 1) - 1 = j
      BY <1>a
    <3> QED
      BY <3>1 DEF Walk
  <2> QED
    BY <2>1, <2>3, <2>4 DEF Followed
<1>3. \A j \in Nat : j \in S
  <2> HIDE DEF S
  <2> QED
    BY <1>1, <1>2, NatInductionInSet
<1>4. ASSUME NEW j \in 0 .. n PROVE Full(w[j])
  <2>1. PICK q \in 1 .. Len(slots) : slots[q].bucket = w[j] /\ slots[q].depth = j
    BY <1>3, <1>a DEF Queued
  <2>2. slots[q].depth <= n
    BY <1>a, <2>1
  <2> QED
    BY <1>b, <2>1, <2>2
<1> QED
  BY <1>4

LEMMA SearchInvInit == Init => SearchInv
<1> SUFFICES ASSUME Init PROVE SearchInv
  OBVIOUS
<1>1. IInv
  BY IInvInit
<1> QED
  BY <1>1 DEF Init, SearchInv, QueueInv, FullMeansNoPath

LEMMA SearchInvStep == SearchInv /\ [Next]_vars => SearchInv'
<1> SUFFICES ASSUME SearchInv, [Next]_vars PROVE SearchInv'
  OBVIOUS
<1>a. IInv /\ IInv' /\ TypeOK /\ KeyOK /\ QueueInv /\ FullMeansNoPath
  BY IInvStep DEF SearchInv, IInv
<1>b. ASSUME NEW status, NEW k, NEW p, Return(status, k, p), status # "failure_table_full"
      PROVE  SearchInv'
  BY <1>a, <1>b DEF Return, SearchInv, QueueInv, FullMeansNoPath
<1>c. ASSUME pc' # "idle", pc' # "slot_search", slots' = NoSlots, first' = 1
      PROVE  SearchInv'
  BY <1>a, <1>c DEF SearchInv, QueueInv, FullMeansNoPath
<1>d. ASSUME pc' = "slot_search", QueueShape', Searched'
      PROVE  SearchInv'
  BY <1>a, <1>d DEF SearchInv, QueueInv, FullMeansNoPath
<1>1. ASSUME NEW k \in Keys, InsertDuplicate(k) PROVE SearchInv'
  BY <1>1, <1>b DEF InsertDuplicate
<1>2. ASSUME NEW k \in Keys, InsertDirect(k) PROVE SearchInv'
  BY <1>2, <1>b DEF InsertDirect
<1>3. ASSUME NEW k \in Keys, RunCuckoo(k) PROVE SearchInv'
  <2>1. first' = 1 /\ slots' = Roots(k) /\ key' = k /\ pc' = "slot_search"
    BY <1>3, <1>a DEF RunCuckoo, QueueInv
  <2>2. QueueShape' /\ Searched'
    BY <2>1, EmptyShape
  <2> QED
    BY <1>d, <2>1, <2>2
<1>4. ASSUME SearchFound PROVE SearchInv'
  BY <1>4, <1>c DEF SearchFound
<1>5. ASSUME SearchExpand PROVE SearchInv'
  <2>1. pc = "slot_search" /\ pc' = "slot_search"
    BY <1>5 DEF SearchExpand
  <2>2. QueueShape' /\ Searched'
    BY <1>5, <1>a, <2>1, ExpandShape, ExpandSearched DEF QueueInv
  <2> QED
    BY <1>d, <2>1, <2>2
<1>6. ASSUME SearchFail PROVE SearchInv'
  <2>1. /\ pc = "slot_search" /\ first > Len(slots)
        /\ Return("failure_table_full", key, <<0, 0>>)
        /\ keys' = keys /\ occupied' = occupied
    BY <1>6 DEF SearchFail, storage
  <2>2. QueueInv'
    BY <2>1 DEF Return, QueueInv
  <2>3. ASSUME NEW w \in [PathIndex -> BucketIndex], EvictionWalk(w, key)
        PROVE  \A j \in PathIndex : Full(w[j])
    <3>1. LastLevel \in PathIndex /\ PathIndex \ {0} = 1 .. LastLevel
      BY LevelValues
    <3>2. Walk(w, LastLevel, key, keys)
      BY <2>3, <3>1 DEF EvictionWalk, Walk
    <3>3. \A q \in 1 .. Len(slots) : q < first
      BY <2>1, <1>a DEF TypeOK
    <3>4. Searched
      BY <1>a, <2>1 DEF QueueInv
    <3> QED
      BY <1>a, <3>1, <3>2, <3>3, <3>4, WalksFull, LevelValues
  <2>4. FullMeansNoPath'
    <3>1. ret'.key = key
      BY <2>1 DEF Return
    <3> QED
      BY <2>1, <2>3, <3>1 DEF FullMeansNoPath, EvictionWalk, Full,
             Home, i1, i2, index_hash, alt_index
  <2> QED
    BY <1>a, <2>2, <2>4 DEF SearchInv
<1>7. ASSUME DecodeStep PROVE SearchInv'
  BY <1>7, <1>a, <1>c DEF DecodeStep, QueueInv
<1>8. ASSUME PathStep PROVE SearchInv'
  BY <1>8, <1>a, <1>c DEF PathStep, QueueInv
<1>9. ASSUME MoveStep PROVE SearchInv'
  BY <1>9, <1>a, <1>c DEF MoveStep, QueueInv
<1>10. ASSUME MoveFail PROVE SearchInv'
  <2>1. /\ first' = 1 /\ slots' = Roots(key) /\ key' = key /\ pc' = "slot_search"
        /\ key \in Keys
    BY <1>10, <1>a DEF MoveFail, QueueInv, KeyOK
  <2>2. QueueShape' /\ Searched'
    BY <2>1, EmptyShape
  <2> QED
    BY <1>d, <2>1, <2>2
<1>11. ASSUME AddToBucket PROVE SearchInv'
  BY <1>11, <1>b DEF AddToBucket
<1>12. CASE UNCHANGED vars
  <2>1. /\ UNCHANGED <<pc, key, slots, first, ret>>
        /\ keys' = keys /\ occupied' = occupied
    BY <1>12 DEF vars
  <2>2. QueueInv'
    BY <1>a, <2>1 DEF QueueInv, QueueShape, Searched, Expanded, Full
  <2>3. FullMeansNoPath'
    BY <1>a, <2>1 DEF FullMeansNoPath, EvictionWalk, Full
  <2> QED
    BY <1>a, <2>2, <2>3 DEF SearchInv
<1> QED
  BY <1>1, <1>2, <1>3, <1>4, <1>5, <1>6, <1>7, <1>8, <1>9, <1>10, <1>11, <1>12
     DEF Next, Call, Step

LEMMA SearchInvariance == Spec => []SearchInv
BY SearchInvInit, SearchInvStep, PTL DEF Spec

------------------------------------------------------------------------------
(* What it gives.                                                           *)

LEMMA SearchQueueFits == SearchInv => QueueFits
<1> SUFFICES ASSUME SearchInv PROVE QueueFits
  OBVIOUS
<1>1. /\ QueueBefore(LastLevel) \in Nat /\ first - 1 \in Nat
      /\ MAX_CUCKOO_COUNT = 2 + SlotPerBucket * QueueBefore(LastLevel)
  BY LevelValues, QueueBeforeValues, MaxCount DEF SearchInv, IInv, TypeOK, LastLevel
<1>2. SlotPerBucket \in Nat /\ SlotPerBucket * QueueBefore(LastLevel) \in Nat
  BY <1>1, SlotPerBucketAssumption
<1>3. CASE pc = "slot_search"
  <2>1. Len(slots) = 2 + SlotPerBucket * Expanded
    BY <1>3 DEF SearchInv, QueueInv, QueueShape
  <2>2. Expanded \in Nat /\ Expanded <= QueueBefore(LastLevel)
    BY <1>1 DEF Expanded
  <2>3. /\ SlotPerBucket * Expanded \in Nat
        /\ SlotPerBucket * Expanded <= SlotPerBucket * QueueBefore(LastLevel)
    BY <1>1, <1>2, <2>2, TimesMonotone
  <2> QED
    BY <1>1, <1>2, <2>1, <2>3 DEF QueueFits
<1>4. CASE pc # "slot_search"
  <2>1. Len(slots) = 0
    BY <1>4 DEF SearchInv, QueueInv, NoSlots
  <2> QED
    BY <1>1, <1>2, <2>1 DEF QueueFits
<1> QED
  BY <1>3, <1>4

\* MAX_CUCKOO_COUNT is enough: whatever the hashes, the number of slots of a
\* bucket and the length of a path, slot_search never writes past slots_.
THEOREM QueueFitsHolds == Spec => []QueueFits
BY SearchQueueFits, SearchInvariance, PTL

\* failure_table_full is the truth: no walk of evictions within the length of
\* a path leads from a bucket of the key to a free slot.
THEOREM FullMeansNoPathHolds == Spec => []FullMeansNoPath
<1>1. SearchInv => FullMeansNoPath
  BY DEF SearchInv
<1> QED
  BY <1>1, SearchInvariance, PTL
------------------------------------------------------------------------------
(* Part 3: the cuckoo path, in tables whose pathcode is wide enough.        *)

\* What the width of the pathcode has to satisfy: the pathcodes number the
\* paths from two roots.  The static_assert of b_slot asks for the paths from
\* one only (PathcodeMaxAssumption), which is not enough; the values of the
\* code, 4 slots, 5 buckets and 16 bits, satisfy both.
PathcodeFits == 2 * const_pow[MAX_BFS_PATH_LEN] <= PathcodeMax + 1

------------------------------------------------------------------------------
(* Trails: the walk a pathcode stands for.                                  *)

RootBucket(n, k) == IF n = 0 THEN i1(k) ELSE i2(k)

\* v[j] is the pathcode and w[j] the bucket after j evictions of a path for
\* key k in the table with the bytes `bytes`; the buckets before the n-th are
\* in `full`.
Trail(v, w, n, k, bytes, full) ==
    /\ v[0] \in {0, 1}
    /\ w[0] = RootBucket(v[0], k)
    /\ \A j \in 0 .. n - 1 :
          /\ w[j] \in full
          /\ v[j + 1] \div SlotPerBucket = v[j]
          /\ w[j + 1] = alt_index(bytes[<<w[j], v[j + 1] % SlotPerBucket>>], w[j])

FullIn(occ) == {b \in BucketIndex : \A s \in SlotIndex : occ[<<b, s>>]}

Codes   == [Nat -> Nat]
Buckets == [Nat -> BucketIndex]

\* x was reached along a trail, which its pathcode encodes.
OnTrail(x, k, bytes, full) ==
    /\ x.pathcode < 2 * const_pow[x.depth]
    /\ \E v \in Codes, w \in Buckets :
          /\ Trail(v, w, x.depth, k, bytes, full)
          /\ v[x.depth] = x.pathcode
          /\ w[x.depth] = x.bucket

\* A trail is a walk.
LEMMA TrailWalks ==
    ASSUME NEW k \in Keys, NEW n \in Nat, NEW v \in Codes, NEW w,
           NEW bytes, NEW full, Trail(v, w, n, k, bytes, full)
    PROVE  Walk(w, n, k, bytes)
<1>1. w[0] \in Home(k)
  BY DEF Trail, RootBucket, Home
<1>2. ASSUME NEW j \in 1 .. n
      PROVE  \E s \in SlotIndex : w[j] = alt_index(bytes[<<w[j - 1], s>>], w[j - 1])
  <2>1. j - 1 \in 0 .. n - 1 /\ (j - 1) + 1 = j /\ v[j] \in Nat
    BY DEF Codes
  <2>2. w[j] = alt_index(bytes[<<w[j - 1], v[j] % SlotPerBucket>>], w[j - 1])
    BY <2>1 DEF Trail
  <2>3. v[j] % SlotPerBucket \in SlotIndex
    BY <2>1, SlotPerBucketAssumption DEF SlotIndex
  <2> QED
    BY <2>2, <2>3
<1> QED
  BY <1>1, <1>2 DEF Walk

LEMMA ConstPowMonotone ==
    ASSUME NEW m \in Nat, NEW n \in Nat, m <= n
    PROVE  const_pow[m] <= const_pow[n]
<1> DEFINE S == {d \in Nat : const_pow[m] <= const_pow[m + d]}
<1>1. 0 \in S
  BY ConstPow
<1>2. ASSUME NEW d \in Nat, d \in S PROVE d + 1 \in S
  <2> DEFINE p == const_pow[m + d]
  <2>1. /\ m + d \in Nat /\ m + (d + 1) = (m + d) + 1
        /\ const_pow[m] \in Nat /\ p \in Nat
        /\ const_pow[(m + d) + 1] = SlotPerBucket * p
    BY ConstPow
  <2>2. const_pow[m] <= p
    BY <1>2
  <2> HIDE DEF p
  <2>3. p <= SlotPerBucket * p
    <3>1. p * 1 = p /\ SlotPerBucket * p = p * SlotPerBucket
      BY <2>1, SlotPerBucketAssumption
    <3> QED
      BY <2>1, <3>1, SlotPerBucketAssumption, TimesMonotone
  <2>4. SlotPerBucket * p \in Nat
    BY <2>1, SlotPerBucketAssumption
  <2> QED
    BY <2>1, <2>2, <2>3, <2>4
<1> HIDE DEF S
<1>3. \A d \in Nat : d \in S
  BY <1>1, <1>2, NatInductionInSet
<1>4. n - m \in Nat /\ m + (n - m) = n
  OBVIOUS
<1> QED
  BY <1>3, <1>4 DEF S

\* While the pathcodes fit, extending one appends a digit to it.
LEMMA ExtendExact ==
    ASSUME PathcodeFits, NEW x \in b_slot, NEW s \in SlotIndex,
           x.pathcode < 2 * const_pow[x.depth]
    PROVE  /\ Extend(x, s) = x.pathcode * SlotPerBucket + s
           /\ Extend(x, s) < 2 * const_pow[x.depth + 1]
           /\ Extend(x, s) \div SlotPerBucket = x.pathcode
           /\ Extend(x, s) % SlotPerBucket = s
<1> DEFINE c == SlotPerBucket
           p == x.pathcode
           d == x.depth
<1>1. c \in Nat \ {0} /\ p \in Nat /\ d \in Nat /\ d + 1 <= MAX_BFS_PATH_LEN
      /\ s \in 0 .. c - 1 /\ PathcodeMax \in Nat /\ MAX_BFS_PATH_LEN \in Nat
  BY SlotPerBucketAssumption, PathcodeMaxAssumption, PathLenAssumption
     DEF b_slot, SlotIndex, PathIndex
<1>2. const_pow[d] \in Nat /\ const_pow[d + 1] \in Nat /\ const_pow[d + 1] = c * const_pow[d]
  BY <1>1, ConstPow
<1>3. const_pow[d + 1] <= const_pow[MAX_BFS_PATH_LEN]
  BY <1>1, ConstPowMonotone
<1>4. p * c + s < 2 * const_pow[d + 1]
  <2> HIDE DEF c, p, d
  <2>1. p + 1 <= 2 * const_pow[d] /\ 2 * const_pow[d] \in Nat
    BY <1>1, <1>2 DEF p, d
  <2>2. c * (p + 1) <= c * (2 * const_pow[d])
    BY <1>1, <2>1, TimesMonotone
  <2>3. c * (p + 1) = p * c + c /\ c * (2 * const_pow[d]) = 2 * (c * const_pow[d])
        /\ p * c \in Nat
    BY <1>1, <1>2
  <2> QED
    BY <1>1, <1>2, <2>2, <2>3
<1>5. p * c + s \in Nat /\ p * c + s <= PathcodeMax
  <2> HIDE DEF c, p, d
  <2>1. p * c \in Nat /\ const_pow[MAX_BFS_PATH_LEN] \in Nat
    BY <1>1, ConstPow
  <2> QED
    BY <1>1, <1>2, <1>3, <1>4, <2>1 DEF PathcodeFits
<1>6. Extend(x, s) = p * c + s
  <2>1. Extend(x, s) = (p * c + s) % (PathcodeMax + 1)
    BY DEF Extend
  <2> HIDE DEF c, p, d
  <2> QED
    BY <1>1, <1>5, <2>1
<1>7. (p * c + s) \div c = p /\ (p * c + s) % c = s
  <2> HIDE DEF c, p, d
  <2> QED
    BY <1>1
<1> QED
  BY <1>4, <1>6, <1>7

LEMMA TrailExtends ==
    ASSUME NEW k, NEW n \in Nat, NEW v \in Codes, NEW w \in Buckets,
           NEW bytes, NEW full, Trail(v, w, n, k, bytes, full), w[n] \in full,
           NEW p \in Nat, p \div SlotPerBucket = v[n],
           NEW b \in BucketIndex,
           b = alt_index(bytes[<<w[n], p % SlotPerBucket>>], w[n])
    PROVE  \E v2 \in Codes, w2 \in Buckets :
              /\ Trail(v2, w2, n + 1, k, bytes, full)
              /\ v2[n + 1] = p
              /\ w2[n + 1] = b
<1> DEFINE v2 == [v EXCEPT ![n + 1] = p]
           w2 == [w EXCEPT ![n + 1] = b]
<1>1. v2 \in Codes /\ w2 \in Buckets /\ v2[n + 1] = p /\ w2[n + 1] = b
  BY DEF Codes, Buckets
<1>2. \A j \in 0 .. n : v2[j] = v[j] /\ w2[j] = w[j]
  BY DEF Codes, Buckets
<1> HIDE DEF v2, w2
<1>3. v2[0] \in {0, 1} /\ w2[0] = RootBucket(v2[0], k)
  BY <1>2 DEF Trail
<1>4. ASSUME NEW j \in 0 .. (n + 1) - 1
      PROVE  /\ w2[j] \in full
             /\ v2[j + 1] \div SlotPerBucket = v2[j]
             /\ w2[j + 1] = alt_index(bytes[<<w2[j], v2[j + 1] % SlotPerBucket>>], w2[j])
  <2>1. CASE j = n
    BY <1>1, <1>2, <2>1
  <2>2. CASE j # n
    <3>1. j \in 0 .. n - 1 /\ j \in 0 .. n /\ j + 1 \in 0 .. n
      BY <2>2
    <3> QED
      BY <1>2, <3>1 DEF Trail
  <2> QED
    BY <2>1, <2>2
<1>5. Trail(v2, w2, n + 1, k, bytes, full)
  BY <1>3, <1>4 DEF Trail
<1> QED
  BY <1>1, <1>5

LEMMA RootsOnTrail ==
    ASSUME NEW k \in Keys, NEW bytes, NEW full, NEW q \in 1 .. Len(Roots(k))
    PROVE  OnTrail(Roots(k)[q], k, bytes, full)
<1>1. ASSUME NEW r \in {0, 1}
      PROVE  OnTrail([bucket |-> RootBucket(r, k), pathcode |-> r, depth |-> 0],
                     k, bytes, full)
  <2> DEFINE v == [j \in Nat |-> r]
             w == [j \in Nat |-> RootBucket(r, k)]
  <2>1. v \in Codes /\ w \in Buckets
    BY AltHome DEF Codes, Buckets, RootBucket
  <2>2. Trail(v, w, 0, k, bytes, full)
    BY DEF Trail
  <2>3. r < 2 * const_pow[0]
    BY ConstPow
  <2> QED
    BY <2>1, <2>2, <2>3 DEF OnTrail
<1>2. \/ Roots(k)[q] = [bucket |-> RootBucket(0, k), pathcode |-> 0, depth |-> 0]
      \/ Roots(k)[q] = [bucket |-> RootBucket(1, k), pathcode |-> 1, depth |-> 0]
  BY DEF Roots, RootBucket
<1> QED
  BY <1>1, <1>2

LEMMA ChildOnTrail ==
    ASSUME PathcodeFits, TypeOK, NEW x \in b_slot, CanExtend(x), Full(x.bucket),
           NEW k, OnTrail(x, k, keys, FullIn(occupied)), NEW s \in SlotIndex
    PROVE  OnTrail(Child(x, s), k, keys, FullIn(occupied))
<1> DEFINE p == Extend(x, s)
           b == alt_index(keys[<<x.bucket, s>>], x.bucket)
           full == FullIn(occupied)
           d == x.depth
<1>1. PICK v \in Codes, w \in Buckets :
          /\ Trail(v, w, d, k, keys, full)
          /\ v[d] = x.pathcode
          /\ w[d] = x.bucket
  BY DEF OnTrail
<1>2. /\ p \in Nat /\ p < 2 * const_pow[d + 1]
      /\ p \div SlotPerBucket = x.pathcode
      /\ p % SlotPerBucket = s
  <2>1. x.pathcode < 2 * const_pow[d]
    BY DEF OnTrail
  <2> QED
    BY <2>1, ExtendExact, ExtendType
<1>3. x.bucket \in BucketIndex /\ d \in Nat
  BY DEF b_slot, PathIndex
<1>4. b \in BucketIndex
  <2>1. keys[<<x.bucket, s>>] \in KeyBytes
    BY <1>3 DEF TypeOK, StorageTypeOK, Slots
  <2> QED
    BY <1>3, <2>1, HashAssumption DEF alt_index
<1>5. x.bucket \in full
  BY <1>3 DEF Full, FullIn
<1> HIDE DEF p, b, full, d
<1>6. /\ b = alt_index(keys[<<w[d], p % SlotPerBucket>>], w[d])
      /\ p \div SlotPerBucket = v[d]
      /\ w[d] \in full
  BY <1>1, <1>2, <1>5 DEF b
<1>7. \E v2 \in Codes, w2 \in Buckets :
              /\ Trail(v2, w2, d + 1, k, keys, full)
              /\ v2[d + 1] = p
              /\ w2[d + 1] = b
  <2>1. d \in Nat /\ p \in Nat /\ Trail(v, w, d, k, keys, full)
    BY <1>1, <1>2, <1>3
  <2>2. w[d] \in full /\ p \div SlotPerBucket = v[d] /\ b \in BucketIndex
    BY <1>4, <1>6
  <2>3. b = alt_index(keys[<<w[d], p % SlotPerBucket>>], w[d])
    BY <1>6
  <2> QED
    BY <2>1, <2>2, <2>3, TrailExtends
<1>8. Child(x, s).pathcode = p /\ Child(x, s).bucket = b /\ Child(x, s).depth = d + 1
  BY DEF Child, p, b, d
<1> QED
  BY <1>2, <1>7, <1>8 DEF OnTrail, full

\* A path found by a breadth-first search visits no bucket twice: cutting the
\* loop out would give a shorter walk to the same free slot.
LEMMA ShortestIsSimple ==
    ASSUME NEW k \in Keys, NEW n \in Nat, NEW v \in Codes, NEW w \in Buckets,
           NEW bytes, NEW full, Trail(v, w, n, k, bytes, full), w[n] \notin full,
           \A m \in 0 .. n - 1 : \A u \in Buckets : Walk(u, m, k, bytes) => u[m] \in full
    PROVE  \A a, b \in 0 .. n : w[a] = w[b] => a = b
<1>1. ASSUME NEW a \in 0 .. n, NEW b \in 0 .. n, a < b, w[a] = w[b]
      PROVE  FALSE
  <2> DEFINE m == n - (b - a)
             u == [j \in Nat |-> IF j <= a THEN w[j] ELSE w[j + (b - a)]]
  <2>1. m \in 0 .. n - 1 /\ m + (b - a) = n /\ a <= m
    BY <1>1
  <2>2. u \in Buckets
    BY <1>1 DEF Buckets
  <2>3. Walk(w, n, k, bytes)
    BY TrailWalks
  <2>4. /\ \A j \in Nat : j <= a => u[j] = w[j]
        /\ \A j \in Nat : j >= a => u[j] = w[j + (b - a)]
    BY <1>1
  <2> HIDE DEF m, u
  <2>5. Walk(u, m, k, bytes)
    <3>1. u[0] \in Home(k)
      BY <2>3, <2>4 DEF Walk
    <3>2. ASSUME NEW j \in 1 .. m
          PROVE  \E s \in SlotIndex : u[j] = alt_index(bytes[<<u[j - 1], s>>], u[j - 1])
      <4>1. CASE j <= a
        <5>1. j \in 1 .. n /\ u[j] = w[j] /\ u[j - 1] = w[j - 1]
          BY <2>1, <2>4, <4>1
        <5> QED
          BY <2>3, <5>1 DEF Walk
      <4>2. CASE j > a
        <5> DEFINE l == j + (b - a)
        <5>1. l \in 1 .. n /\ (j - 1) + (b - a) = l - 1 /\ j - 1 >= a /\ j - 1 \in Nat
          BY <1>1, <2>1, <4>2
        <5>2. u[j] = w[l] /\ u[j - 1] = w[l - 1]
          BY <2>4, <4>2, <5>1
        <5> HIDE DEF l
        <5> QED
          BY <2>3, <5>1, <5>2 DEF Walk
      <4> QED
        BY <4>1, <4>2
    <3> QED
      BY <3>1, <3>2 DEF Walk
  <2>6. u[m] = w[n]
    BY <2>1, <2>4
  <2> QED
    BY <2>1, <2>2, <2>5, <2>6
<1> QED
  BY <1>1

------------------------------------------------------------------------------
(* The invariant of the path.                                               *)

\* The n-th bucket of a trail for k has a free slot, the one the last digit
\* of the pathcode v[n + 1] names.  The buckets are distinct, and the free slot
\* is not in the first.
Found(v, w, n, k, bytes, occ) ==
    /\ Trail(v, w, n, k, bytes, FullIn(occ))
    /\ n > 0
    /\ v[n + 1] \div SlotPerBucket = v[n]
    /\ ~occ[<<w[n], v[n + 1] % SlotPerBucket>>]
    /\ \A a, b \in 0 .. n : w[a] = w[b] => a = b

\* The slots of the records above i are decoded, the code is what is left.
Decoding(v) ==
    /\ code = v[i + 1]
    /\ \A j \in i + 1 .. depth : path[j].slot = v[j + 1] % SlotPerBucket

\* All slots are decoded, the records below i are filled in.
Filling(v, w) ==
    /\ code = v[0]
    /\ \A j \in 0 .. depth : path[j].slot = v[j + 1] % SlotPerBucket
    /\ \A j \in 0 .. i - 1 : /\ path[j].bucket = w[j]
                             /\ path[j].key = keys[<<w[j], v[j + 1] % SlotPerBucket>>]

\* Each record before the last is where its item is, the last is free, and no
\* move disturbs another.
Movable ==
    /\ depth > 0
    /\ \A a, b \in 0 .. depth : path[a].bucket = path[b].bucket => a = b
    /\ \A j \in 0 .. depth - 1 : /\ occupied[At(path[j])]
                                 /\ keys[At(path[j])] = path[j].key
    /\ ~occupied[At(path[depth])]

PathInv ==
    /\ pc = "slot_search" =>
          /\ Home(key) \subseteq FullIn(occupied)
          /\ \A q \in 1 .. Len(slots) : OnTrail(slots[q], key, keys, FullIn(occupied))
    /\ pc = "decode" => \E v \in Codes, w \in Buckets :
                            Found(v, w, depth, key, keys, occupied) /\ Decoding(v)
    /\ pc = "cuckoopath_search" => \E v \in Codes, w \in Buckets :
                            Found(v, w, depth, key, keys, occupied) /\ Filling(v, w)
    /\ pc = "cuckoopath_move" => Movable
    /\ pc = "add_to_bucket" => depth = 0

\* The first bucket with a free slot that the search dequeues ends a trail
\* that can be followed.
LEMMA FoundOnTrail ==
    ASSUME PathcodeFits, SearchInv, PathInv, pc = "slot_search",
           first \in 1 .. Len(slots), NEW s \in SlotIndex,
           ~occupied[<<slots[first].bucket, s>>]
    PROVE  \E v \in Codes, w \in Buckets :
              /\ Found(v, w, slots[first].depth, key, keys, occupied)
              /\ v[slots[first].depth + 1] = Extend(slots[first], s)
<1> DEFINE x == slots[first]
           d == slots[first].depth
           full == FullIn(occupied)
           p == Extend(slots[first], s)
<1>1. /\ TypeOK /\ QueueShape /\ Searched /\ slots \in Seq(b_slot) /\ key \in Keys
  BY DEF SearchInv, IInv, QueueInv, TypeOK, KeyOK
<1>2. x \in b_slot /\ d \in PathIndex /\ d \in Nat /\ x.bucket \in BucketIndex
  <2>1. x \in b_slot
    BY <1>1
  <2> QED
    BY <2>1 DEF b_slot, PathIndex
<1>3. PICK v \in Codes, u \in Buckets :
          /\ Trail(v, u, d, key, keys, full)
          /\ v[d] = x.pathcode /\ u[d] = x.bucket /\ x.pathcode < 2 * const_pow[d]
  BY DEF PathInv, OnTrail
<1>4. p \in Nat /\ p \div SlotPerBucket = x.pathcode /\ p % SlotPerBucket = s
  BY <1>2, <1>3, ExtendExact, ExtendType
<1>5. u[d] \notin full
  BY <1>2, <1>3 DEF FullIn
<1>6. ASSUME NEW m \in 0 .. d - 1, NEW y \in Buckets, Walk(y, m, key, keys)
      PROVE  y[m] \in full
  <2>1. m \in PathIndex /\ m \in Nat /\ m + 1 <= d
    BY <1>2, LevelValues
  <2>2. ASSUME NEW q \in 1 .. Len(slots), slots[q].depth <= m PROVE q < first
    <3>1. slots[q] \in b_slot
      BY <1>1
    <3>2. slots[q].depth \in Nat
      BY <3>1 DEF b_slot, PathIndex
    <3>3. q <= QueueBefore(slots[q].depth + 1) /\ QueueBefore(d) < first
      BY <1>1 DEF QueueShape
    <3>4. slots[q].depth + 1 <= d /\ slots[q].depth + 1 \in Nat
      BY <2>1, <2>2, <3>2, <1>2
    <3>5. QueueBefore(slots[q].depth + 1) <= QueueBefore(d)
      BY <1>2, <3>4, QueueBeforeMonotone
    <3>6. QueueBefore(d) \in Nat /\ QueueBefore(slots[q].depth + 1) \in Nat /\ first \in Nat
      BY <1>1, <1>2, <3>4, QueueBeforeValues DEF TypeOK
    <3> HIDE DEF d
    <3> QED
      BY <3>3, <3>5, <3>6
  <2>3. Full(y[m])
    BY <1>1, <1>6, <2>1, <2>2, WalksFull
  <2>4. y[m] \in BucketIndex
    BY <2>1 DEF Buckets
  <2> QED
    BY <2>3, <2>4 DEF Full, FullIn
<1> HIDE DEF d, full, p, x
<1>7. \A a, b \in 0 .. d : u[a] = u[b] => a = b
  BY <1>1, <1>2, <1>3, <1>5, <1>6, ShortestIsSimple
<1>8. d > 0
  <2> SUFFICES ASSUME d = 0 PROVE FALSE
    BY <1>2
  <2>1. u[0] \in Home(key)
    BY <1>3 DEF Trail, RootBucket, Home
  <2> QED
    BY <1>5, <2>1 DEF PathInv, full
<1> DEFINE t == [v EXCEPT ![d + 1] = p]
<1>9. /\ t \in Codes /\ t[d + 1] = p
      /\ \A j \in 0 .. d : t[j] = v[j]
  <2>1. d + 1 \in Nat
    BY <1>2
  <2>2. v \in [Nat -> Nat]
    BY DEF Codes
  <2>3. \A j \in 0 .. d : j \in Nat /\ j # d + 1
    BY <1>2
  <2> QED
    BY <1>4, <2>1, <2>2, <2>3 DEF Codes
<1> HIDE DEF t
<1>10. Trail(t, u, d, key, keys, full)
  <2>1. \A j \in 0 .. d - 1 : t[j] = v[j] /\ t[j + 1] = v[j + 1]
    BY <1>2, <1>9
  <2>2. t[0] = v[0]
    BY <1>2, <1>9
  <2> QED
    BY <1>3, <2>1, <2>2 DEF Trail
<1>11. t[d] = v[d]
  BY <1>2, <1>9
<1>12. Found(t, u, d, key, keys, occupied)
  <2>1. ~occupied[<<u[d], t[d + 1] % SlotPerBucket>>]
    BY <1>3, <1>4, <1>9 DEF x
  <2>2. t[d + 1] \div SlotPerBucket = t[d]
    BY <1>3, <1>4, <1>9, <1>11
  <2> QED
    BY <1>7, <1>8, <1>10, <2>1, <2>2 DEF Found, full
<1> QED
  BY <1>9, <1>12 DEF d, p

LEMMA PathInvInit == Init => PathInv
BY DEF Init, PathInv

LEMMA DecodeStepPath ==
    ASSUME TypeOK, i <= depth, NEW v \in Codes, NEW w \in Buckets,
           Found(v, w, depth, key, keys, occupied), Decoding(v), DecodeStep
    PROVE  /\ depth' = depth
           /\ pc' = "decode" => Decoding(v)'
           /\ pc' = "cuckoopath_search" => Filling(v, w)'
<1>1. /\ depth' = depth /\ keys' = keys /\ i \in Nat /\ depth \in Nat
      /\ path \in [PathIndex -> CuckooRecord] /\ i \in PathIndex
      /\ path' = [path EXCEPT ![i].slot = code % SlotPerBucket]
      /\ code' = code \div SlotPerBucket
      /\ pc = "decode"
      /\ \A j \in 0 .. depth : j \in PathIndex
  BY LevelValues DEF DecodeStep, TypeOK, PathIndex, storage
<1>2. v[i + 1] \div SlotPerBucket = v[i]
  <2>1. CASE i = depth
    BY <2>1 DEF Found
  <2>2. CASE i # depth
    <3>1. i \in 0 .. depth - 1
      BY <1>1, <2>2
    <3> QED
      BY <3>1 DEF Found, Trail
  <2> QED
    BY <2>1, <2>2
<1>3. code' = v[i]
  BY <1>1, <1>2 DEF Decoding
<1>4. \A j \in i .. depth : path'[j].slot = v[j + 1] % SlotPerBucket
  <2> SUFFICES ASSUME NEW j \in i .. depth
               PROVE  path'[j].slot = v[j + 1] % SlotPerBucket
    OBVIOUS
  <2>1. j \in PathIndex
    BY <1>1
  <2>2. CASE j = i
    BY <1>1, <2>1, <2>2 DEF Decoding, CuckooRecord
  <2>3. CASE j # i
    <3>1. j \in i + 1 .. depth /\ path'[j] = path[j]
      BY <1>1, <2>1, <2>3
    <3> QED
      BY <3>1 DEF Decoding
  <2> QED
    BY <2>2, <2>3
<1>5. CASE i > 0
  <2>1. i' = i - 1 /\ pc' = "decode" /\ i' + 1 = i
    BY <1>1, <1>5 DEF DecodeStep
  <2> QED
    BY <1>1, <1>3, <1>4, <2>1 DEF Decoding
<1>6. CASE ~(i > 0)
  <2>1. i = 0 /\ i' = 0 /\ pc' = "cuckoopath_search"
    BY <1>1, <1>6 DEF DecodeStep
  <2>2. \A j \in 0 .. i' - 1 : FALSE
    BY <2>1
  <2> QED
    BY <1>1, <1>3, <1>4, <2>1, <2>2 DEF Filling
<1> QED
  BY <1>1, <1>5, <1>6

LEMMA PathStepPath ==
    ASSUME TypeOK, i <= depth, NEW v \in Codes, NEW w \in Buckets,
           Found(v, w, depth, key, keys, occupied), Filling(v, w), PathStep
    PROVE  \/ /\ pc' = "cuckoopath_search" /\ depth' = depth
              /\ Filling(v, w)'
           \/ /\ pc' = "cuckoopath_move"
              /\ Movable'
<1> DEFINE s == v[i + 1] % SlotPerBucket
           p == <<w[i], s>>
<1>1. /\ keys' = keys /\ occupied' = occupied /\ i \in Nat /\ depth \in Nat
      /\ path \in [PathIndex -> CuckooRecord] /\ i \in PathIndex
      /\ pc = "cuckoopath_search" /\ code' = code
      /\ \A j \in 0 .. depth : j \in PathIndex
  BY LevelValues DEF PathStep, TypeOK, PathIndex, storage
<1>2. i \in 0 .. depth /\ path[i].slot = s
  BY <1>1 DEF Filling
<1>3. PathBucket = w[i]
  <2>1. CASE i = 0
    BY <2>1 DEF Filling, Found, Trail, PathBucket, RootBucket
  <2>2. CASE i # 0
    <3>1. i - 1 \in 0 .. i - 1 /\ i - 1 \in 0 .. depth - 1 /\ (i - 1) + 1 = i
      BY <1>1, <2>2
    <3>2. /\ path[i - 1].bucket = w[i - 1]
          /\ path[i - 1].key = keys[<<w[i - 1], v[i] % SlotPerBucket>>]
      BY <3>1 DEF Filling
    <3>3. w[i] = alt_index(keys[<<w[i - 1], v[i] % SlotPerBucket>>], w[i - 1])
      BY <3>1 DEF Found, Trail
    <3> QED
      BY <2>2, <3>2, <3>3 DEF PathBucket
  <2> QED
    BY <2>1, <2>2
<1>4. path' = [path EXCEPT ![i].bucket = w[i],
                           ![i].key = IF occupied[p] THEN keys[p] ELSE @]
  BY <1>2, <1>3 DEF PathStep
<1> HIDE DEF p, s
<1>5. /\ path'[i].bucket = w[i] /\ path'[i].slot = path[i].slot
      /\ occupied[p] => path'[i].key = keys[p]
      /\ \A j \in PathIndex : j # i => path'[j] = path[j]
  BY <1>1, <1>4 DEF CuckooRecord
<1>6. \A j \in 0 .. depth : path'[j].slot = v[j + 1] % SlotPerBucket
  BY <1>1, <1>5 DEF Filling
<1>7. \A j \in 0 .. i : path'[j].bucket = w[j]
  <2> SUFFICES ASSUME NEW j \in 0 .. i PROVE path'[j].bucket = w[j]
    OBVIOUS
  <2>1. CASE j = i
    BY <1>5, <2>1
  <2>2. CASE j # i
    <3>1. j \in 0 .. i - 1 /\ j \in PathIndex
      BY <1>1, <2>2
    <3> QED
      BY <1>5, <2>2, <3>1 DEF Filling
  <2> QED
    BY <2>1, <2>2
<1>8. \A j \in 0 .. i - 1 : path'[j].key = keys[<<w[j], v[j + 1] % SlotPerBucket>>]
  <2> SUFFICES ASSUME NEW j \in 0 .. i - 1
               PROVE  path'[j].key = keys[<<w[j], v[j + 1] % SlotPerBucket>>]
    OBVIOUS
  <2>1. j # i /\ j \in PathIndex
    BY <1>1
  <2> QED
    BY <1>5, <2>1 DEF Filling
<1>9. \A j \in 0 .. depth - 1 : occupied[<<w[j], v[j + 1] % SlotPerBucket>>]
  <2> SUFFICES ASSUME NEW j \in 0 .. depth - 1
               PROVE  occupied[<<w[j], v[j + 1] % SlotPerBucket>>]
    OBVIOUS
  <2>1. w[j] \in FullIn(occupied)
    BY DEF Found, Trail
  <2>2. v[j + 1] % SlotPerBucket \in SlotIndex
    <3>1. v[j + 1] \in Nat
      BY <1>1 DEF Codes
    <3> QED
      BY <3>1, SlotPerBucketAssumption DEF SlotIndex
  <2> QED
    BY <2>1, <2>2 DEF FullIn
<1>10. CASE i < depth
  <2>1. occupied[p]
    BY <1>1, <1>9, <1>10 DEF p, s
  <2>2. i' = i + 1 /\ pc' = "cuckoopath_search" /\ depth' = depth
    BY <1>1, <1>2, <1>3, <1>10, <2>1 DEF PathStep, p
  <2>3. \A j \in 0 .. i : path'[j].key = keys[<<w[j], v[j + 1] % SlotPerBucket>>]
    BY <1>1, <1>5, <1>8, <2>1 DEF p, s
  <2>4. i' - 1 = i
    BY <1>1, <2>2
  <2> QED
    BY <1>1, <1>6, <1>7, <2>2, <2>3, <2>4 DEF Filling
<1>11. CASE ~(i < depth)
  <2>1. i = depth
    BY <1>1, <1>11
  <2>2. depth' = depth /\ pc' = "cuckoopath_move"
    BY <1>1, <1>11, <2>1 DEF PathStep
  <2>3. \A j \in 0 .. depth : At(path'[j]) = <<w[j], v[j + 1] % SlotPerBucket>>
    BY <1>6, <1>7, <2>1 DEF At
  <2>4. /\ depth > 0
        /\ ~occupied[<<w[depth], v[depth + 1] % SlotPerBucket>>]
        /\ \A a, b \in 0 .. depth : w[a] = w[b] => a = b
    BY DEF Found
  <2>5. \A j \in 0 .. depth - 1 : occupied[At(path'[j])] /\ keys[At(path'[j])] = path'[j].key
    <3> SUFFICES ASSUME NEW j \in 0 .. depth - 1
                 PROVE  occupied[At(path'[j])] /\ keys[At(path'[j])] = path'[j].key
      OBVIOUS
    <3>1. j \in 0 .. depth /\ j \in 0 .. i - 1
      BY <1>1, <2>1
    <3>2. At(path'[j]) = <<w[j], v[j + 1] % SlotPerBucket>>
      BY <2>3, <3>1
    <3> QED
      BY <1>8, <1>9, <3>1, <3>2
  <2>6. ~occupied[At(path'[depth])]
    BY <1>1, <2>3, <2>4
  <2>7. \A a, b \in 0 .. depth : path'[a].bucket = path'[b].bucket => a = b
    BY <1>7, <2>1, <2>4
  <2> QED
    BY <1>1, <2>2, <2>4, <2>5, <2>6, <2>7 DEF Movable, At
<1> QED
  BY <1>10, <1>11

\* A path that can be moved along has positions no two of which are the same,
\* so that one move leaves the path one shorter.
LEMMA MoveStepPath ==
    ASSUME TypeOK, pc = "cuckoopath_move", Movable, MoveStep
    PROVE  /\ pc' \in {"cuckoopath_move", "add_to_bucket"}
           /\ pc' = "cuckoopath_move" => Movable'
           /\ pc' = "add_to_bucket" => depth' = 0
           /\ depth' = depth - 1 /\ path' = path
           /\ setK_eraseK(At(path[depth - 1]), At(path[depth]))
<1> DEFINE from == At(path[depth - 1])
           to   == At(path[depth])
<1>1. /\ depth \in PathIndex /\ depth \in Nat /\ depth > 0
      /\ \A j \in 0 .. depth : j \in PathIndex
      /\ depth - 1 \in 0 .. depth - 1
  BY LevelValues DEF TypeOK, PathIndex, Movable
<1>2. /\ setK_eraseK(from, to) /\ depth' = depth - 1 /\ path' = path
      /\ pc' = IF depth <= 1 THEN "add_to_bucket" ELSE pc
  BY <1>1 DEF MoveStep
<1>3. from \in Slots /\ to \in Slots /\ occupied[from] /\ ~occupied[to]
  BY <1>1, AtType DEF Movable
<1>4. /\ occupied' = [occupied EXCEPT ![to] = TRUE, ![from] = FALSE]
      /\ keys' = [keys EXCEPT ![to] = keys[from]]
      /\ occupied \in [Slots -> BOOLEAN] /\ keys \in [Slots -> KeyBytes]
  BY <1>2 DEF setK_eraseK, TypeOK, StorageTypeOK
<1>5. ~occupied'[from]
  BY <1>3, <1>4
<1>6. ASSUME NEW j \in 0 .. (depth - 1) - 1
      PROVE  occupied'[At(path[j])] /\ keys'[At(path[j])] = path[j].key
  <2>1. /\ j \in 0 .. depth /\ j \in 0 .. depth - 1
        /\ depth - 1 \in 0 .. depth /\ depth \in 0 .. depth
        /\ j # depth - 1 /\ j # depth /\ j \in PathIndex
    BY <1>1
  <2>2. path[j].bucket # path[depth - 1].bucket /\ path[j].bucket # path[depth].bucket
    BY <2>1 DEF Movable
  <2>3. At(path[j]) # from /\ At(path[j]) # to /\ At(path[j]) \in Slots
    BY <2>1, <2>2, AtType DEF At
  <2>4. occupied[At(path[j])] /\ keys[At(path[j])] = path[j].key
    BY <2>1 DEF Movable
  <2> HIDE DEF from, to
  <2> QED
    BY <1>4, <2>3, <2>4
<1>7. CASE depth = 1
  BY <1>2, <1>7
<1>8. CASE depth # 1
  <2>1. pc' = "cuckoopath_move" /\ depth' > 0
    BY <1>1, <1>2, <1>8
  <2>2. \A a, b \in 0 .. depth - 1 : path[a].bucket = path[b].bucket => a = b
    <3>1. \A a \in 0 .. depth - 1 : a \in 0 .. depth
      BY <1>1
    <3> QED
      BY <3>1 DEF Movable
  <2> QED
    BY <1>2, <1>5, <1>6, <2>1, <2>2 DEF Movable, At
<1> QED
  BY <1>2, <1>7, <1>8

LEMMA MovableCanMove ==
    ASSUME TypeOK, Movable
    PROVE  CanMove
<1>1. depth - 1 \in 0 .. depth - 1 /\ depth # 0
  BY LevelValues DEF TypeOK, PathIndex, Movable
<1> QED
  BY <1>1 DEF Movable, CanMove

LEMMA PathInvStep ==
    ASSUME PathcodeFits, SearchInv, PathInv, [Next]_vars
    PROVE  PathInv'
<1>a. /\ TypeOK /\ KeyOK /\ PathOK /\ QueueInv
  BY DEF SearchInv, IInv
<1>1. ASSUME NEW k \in Keys, NEW p, NEW status, Return(status, k, p) PROVE PathInv'
  BY <1>1 DEF Return, PathInv
<1>2. ASSUME NEW k \in Keys, RunCuckoo(k) PROVE PathInv'
  <2>1. /\ pc' = "slot_search" /\ slots' = Roots(k) /\ key' = k
        /\ keys' = keys /\ occupied' = occupied /\ Full(i1(k)) /\ Full(i2(k))
    BY <1>2 DEF RunCuckoo, storage
  <2>2. Home(k) \subseteq FullIn(occupied)
    BY <2>1, AltHome DEF Home, Full, FullIn
  <2>3. \A q \in 1 .. Len(slots') : OnTrail(slots'[q], k, keys, FullIn(occupied))
    BY <2>1, RootsOnTrail
  <2>4. Home(key') \subseteq FullIn(occupied')
    BY <2>1, <2>2
  <2> QED
    BY <2>1, <2>3, <2>4 DEF PathInv, Home, i1, i2, index_hash, alt_index
<1>3. ASSUME SearchFound PROVE PathInv'
  <2>1. PICK n \in SlotIndex :
          /\ ~occupied[<<slots[first].bucket, ScanSlot(slots[first], n)>>]
          /\ code' = Extend(slots[first], ScanSlot(slots[first], n))
          /\ depth' = slots[first].depth
          /\ i' = slots[first].depth
    BY <1>3 DEF SearchFound
  <2>2. /\ pc = "slot_search" /\ pc' = "decode" /\ first \in 1 .. Len(slots)
        /\ key' = key /\ keys' = keys /\ occupied' = occupied
        /\ slots \in Seq(b_slot)
    BY <1>3, <1>a DEF SearchFound, TypeOK, storage
  <2>3. slots[first] \in b_slot
    BY <2>2
  <2>4. ScanSlot(slots[first], n) \in SlotIndex
    <3>1. n \in Nat
      BY DEF SlotIndex
    <3> QED
      BY <2>3, <3>1, ScanSlotType
  <2>5. PICK v \in Codes, w \in Buckets :
              /\ Found(v, w, slots[first].depth, key, keys, occupied)
              /\ v[slots[first].depth + 1] = Extend(slots[first], ScanSlot(slots[first], n))
    BY <2>1, <2>2, <2>4, FoundOnTrail
  <2>6. Found(v, w, depth', key', keys', occupied')
    BY <2>1, <2>2, <2>5
  <2>7. \A j \in i' + 1 .. depth' : FALSE
    <3>1. slots[first].depth \in Nat
      BY <2>3 DEF b_slot, PathIndex
    <3> QED
      BY <2>1, <3>1
  <2>8. Decoding(v)'
    BY <2>1, <2>5, <2>7 DEF Decoding
  <2> QED
    BY <2>2, <2>6, <2>8 DEF PathInv
<1>4. ASSUME SearchExpand PROVE PathInv'
  <2>1. /\ pc = "slot_search" /\ pc' = "slot_search" /\ first \in 1 .. Len(slots)
        /\ key' = key /\ keys' = keys /\ occupied' = occupied
        /\ slots \in Seq(b_slot) /\ Full(slots[first].bucket)
    BY <1>4, <1>a DEF SearchExpand, TypeOK, storage
  <2>2. ASSUME NEW q \in 1 .. Len(slots')
        PROVE  OnTrail(slots'[q], key, keys, FullIn(occupied))
    <3>1. CASE q \in 1 .. Len(slots)
      BY <1>4, <1>a, <2>1, <3>1, Appends DEF PathInv
    <3>2. CASE q \notin 1 .. Len(slots)
      <4>1. CanExtend(slots[first])
        BY <1>4, <3>2 DEF SearchExpand
      <4>2. slots[first] \in b_slot
        BY <2>1
      <4>3. Children(slots[first]) \in Seq(b_slot) /\ slots' = slots \o Children(slots[first])
        BY <1>4, <1>a, <4>1, <4>2, ChildrenType DEF CanExtend, SearchExpand
      <4>4. q - Len(slots) \in 1 .. SlotPerBucket /\ Len(slots) + (q - Len(slots)) = q
        BY <1>a, <2>1, <3>2, <4>2, <4>3, ChildrenValues
      <4> DEFINE n == q - Len(slots)
      <4>5. slots'[q] = Child(slots[first], ScanSlot(slots[first], n - 1)) /\ n - 1 \in Nat
        BY <1>4, <1>a, <4>1, <4>4, Appends
      <4>6. ScanSlot(slots[first], n - 1) \in SlotIndex
        BY <4>2, <4>5, ScanSlotType
      <4>7. OnTrail(slots[first], key, keys, FullIn(occupied))
        BY <2>1 DEF PathInv
      <4> HIDE DEF n
      <4> QED
        BY <1>a, <2>1, <4>1, <4>2, <4>5, <4>6, <4>7, ChildOnTrail
    <3> QED
      BY <3>1, <3>2
  <2>3. Home(key') \subseteq FullIn(occupied')
    BY <2>1 DEF PathInv
  <2> QED
    BY <2>1, <2>2, <2>3 DEF PathInv, Home, i1, i2, index_hash, alt_index
<1>5. ASSUME DecodeStep PROVE PathInv'
  <2>1. pc = "decode" /\ i <= depth
    BY <1>5, <1>a DEF DecodeStep, PathOK
  <2>2. PICK v \in Codes, w \in Buckets :
            Found(v, w, depth, key, keys, occupied) /\ Decoding(v)
    BY <2>1 DEF PathInv
  <2>3. /\ key' = key /\ keys' = keys /\ occupied' = occupied
        /\ pc' \in {"decode", "cuckoopath_search"}
    BY <1>5, <2>1 DEF DecodeStep, storage
  <2>4. /\ depth' = depth
        /\ pc' = "decode" => Decoding(v)'
        /\ pc' = "cuckoopath_search" => Filling(v, w)'
    BY <1>5, <1>a, <2>1, <2>2, DecodeStepPath
  <2>5. Found(v, w, depth', key', keys', occupied')
    BY <2>2, <2>3, <2>4
  <2> QED
    BY <2>3, <2>4, <2>5 DEF PathInv
<1>6. ASSUME PathStep PROVE PathInv'
  <2>1. pc = "cuckoopath_search" /\ i <= depth
    BY <1>6, <1>a DEF PathStep, PathOK
  <2>2. PICK v \in Codes, w \in Buckets :
            Found(v, w, depth, key, keys, occupied) /\ Filling(v, w)
    BY <2>1 DEF PathInv
  <2>3. key' = key /\ keys' = keys /\ occupied' = occupied
    BY <1>6 DEF PathStep, storage
  <2>4. \/ pc' = "cuckoopath_search" /\ depth' = depth /\ Filling(v, w)'
        \/ pc' = "cuckoopath_move" /\ Movable'
    BY <1>6, <1>a, <2>1, <2>2, PathStepPath
  <2>5. depth' = depth => Found(v, w, depth', key', keys', occupied')
    BY <2>2, <2>3
  <2> QED
    BY <2>4, <2>5 DEF PathInv
<1>7. ASSUME MoveStep PROVE PathInv'
  <2>1. pc = "cuckoopath_move" /\ Movable
    BY <1>7 DEF MoveStep, PathInv
  <2> QED
    BY <1>7, <1>a, <2>1, MoveStepPath DEF PathInv
<1>8. ASSUME MoveFail PROVE FALSE
  BY <1>8, <1>a, MovableCanMove DEF MoveFail, PathInv
<1>9. CASE UNCHANGED vars
  <2>1. /\ UNCHANGED <<pc, key, slots, code, path, depth, i>>
        /\ keys' = keys /\ occupied' = occupied
    BY <1>9 DEF vars
  <2> QED
    BY <2>1 DEF PathInv, Decoding, Filling, Movable, Home, i1, i2, index_hash, alt_index
<1> QED
  <2>1. ASSUME NEW k \in Keys, InsertDuplicate(k) PROVE PathInv'
    BY <1>1, <2>1 DEF InsertDuplicate
  <2>2. ASSUME NEW k \in Keys, InsertDirect(k) PROVE PathInv'
    BY <1>1, <2>2 DEF InsertDirect
  <2>3. ASSUME SearchFail PROVE PathInv'
    BY <1>1, <1>a, <2>3 DEF SearchFail, KeyOK
  <2>4. ASSUME AddToBucket PROVE PathInv'
    BY <1>1, <1>a, <2>4 DEF AddToBucket, KeyOK
  <2> QED
    BY <1>2, <1>3, <1>4, <1>5, <1>6, <1>7, <1>8, <1>9, <2>1, <2>2, <2>3, <2>4
       DEF Next, Call, Step

LEMMA PathInvariance ==
    ASSUME PathcodeFits
    PROVE  Spec => [](SearchInv /\ PathInv)
<1>1. Init => SearchInv /\ PathInv
  BY SearchInvInit, PathInvInit
<1>2. SearchInv /\ PathInv /\ [Next]_vars => SearchInv' /\ PathInv'
  BY SearchInvStep, PathInvStep
<1> QED
  BY <1>1, <1>2, PTL DEF Spec

------------------------------------------------------------------------------
(* What it gives.                                                           *)

\* What decoding leaves of a pathcode is the number of a root, so that the
\* path starts in the bucket the search started in.
THEOREM PathcodeNamesRootHolds ==
    ASSUME PathcodeFits
    PROVE  Spec => []PathcodeNamesRoot
<1>1. SearchInv /\ PathInv => PathcodeNamesRoot
  BY DEF PathInv, Found, Filling, Trail, PathcodeNamesRoot
<1> QED
  BY <1>1, PathInvariance, PTL

\* cuckoopath_move never meets an item that is not where the path says:
\* run_cuckoo searches once.
THEOREM PathNeverStaleHolds ==
    ASSUME PathcodeFits
    PROVE  Spec => []PathNeverStale
<1>1. SearchInv /\ PathInv => PathNeverStale
  BY MovableCanMove DEF SearchInv, IInv, PathInv, Movable, PathNeverStale
<1> QED
  BY <1>1, PathInvariance, PTL

------------------------------------------------------------------------------
(* How long an insert takes.                                                *)

LEMMA CountLeft ==
    ASSUME SearchInv
    PROVE  /\ MAX_CUCKOO_COUNT \in Nat
           /\ first \in Nat \ {0}
           /\ Len(slots) \in Nat /\ Len(slots) <= MAX_CUCKOO_COUNT
           /\ depth \in 0 .. MAX_BFS_PATH_LEN - 1
           /\ i \in 0 .. MAX_BFS_PATH_LEN - 1
           /\ MAX_BFS_PATH_LEN \in Nat \ {0}
<1>1. QueueFits
  BY SearchQueueFits
<1>2. MAX_CUCKOO_COUNT \in Nat
  BY MaxCount, QueueBeforeValues, PathLenAssumption
<1> QED
  BY <1>1, <1>2, PathLenAssumption DEF SearchInv, IInv, TypeOK, QueueFits, PathIndex

\* A path takes three steps a record.
LEMMA PathSteps ==
    ASSUME NEW d \in 0 .. MAX_BFS_PATH_LEN - 1
    PROVE  /\ (d + 1) + 2 * (d + 1) \in Nat
           /\ (d + 1) + 2 * (d + 1) <= 3 * MAX_BFS_PATH_LEN
BY PathLenAssumption

\* Each step of an insert leaves fewer to take: in slot_search the b_slot
\* dequeued is not the last that fits in slots_, cuckoopath_search never
\* lengthens the path, and cuckoopath_move never fails.
LEMMA StepsFewer ==
    ASSUME SearchInv, PathInv, SearchInv', Step
    PROVE  StepsLeft' \in 0 .. StepsLeft - 1
<1>a. TypeOK
  BY DEF SearchInv, IInv
<1>b. /\ MAX_CUCKOO_COUNT \in Nat /\ MAX_BFS_PATH_LEN \in Nat \ {0}
      /\ first \in Nat \ {0}
      /\ Len(slots) \in Nat /\ Len(slots) <= MAX_CUCKOO_COUNT
      /\ depth \in 0 .. MAX_BFS_PATH_LEN - 1 /\ i \in 0 .. MAX_BFS_PATH_LEN - 1
  BY CountLeft
<1>c. depth' \in 0 .. MAX_BFS_PATH_LEN - 1
  BY PathLenAssumption DEF SearchInv, IInv, TypeOK, PathIndex
<1>1. ASSUME SearchFound PROVE StepsLeft' \in 0 .. StepsLeft - 1
  <2>1. pc = "slot_search" /\ first <= Len(slots) /\ pc' = "decode" /\ i' = depth'
    BY <1>1 DEF SearchFound
  <2>2. StepsLeft = (MAX_CUCKOO_COUNT + 1 - first) + 3 * MAX_BFS_PATH_LEN
    BY <2>1 DEF StepsLeft
  <2>3. StepsLeft' = (depth' + 1) + 2 * (depth' + 1)
    BY <2>1 DEF StepsLeft
  <2>4. StepsLeft' \in Nat /\ StepsLeft' <= 3 * MAX_BFS_PATH_LEN
    BY <1>c, <2>3, PathSteps
  <2>5. StepsLeft \in Nat /\ 3 * MAX_BFS_PATH_LEN < StepsLeft
    BY <1>b, <2>1, <2>2
  <2> QED
    BY <1>b, <2>4, <2>5
<1>2. ASSUME SearchExpand PROVE StepsLeft' \in 0 .. StepsLeft - 1
  <2>1. pc = "slot_search" /\ first <= Len(slots) /\ pc' = pc /\ first' = first + 1
    BY <1>2 DEF SearchExpand
  <2>2. StepsLeft = (MAX_CUCKOO_COUNT + 1 - first) + 3 * MAX_BFS_PATH_LEN
    BY <2>1 DEF StepsLeft
  <2>3. StepsLeft' = (MAX_CUCKOO_COUNT + 1 - (first + 1)) + 3 * MAX_BFS_PATH_LEN
    BY <2>1 DEF StepsLeft, MAX_CUCKOO_COUNT
  <2> QED
    BY <1>b, <2>1, <2>2, <2>3
<1>3. ASSUME SearchFail PROVE StepsLeft' \in 0 .. StepsLeft - 1
  <2>1. pc = "slot_search" /\ pc' = "idle"
    BY <1>3 DEF SearchFail, Return
  <2>2. first <= MAX_CUCKOO_COUNT + 1
    BY <1>b, <2>1 DEF SearchInv, QueueInv, QueueShape
  <2>3. StepsLeft = (MAX_CUCKOO_COUNT + 1 - first) + 3 * MAX_BFS_PATH_LEN /\ StepsLeft' = 0
    BY <2>1 DEF StepsLeft
  <2> QED
    BY <1>b, <2>2, <2>3
<1>4. ASSUME DecodeStep PROVE StepsLeft' \in 0 .. StepsLeft - 1
  <2>1. pc = "decode" /\ depth' = depth
        /\ \/ i > 0 /\ i' = i - 1 /\ pc' = "decode"
           \/ i = 0 /\ i' = 0 /\ pc' = "cuckoopath_search"
    BY <1>b, <1>4 DEF DecodeStep
  <2>2. StepsLeft = (i + 1) + 2 * (depth + 1)
    BY <2>1 DEF StepsLeft
  <2>3. CASE i > 0
    <3>1. StepsLeft' = (i' + 1) + 2 * (depth' + 1)
      BY <2>1, <2>3 DEF StepsLeft
    <3> QED
      BY <1>b, <2>1, <2>2, <2>3, <3>1
  <2>4. CASE i = 0
    <3>1. StepsLeft' = (depth' - i' + 1) + (depth' + 1)
      BY <2>1, <2>4 DEF StepsLeft
    <3> QED
      BY <1>b, <2>1, <2>2, <2>4, <3>1
  <2> QED
    BY <1>b, <2>3, <2>4
<1>5. ASSUME PathStep PROVE StepsLeft' \in 0 .. StepsLeft - 1
  <2>1. pc = "cuckoopath_search" /\ i <= depth
        /\ \/ i < depth /\ i' = i + 1 /\ pc' = pc /\ depth' = depth
           \/ depth' = i /\ i' = 0 /\ pc' = "cuckoopath_move"
    BY <1>b, <1>5 DEF PathStep, SearchInv, IInv, PathOK
  <2>2. StepsLeft = (depth - i + 1) + (depth + 1)
    BY <2>1 DEF StepsLeft
  <2>3. \/ i < depth /\ StepsLeft' = (depth - (i + 1) + 1) + (depth + 1)
        \/ StepsLeft' = i + 1
    BY <2>1 DEF StepsLeft
  <2> QED
    BY <1>b, <2>1, <2>2, <2>3
<1>6. ASSUME MoveStep PROVE StepsLeft' \in 0 .. StepsLeft - 1
  <2>1. /\ pc = "cuckoopath_move" /\ depth > 0 /\ depth' = depth - 1
        /\ \/ pc' = "cuckoopath_move"
           \/ pc' = "add_to_bucket"
    BY <1>6, <1>a, MoveStepPath DEF MoveStep, PathInv, Movable
  <2>2. StepsLeft = depth + 1 /\ (StepsLeft' = depth' + 1 \/ StepsLeft' = 1)
    BY <2>1 DEF StepsLeft
  <2> QED
    BY <1>b, <2>1, <2>2
<1>7. ASSUME MoveFail PROVE FALSE
  BY <1>7, <1>a, MovableCanMove DEF MoveFail, PathInv
<1>8. ASSUME AddToBucket PROVE StepsLeft' \in 0 .. StepsLeft - 1
  <2>1. StepsLeft = 1 /\ StepsLeft' = 0
    BY <1>8 DEF AddToBucket, Return, StepsLeft
  <2> QED
    BY <2>1
<1> QED
  BY <1>1, <1>2, <1>3, <1>4, <1>5, <1>6, <1>7, <1>8 DEF Step

\* What InsertTerminates rests on, for every width of a bucket and length of a
\* path: an insert cannot take more than MAX_CUCKOO_COUNT + 3 * MAX_BFS_PATH_LEN
\* steps, so that it ends as soon as its thread is scheduled that often.
THEOREM InsertBoundedHolds ==
    ASSUME PathcodeFits
    PROVE  Spec => InsertBounded
<1> DEFINE B == 0 .. MAX_CUCKOO_COUNT + 3 * MAX_BFS_PATH_LEN
           Bounded == /\ pc = "idle" => StepsLeft' \in B
                      /\ pc # "idle" => StepsLeft' \in 0 .. StepsLeft - 1
<1>1. ASSUME SearchInv, PathInv, SearchInv', [Next]_vars PROVE [Bounded]_vars
  <2>1. MAX_CUCKOO_COUNT \in Nat /\ MAX_BFS_PATH_LEN \in Nat
    BY <1>1, CountLeft
  <2>2. 0 \in B /\ MAX_CUCKOO_COUNT + 3 * MAX_BFS_PATH_LEN \in B
    BY <2>1
  <2>3. ASSUME NEW k \in Keys, InsertDuplicate(k) \/ InsertDirect(k) PROVE Bounded
    <3>1. pc = "idle" /\ pc' = "idle"
      BY <2>3 DEF InsertDuplicate, InsertDirect, Return
    <3> QED
      BY <2>2, <3>1 DEF StepsLeft
  <2>4. ASSUME NEW k \in Keys, RunCuckoo(k) PROVE Bounded
    <3>1. pc = "idle" /\ pc' = "slot_search" /\ first' = first
      BY <2>4 DEF RunCuckoo
    <3>2. first = 1
      BY <1>1, <3>1 DEF SearchInv, QueueInv
    <3>3. StepsLeft' = (MAX_CUCKOO_COUNT + 1 - 1) + 3 * MAX_BFS_PATH_LEN
      BY <3>1, <3>2 DEF StepsLeft, MAX_CUCKOO_COUNT
    <3> QED
      BY <2>1, <2>2, <3>1, <3>3
  <2>5. ASSUME Step PROVE Bounded
    <3>1. pc # "idle"
      BY <2>5 DEF Step, SearchFound, SearchExpand, SearchFail, DecodeStep, PathStep,
                  MoveStep, MoveFail, AddToBucket
    <3> QED
      BY <1>1, <2>5, <3>1, StepsFewer
  <2> QED
    BY <1>1, <2>3, <2>4, <2>5 DEF Next, Call
<1>2. SearchInv /\ PathInv /\ SearchInv' /\ [Next]_vars => [Bounded]_vars
  BY <1>1
<1> QED
  BY <1>2, PathInvariance, PTL DEF Spec, InsertBounded

------------------------------------------------------------------------------
(* The bytes of keys that were moved away.                                  *)

\* A slot that is not occupied holds no key, but for the slot the last move
\* of an insert in progress was from.
Clean ==
    \A p \in Slots : ~occupied[p] /\ keys[p] \in Keys =>
        pc \in {"cuckoopath_move", "add_to_bucket"} /\ p = At(path[depth])

LEMMA CleanInit == ASSUME NoStaleKeys, Init PROVE Clean
BY DEF Init, StorageInit, Clean, NoStaleKeys

LEMMA CleanStep ==
    ASSUME SearchInv, PathInv, Clean, [Next]_vars
    PROVE  Clean'
<1>a. TypeOK /\ KeyOK /\ StorageTypeOK
  BY DEF SearchInv, IInv, TypeOK
<1>1. ASSUME keys' = keys, occupied' = occupied,
             pc \notin {"cuckoopath_move", "add_to_bucket"}
      PROVE  Clean'
  BY <1>1 DEF Clean
<1>2. ASSUME NEW k \in Keys, InsertDirect(k) PROVE Clean'
  <2>1. PICK b \in BucketIndex, s \in SlotIndex : setK(<<b, s>>, partial_key(k, 0), k)
    BY <1>2 DEF InsertDirect
  <2>2. pc = "idle"
    BY <1>2 DEF InsertDirect
  <2> QED
    BY <1>a, <2>1, <2>2 DEF setK, StorageTypeOK, Clean
<1>3. ASSUME MoveStep PROVE Clean'
  <2> DEFINE from == At(path[depth - 1])
             to   == At(path[depth])
  <2>1. /\ pc = "cuckoopath_move" /\ Movable
        /\ pc' \in {"cuckoopath_move", "add_to_bucket"}
        /\ depth' = depth - 1 /\ path' = path
        /\ setK_eraseK(from, to)
    BY <1>3, <1>a, MoveStepPath DEF MoveStep, PathInv
  <2>2. from = At(path[depth])'
    BY <2>1 DEF At
  <2>3. \A p \in Slots : ~occupied[p] /\ keys[p] \in Keys => p = to
    BY <2>1 DEF Clean
  <2> HIDE DEF from, to
  <2>4. \A p \in Slots : ~occupied'[p] /\ keys'[p] \in Keys => p = from
    BY <1>a, <2>1, <2>3 DEF setK_eraseK, StorageTypeOK
  <2> QED
    BY <2>1, <2>2, <2>4 DEF Clean
<1>4. ASSUME AddToBucket PROVE Clean'
  <2>1. /\ pc = "add_to_bucket" /\ setK(At(path[0]), partial_key(key, 0), key)
        /\ depth = 0
    BY <1>4 DEF AddToBucket, PathInv
  <2>2. \A p \in Slots : ~occupied[p] /\ keys[p] \in Keys => p = At(path[0])
    BY <2>1 DEF Clean
  <2>3. \A p \in Slots : ~(~occupied'[p] /\ keys'[p] \in Keys)
    BY <1>a, <2>1, <2>2 DEF setK, StorageTypeOK
  <2> QED
    BY <2>3 DEF Clean
<1>5. ASSUME MoveFail PROVE FALSE
  BY <1>5, <1>a, MovableCanMove DEF MoveFail, PathInv
<1>6. CASE UNCHANGED vars
  BY <1>6 DEF vars, Clean, At
<1>7. ASSUME \/ \E k \in Keys : InsertDuplicate(k) \/ RunCuckoo(k)
             \/ SearchFound \/ SearchExpand \/ SearchFail \/ DecodeStep \/ PathStep
      PROVE  Clean'
  <2>1. /\ keys' = keys /\ occupied' = occupied
        /\ pc \notin {"cuckoopath_move", "add_to_bucket"}
    BY <1>7 DEF InsertDuplicate, RunCuckoo, SearchFound, SearchExpand, SearchFail,
                DecodeStep, PathStep, storage
  <2> QED
    BY <1>1, <2>1
<1> QED
  BY <1>2, <1>3, <1>4, <1>5, <1>6, <1>7 DEF Next, Call, Step

\* find tells the stored keys from the others although it reads slots that
\* are not occupied: evictions write over every slot they free.
THEOREM FindExactHolds ==
    ASSUME PathcodeFits, NoStaleKeys
    PROVE  Spec => []FindExact
<1>1. Init => Clean
  BY CleanInit
<1>2. SearchInv /\ PathInv /\ Clean /\ [Next]_vars => Clean'
  BY CleanStep
<1>3. SearchInv /\ Clean => FindExact
  <2> SUFFICES ASSUME SearchInv, Clean, pc = "idle", NEW k \in Keys
               PROVE  IF k \in StoredKeys
                      THEN find(k) \in BucketIndex /\ HoldsKey(find(k), k)
                      ELSE find(k) = -1
    BY DEF FindExact
  <2>1. KeyHome /\ i1(k) \in BucketIndex /\ i2(k) \in BucketIndex
    BY AltHome DEF SearchInv, IInv, Placed
  <2>2. \A b \in BucketIndex : SeenIn(b, k) => HoldsKey(b, k) /\ k \in StoredKeys
    BY DEF Clean, SeenIn, HoldsKey, StoredKeys, OccupiedSlots, Slots
  <2>3. ASSUME k \in StoredKeys PROVE SeenIn(i1(k), k) \/ SeenIn(i2(k), k)
    <3>1. PICK p \in OccupiedSlots : keys[p] = k
      BY <2>3 DEF StoredKeys
    <3>2. p[1] \in Home(k) /\ p = <<p[1], p[2]>> /\ p[2] \in SlotIndex
      BY <2>1, <3>1 DEF KeyHome, OccupiedSlots, Slots
    <3> QED
      BY <3>1, <3>2 DEF SeenIn, Home
  <2> QED
    BY <2>1, <2>2, <2>3 DEF find
<1> QED
  BY <1>1, <1>2, <1>3, PathInvariance, PTL DEF Spec
==============================================================================
