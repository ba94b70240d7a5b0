--------------------------- MODULE CuckooHashtable ---------------------------
(***************************************************************************)
(* cuckoo_hashtable of cuckoohashtable.hh: insertion with breadth-first    *)
(* cuckoo path search, and find.  The class is called by one thread, so at *)
(* most one insert is in progress; its loops are stepped one iteration at  *)
(* a time, pc naming the function the insert is in:                        *)
(*                                                                         *)
(*   "idle"               no call in progress                              *)
(*   "slot_search"        the BFS, one dequeued b_slot per step            *)
(*   "decode"             cuckoopath_search, from the pathcode to slots    *)
(*   "cuckoopath_search"  cuckoopath_search, filling in buckets and keys   *)
(*   "cuckoopath_move"    one item moved per step                          *)
(*   "add_to_bucket"      the freed slot is written                        *)
(***************************************************************************)
EXTENDS BucketContainer, Sequences, FiniteSets

CONSTANTS
    MAX_BFS_PATH_LEN, \* 5 in the code
    PathcodeMax,      \* largest value of b_slot::pathcode, a uint16_t
    Seeds,            \* the seeds hashed_key is called with
    PartialKey,       \* PartialKey[k][seed]: partial_key(hashed_key(k, seed))
    HashIndex,        \* HashIndex[k]: upper half of k masked to the table
    AltIndex          \* AltIndex[k][i]: i xor'ed with a hash of k, masked

ASSUME PathLenAssumption == MAX_BFS_PATH_LEN \in Nat \ {0}

\* const_pow(slot_per_bucket(), b).
const_pow[b \in Nat] == IF b = 0 THEN 1 ELSE SlotPerBucket * const_pow[b - 1]

\* The static_assert that guards the width of pathcode.
ASSUME PathcodeMaxAssumption ==
    PathcodeMax \in Nat /\ const_pow[MAX_BFS_PATH_LEN] < PathcodeMax

\* The alternate index is an xor with a value that depends on the key alone,
\* so it is its own inverse.
ASSUME HashAssumption ==
    /\ 0 \in Seeds
    /\ PartialKey \in [Keys -> [Seeds -> Partials]]
    /\ HashIndex \in [Keys -> BucketIndex]
    /\ AltIndex \in [KeyBytes -> [BucketIndex -> BucketIndex]]
    /\ \A k \in Keys : \A i \in BucketIndex : AltIndex[k][AltIndex[k][i]] = i

partial_key(k, seed) == PartialKey[k][seed]
index_hash(k)        == HashIndex[k]
alt_index(k, i)      == AltIndex[k][i]

\* compute_buckets: the two buckets of a key.
i1(k) == index_hash(k)
i2_NoIndex(k) == alt_index(k, 0)  \* faulty: the first index is not passed on
i2(k) == alt_index(k, index_hash(k))
Home(k) == {i1(k), i2(k)}

VARIABLES
    num_items,  \* num_items_
    pc,         \* where the insert in progress is
    key,        \* its argument
    slots,      \* b_queue::slots_[0 .. last_ - 1]
    first,      \* b_queue::first_, as an index of the sequence slots
    code,       \* pathcode being decoded
    path,       \* CuckooRecords cuckoo_path
    depth,      \* depth of the path found
    i,          \* loop variable of cuckoopath_search
    ret         \* outcome of the last insert that returned or threw

locals == <<key, slots, first, code, path, depth, i>>
vars == <<occupied, keys, partials, num_items, pc, key, slots, first, code,
          path, depth, i, ret>>

PathIndex == 0 .. MAX_BFS_PATH_LEN - 1
CuckooRecord == [bucket : BucketIndex, slot : SlotIndex, key : KeyBytes]
b_slot == [bucket : BucketIndex, pathcode : Nat, depth : PathIndex]
Outcome == [status : {"none", "ok", "failure_key_duplicated",
                      "failure_table_full"},
            key : KeyBytes, pos : Slots]

PC == {"idle", "slot_search", "decode", "cuckoopath_search",
       "cuckoopath_move", "add_to_bucket"}

TypeOK ==
    /\ StorageTypeOK
    /\ num_items \in Nat
    /\ pc \in PC
    /\ key \in KeyBytes
    /\ slots \in Seq(b_slot)
    /\ first \in Nat \ {0}
    /\ code \in Nat
    /\ path \in [PathIndex -> CuckooRecord]
    /\ depth \in PathIndex
    /\ i \in PathIndex
    /\ ret \in Outcome

\* Locals that are out of scope have one canonical value.
NoRecord == [bucket |-> 0, slot |-> 0, key |-> NoKey]
NoPath   == [d \in PathIndex |-> NoRecord]
NoSlots  == <<>>

Init ==
    /\ StorageInit
    /\ num_items = 0
    /\ pc = "idle"
    /\ key = NoKey
    /\ slots = NoSlots
    /\ first = 1
    /\ code = 0
    /\ path = NoPath
    /\ depth = 0
    /\ i = 0
    /\ ret = [status |-> "none", key |-> NoKey, pos |-> <<0, 0>>]

At(record) == <<record.bucket, record.slot>>

Return(status, k, p) ==
    /\ pc' = "idle"
    /\ ret' = [status |-> status, key |-> k, pos |-> p]
    /\ key' = NoKey
    /\ slots' = NoSlots
    /\ first' = 1
    /\ code' = 0
    /\ path' = NoPath
    /\ depth' = 0
    /\ i' = 0

------------------------------------------------------------------------------
(* cuckoo_insert: what happens before any cuckooing.                        *)

\* try_find_insert_bucket on both buckets finds the key at <<b, s>>.
DuplicateAt(k, b, s) ==
    /\ b \in Home(k)
    /\ b # i1(k) => ~HoldsKey(i1(k), k)
    /\ occupied[<<b, s>>] /\ keys[<<b, s>>] = k
    /\ \A t \in 0 .. s - 1 : ~(occupied[<<b, t>>] /\ keys[<<b, t>>] = k)

\* Faulty: the second bucket is not searched for a duplicate.
EmptyAt_OneCheck(k, b, s) ==
    /\ ~HoldsKey(i1(k), k)
    /\ b \in Home(k)
    /\ b # i1(k) => Full(i1(k))
    /\ ~occupied[<<b, s>>]
    /\ \A t \in SlotIndex : ~occupied[<<b, t>>] => t <= s

\* No duplicate in either bucket, and <<b, s>> is the empty slot taken: the
\* scan keeps overwriting `slot`, so it is the last empty one of the first
\* bucket that has one.
EmptyAt(k, b, s) ==
    /\ ~HoldsKey(i1(k), k) /\ ~HoldsKey(i2(k), k)
    /\ b \in Home(k)
    /\ b # i1(k) => Full(i1(k))
    /\ ~occupied[<<b, s>>]
    /\ \A t \in SlotIndex : ~occupied[<<b, t>>] => t <= s

InsertDuplicate(k) ==
    /\ pc = "idle"
    /\ \E b \in BucketIndex, s \in SlotIndex :
          /\ DuplicateAt(k, b, s)
          /\ Return("failure_key_duplicated", k, <<b, s>>)
    /\ UNCHANGED <<storage, num_items>>

\* An inserted key always gets the fingerprint of seed 0.
InsertDirect(k) ==
    /\ pc = "idle"
    /\ \E b \in BucketIndex, s \in SlotIndex :
          /\ EmptyAt(k, b, s)
          /\ setK(<<b, s>>, partial_key(k, 0), k)
          /\ Return("ok", k, <<b, s>>)
    /\ num_items' = num_items + 1

\* Faulty: the two roots have one pathcode; they are numbered from one.
Roots_Same(k) == << [bucket |-> i1(k), pathcode |-> 0, depth |-> 0],
                    [bucket |-> i2(k), pathcode |-> 0, depth |-> 0] >>
Roots_FromOne(k) == << [bucket |-> i1(k), pathcode |-> 1, depth |-> 0],
                       [bucket |-> i2(k), pathcode |-> 2, depth |-> 0] >>

Roots(k) == << [bucket |-> i1(k), pathcode |-> 0, depth |-> 0],
               [bucket |-> i2(k), pathcode |-> 1, depth |-> 0] >>

\* Both buckets are full: run_cuckoo begins its first slot_search.
RunCuckoo(k) ==
    /\ pc = "idle"
    /\ ~HoldsKey(i1(k), k) /\ ~HoldsKey(i2(k), k)
    /\ Full(i1(k)) /\ Full(i2(k))
    /\ pc' = "slot_search"
    /\ key' = k
    /\ slots' = Roots(k)
    /\ UNCHANGED <<storage, num_items, first, code, path, depth, i, ret>>

------------------------------------------------------------------------------
(* slot_search: breadth-first search for a bucket with an empty slot.       *)

MAX_CUCKOO_COUNT ==
    2 * (IF SlotPerBucket = 1
         THEN MAX_BFS_PATH_LEN
         ELSE (const_pow[MAX_BFS_PATH_LEN] - 1) \div (SlotPerBucket - 1))

\* The n-th slot looked at in the bucket of x.
ScanSlot(x, n) == (x.pathcode + n) % SlotPerBucket

\* x.pathcode * slot_per_bucket() + slot, stored in a uint16_t.
Extend(x, slot) == (x.pathcode * SlotPerBucket + slot) % (PathcodeMax + 1)

Child(x, slot) ==
    [bucket   |-> alt_index(keys[<<x.bucket, slot>>], x.bucket),
     pathcode |-> Extend(x, slot),
     depth    |-> x.depth + 1]

Children(x) == [n \in 1 .. SlotPerBucket |-> Child(x, ScanSlot(x, n - 1))]

\* Faulty: paths of one record too many; of one too few.
CanExtend_TooLong(x)  == x.depth < MAX_BFS_PATH_LEN
CanExtend_TooShort(x) == x.depth < MAX_BFS_PATH_LEN - 2

CanExtend(x) == x.depth < MAX_BFS_PATH_LEN - 1

SearchFound ==
    /\ pc = "slot_search"
    /\ first <= Len(slots)
    /\ LET x == slots[first] IN
       \E n \in SlotIndex :
          /\ ~occupied[<<x.bucket, ScanSlot(x, n)>>]
          /\ \A m \in 0 .. n - 1 : occupied[<<x.bucket, ScanSlot(x, m)>>]
          /\ code' = Extend(x, ScanSlot(x, n))
          /\ depth' = x.depth
          /\ i' = x.depth
    /\ pc' = "decode"
    /\ slots' = NoSlots
    /\ first' = 1
    /\ UNCHANGED <<storage, num_items, key, path, ret>>

SearchExpand ==
    /\ pc = "slot_search"
    /\ first <= Len(slots)
    /\ LET x == slots[first] IN
          /\ Full(x.bucket)
          /\ slots' = IF CanExtend(x) THEN slots \o Children(x) ELSE slots
    /\ first' = first + 1
    /\ UNCHANGED <<storage, num_items, pc, key, code, path, depth, i, ret>>

\* The queue is empty: cuckoo_insert reports failure_table_full, which
\* cuckoo_insert_loop turns into an exception.
SearchFail ==
    /\ pc = "slot_search"
    /\ first > Len(slots)
    /\ Return("failure_table_full", key, <<0, 0>>)
    /\ UNCHANGED <<storage, num_items>>

------------------------------------------------------------------------------
(* cuckoopath_search: from the pathcode to the path.                        *)

\* One iteration of the loop that peels slots off the pathcode, last first.
DecodeStep ==
    /\ pc = "decode"
    /\ path' = [path EXCEPT ![i].slot = code % SlotPerBucket]
    /\ code' = code \div SlotPerBucket
    /\ IF i > 0
       THEN i' = i - 1 /\ pc' = pc
       ELSE i' = 0 /\ pc' = "cuckoopath_search"
    /\ UNCHANGED <<storage, num_items, key, slots, first, depth, ret>>

PathBucket ==
    IF i = 0
    THEN IF code = 0 THEN i1(key) ELSE i2(key)
    ELSE alt_index(path[i - 1].key, path[i - 1].bucket)

\* One record of the path.  The search ends early at an unoccupied slot.
PathStep ==
    /\ pc = "cuckoopath_search"
    /\ LET p == <<PathBucket, path[i].slot>> IN
       /\ path' = [path EXCEPT ![i].bucket = PathBucket,
                               ![i].key = IF occupied[p] THEN keys[p] ELSE @]
       /\ IF occupied[p] /\ i < depth
          THEN i' = i + 1 /\ UNCHANGED <<pc, depth>>
          ELSE depth' = i /\ i' = 0 /\ pc' = "cuckoopath_move"
    /\ UNCHANGED <<storage, num_items, key, slots, first, code, ret>>

------------------------------------------------------------------------------
(* cuckoopath_move and the loop of run_cuckoo around it.                    *)

\* Faulty: the test of the slot to move from is inverted.
CanMove_Inverted ==
    IF depth = 0
    THEN ~occupied[At(path[0])]
    ELSE /\ ~occupied[At(path[depth])]
         /\ ~occupied[At(path[depth - 1])]

\* What cuckoopath_move checks before it moves an item, or, when the path has
\* one record only, before it reports that record's slot as free.
CanMove ==
    IF depth = 0
    THEN ~occupied[At(path[0])]
    ELSE /\ ~occupied[At(path[depth])]
         /\ occupied[At(path[depth - 1])]
         /\ keys[At(path[depth - 1])] = path[depth - 1].key

MoveStep ==
    /\ pc = "cuckoopath_move"
    /\ CanMove
    /\ IF depth = 0
       THEN UNCHANGED <<storage, depth>>
       ELSE /\ setK_eraseK(At(path[depth - 1]), At(path[depth]))
            /\ depth' = depth - 1
    /\ pc' = IF depth <= 1 THEN "add_to_bucket" ELSE pc
    /\ UNCHANGED <<num_items, key, slots, first, code, path, i, ret>>

\* cuckoopath_move returned false: run_cuckoo searches again.
MoveFail ==
    /\ pc = "cuckoopath_move"
    /\ ~CanMove
    /\ pc' = "slot_search"
    /\ slots' = Roots(key)
    /\ path' = NoPath
    /\ code' = 0
    /\ depth' = 0
    /\ UNCHANGED <<storage, num_items, key, first, i, ret>>

AddToBucket ==
    /\ pc = "add_to_bucket"
    /\ setK(At(path[0]), partial_key(key, 0), key)
    /\ num_items' = num_items + 1
    /\ Return("ok", key, At(path[0]))

------------------------------------------------------------------------------

Call == \E k \in Keys : InsertDuplicate(k) \/ InsertDirect(k) \/ RunCuckoo(k)

Step == \/ SearchFound \/ SearchExpand \/ SearchFail
        \/ DecodeStep \/ PathStep
        \/ MoveStep \/ MoveFail \/ AddToBucket

Next == Call \/ Step

Spec == Init /\ [][Next]_vars

\* One thread runs an insert to its end: nothing else can delay its steps.
FairSpec == Spec /\ WF_vars(Step)

\* find: cuckoo_find reads the keys of all slots of the two buckets, occupied
\* or not, and returns the index of the bucket, or -1.
SeenIn(b, k) == \E s \in SlotIndex : keys[<<b, s>>] = k
\* Faulty: one bucket is searched.
find_OneBucket(k) == IF SeenIn(i1(k), k) THEN i1(k) ELSE -1
find(k) == IF SeenIn(i1(k), k) THEN i1(k)
           ELSE IF SeenIn(i2(k), k) THEN i2(k) ELSE -1

------------------------------------------------------------------------------
(* Properties.                                                              *)

\* Every stored key is in one of the two buckets the lookups search for it,
\* whatever the path of evictions that brought it there.
KeyHome == \A p \in OccupiedSlots : p[1] \in Home(keys[p])

\* No key is stored twice: the duplicate check of cuckoo_insert looks at two
\* buckets only, and cuckoopath_move copies before it erases.
NoDuplicates == \A p, q \in OccupiedSlots : keys[p] = keys[q] => p = q

\* num_items_ counts the occupied slots, also while items are being moved.
NumItemsExact == num_items = Cardinality(OccupiedSlots)

\* A moved item takes its own fingerprint along.
PartialsMatch ==
    \A p \in OccupiedSlots : partials[p] = partial_key(keys[p], 0)

\* What the assertions after run_cuckoo say of the slot it freed.
FreedSlotUsable ==
    pc = "add_to_bucket" => /\ ~occupied[At(path[0])]
                            /\ path[0].bucket \in Home(key)
                            /\ key \notin StoredKeys

\* Between calls find sees exactly the stored keys, although it reads the
\* slots that are not occupied too: no moved key leaves its bytes behind.  For
\* any other key it returns -1; the comment above it, which is that of another
\* library's function, speaks of a value found and of std::out_of_range.
FindExact ==
    pc = "idle" => \A k \in Keys :
        IF k \in StoredKeys
        THEN find(k) \in BucketIndex /\ HoldsKey(find(k), k)
        ELSE find(k) = -1

\* The array of b_queue is never overrun (the assertions of enqueue).
QueueFits == Len(slots) <= MAX_CUCKOO_COUNT

\* A path found by the search can be moved along at once, to its end: the
\* path meets no bucket twice in a way that makes it invalidate itself, so
\* run_cuckoo never searches twice, and depth is never 0 ("Probably not w/o
\* concurrency").
PathNeverStale == pc = "cuckoopath_move" => CanMove /\ depth > 0

\* What is left of the pathcode after the slots names a root.
PathcodeNamesRoot == pc = "cuckoopath_search" /\ i = 0 => code \in {0, 1}

\* No step of an insert, evictions included, loses a stored key.
NoKeyLost == [][StoredKeys \subseteq StoredKeys']_vars

\* An insert ends: it returns or throws.
InsertTerminates == (pc # "idle") ~> (pc = "idle")

\* The most steps that an insert in progress can still take: for each b_slot
\* that may yet be dequeued one; for each record of the path one to decode it,
\* one to fill it in and one to move an item to it or, when its slot is the
\* last to be freed, to write the inserted key there.
StepsLeft ==
    CASE pc = "idle"              -> 0
      [] pc = "slot_search"       -> (MAX_CUCKOO_COUNT + 1 - first)
                                     + 3 * MAX_BFS_PATH_LEN
      [] pc = "decode"            -> (i + 1) + 2 * (depth + 1)
      [] pc = "cuckoopath_search" -> (depth - i + 1) + (depth + 1)
      [] pc = "cuckoopath_move"   -> depth + 1
      [] pc = "add_to_bucket"     -> 1

\* An insert ends within MAX_CUCKOO_COUNT + 3 * MAX_BFS_PATH_LEN steps (697 of
\* the code's): run_cuckoo's loop never starts over, a queue is read once, and
\* a path that is cut short leaves no more to do than the whole of it.
InsertBounded ==
    [][/\ pc = "idle" => StepsLeft' \in 0 .. MAX_CUCKOO_COUNT + 3 * MAX_BFS_PATH_LEN
       /\ pc # "idle" => StepsLeft' \in 0 .. StepsLeft - 1]_vars

\* w is a way items can be evicted, from a bucket of k on: an item of each
\* bucket may move to the next.
EvictionWalk(w, k) ==
    /\ w[0] \in Home(k)
    /\ \A j \in PathIndex \ {0} : \E s \in SlotIndex :
          w[j] = alt_index(keys[<<w[j - 1], s>>], w[j - 1])

\* "table full" is thrown only when no bucket that evictions along a path of
\* MAX_BFS_PATH_LEN buckets can reach has an empty slot, and the failed insert
\* left the table in that state.
FullMeansNoPath ==
    pc = "idle" /\ ret.status = "failure_table_full" =>
        \A w \in [PathIndex -> BucketIndex] :
            EvictionWalk(w, ret.key) => \A j \in PathIndex : Full(w[j])

\* The table implements the abstract set: evictions are stutters of it.
Abstract == INSTANCE KeySet WITH members <- StoredKeys,
                                 outcome <- <<ret.status, ret.key>>
ImplementsKeySet == Abstract!Spec

==============================================================================
