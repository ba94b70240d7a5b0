----------------------------- MODULE CuckooFilter -----------------------------
(***************************************************************************)
(* CuckooFilter<ItemType, bits_per_item> of cuckoofilter.h over a          *)
(* SingleTable (singletable.h).  A tag is stored per slot, 0 meaning an    *)
(* empty slot; an item that finds no place within kMaxCuckooCount kicks    *)
(* leaves one tag in the victim cache.  The seeds are those the second     *)
(* constructor is given; the first leaves the vector of seeds empty.       *)
(*                                                                         *)
(* The loop of AddImpl is stepped one iteration at a time; which tag is    *)
(* kicked out (rand()) is any tag of the bucket.                           *)
(***************************************************************************)
EXTENDS Integers, FiniteSets

CONSTANTS
    Items,            \* items a client adds, looks up and deletes
    Tags,             \* the values TagHash returns, never 0
    NumBuckets,       \* NumBuckets(), the length of the seeds vector
    TagsPerBucket,    \* kTagsPerBucket, 4 in the code
    KMaxCuckooCount,  \* kMaxCuckooCount, 500 in the code
    FilterSeeds,      \* the seeds seeds_ may hold
    SeedVectors,      \* what the constructors called leave in seeds_
    FilterHash,       \* FilterHash[item][seed]: TagHash(hasher_(item, seed))
    FilterIndex,      \* FilterIndex[item]: IndexHash(item)
    AltIndexOfItem,   \* AltIndexOfItem[item][i]: AltIndex(i, item)
    AltIndexOfTag     \* AltIndexOfTag[tag][i]: AltIndex(i, tag)

TagBuckets == 0 .. NumBuckets - 1
TagSlots   == TagBuckets \X (0 .. TagsPerBucket - 1)

ASSUME FilterSizeAssumption ==
    /\ NumBuckets \in Nat \ {0}
    /\ TagsPerBucket \in Nat \ {0}
    /\ KMaxCuckooCount \in Nat \ {0}
    /\ 0 \notin Tags /\ Tags \subseteq Nat
    /\ SeedVectors \subseteq [TagBuckets -> FilterSeeds] \union {<<>>}

\* Both alternate indexes are an xor with a hash of what they are given.
ASSUME FilterHashAssumption ==
    /\ FilterHash \in [Items -> [FilterSeeds -> Tags]]
    /\ FilterIndex \in [Items -> TagBuckets]
    /\ AltIndexOfItem \in [Items -> [TagBuckets -> TagBuckets]]
    /\ AltIndexOfTag \in [Tags -> [TagBuckets -> TagBuckets]]
    /\ \A x \in Items, b \in TagBuckets :
          AltIndexOfItem[x][AltIndexOfItem[x][b]] = b
    /\ \A t \in Tags, b \in TagBuckets :
          AltIndexOfTag[t][AltIndexOfTag[t][b]] = b

VARIABLES
    tags,       \* the table: tags[<<i, j>>] = ReadTag(i, j)
    seeds,      \* seeds_, a seed for each bucket
    num_items,  \* num_items_
    victim,     \* victim_
    at,         \* where the call in progress is: "idle" or "AddImpl"
    curindex, curtag, count,  \* locals of AddImpl
    status      \* what the last call that returned returned

vars == <<tags, seeds, num_items, victim, at, curindex, curtag, count, status>>

\* Faulty: the seed of the bucket is forgotten.
TagHash_NoSeed(x, b) == FilterHash[x][0]

IndexHash(x)       == FilterIndex[x]
TagHash(x, b)      == FilterHash[x][seeds[b]]
AltIndexItem(b, x) == AltIndexOfItem[x][b]
AltIndexTag(b, t)  == AltIndexOfTag[t][b]

NoVictim == [used |-> FALSE, index |-> 0, tag |-> 0]

TypeOK ==
    /\ tags \in [TagSlots -> Tags \union {0}]
    /\ seeds \in SeedVectors
    /\ num_items \in Nat
    /\ victim \in [used : BOOLEAN, index : TagBuckets, tag : Tags \union {0}]
    /\ at \in {"idle", "AddImpl"}
    /\ curindex \in TagBuckets
    /\ curtag \in Tags \union {0}
    /\ count \in 0 .. KMaxCuckooCount
    /\ status \in {"Ok", "NotFound", "NotEnoughSpace", "out_of_range"}

Init ==
    /\ tags = [p \in TagSlots |-> 0]
    /\ seeds \in SeedVectors
    /\ num_items = 0
    /\ victim = NoVictim
    /\ at = "idle"
    /\ curindex = 0 /\ curtag = 0 /\ count = 0
    /\ status = "Ok"

Return(s) ==
    /\ at' = "idle"
    /\ status' = s
    /\ curindex' = 0 /\ curtag' = 0 /\ count' = 0

\* p is the first slot of bucket b that holds t; with t = 0, the first empty one.
FirstWith(b, t, p) ==
    /\ p[1] = b
    /\ tags[p] = t
    /\ \A j \in 0 .. p[2] - 1 : tags[<<b, j>>] # t

HasTag(b, t) == \E p \in TagSlots : p[1] = b /\ tags[p] = t

\* Faulty: one tag is computed and looked for in both buckets.
Contain_OneTag(x) ==
    LET b1 == IndexHash(x)
        b2 == AltIndexItem(b1, x)
    IN HasTag(b1, TagHash(x, b1)) \/ HasTag(b2, TagHash(x, b1))

\* Contain looks in the item's bucket for the tag under that bucket's seed, and
\* in the alternate bucket of the item for the tag under the seed of that one.
Contain(x) ==
    LET b1 == IndexHash(x)
        b2 == AltIndexItem(b1, x)
    IN HasTag(b1, TagHash(x, b1)) \/ HasTag(b2, TagHash(x, b2))

\* What the filter answers for the number of its items.
Size == num_items

------------------------------------------------------------------------------
(* Add and AddImpl.                                                         *)

AddRefused ==
    /\ at = "idle"
    /\ victim.used
    /\ Return("NotEnoughSpace")
    /\ UNCHANGED <<seeds, tags, num_items, victim>>

\* The exception of seeds_.at(index).
AddThrows(x) ==
    /\ at = "idle"
    /\ ~victim.used
    /\ IndexHash(x) \notin DOMAIN seeds
    /\ Return("out_of_range")
    /\ UNCHANGED <<seeds, tags, num_items, victim>>

AddBegin(x) ==
    /\ at = "idle"
    /\ ~victim.used
    /\ IndexHash(x) \in DOMAIN seeds
    /\ at' = "AddImpl"
    /\ curindex' = IndexHash(x)
    /\ curtag' = TagHash(x, IndexHash(x))
    /\ UNCHANGED <<seeds, tags, num_items, victim, count, status>>

\* Faulty loops: one iteration too many; the counter is not advanced.
Looping_OneMore == count <= KMaxCuckooCount
NextCount_Stuck == count

\* The condition and the increment of the loop.
Looping   == count < KMaxCuckooCount
NextCount == count + 1

\* InsertTagToBucket finds an empty slot.
AddPlace ==
    /\ at = "AddImpl"
    /\ Looping
    /\ \E p \in TagSlots : /\ FirstWith(curindex, 0, p)
                           /\ tags' = [tags EXCEPT ![p] = curtag]
    /\ num_items' = num_items + 1
    /\ Return("Ok")
    /\ UNCHANGED <<seeds, victim>>

\* The bucket is full: from the second iteration on the tag replaces one of its
\* tags, which goes on to its alternate bucket.
AddKick ==
    /\ at = "AddImpl"
    /\ Looping
    /\ ~HasTag(curindex, 0)
    /\ \E p \in TagSlots :
          /\ p[1] = curindex
          /\ IF count > 0
             THEN curtag' = tags[p] /\ tags' = [tags EXCEPT ![p] = curtag]
             ELSE UNCHANGED <<curtag, tags>>
    /\ curindex' = AltIndexTag(curindex, curtag')
    /\ count' = NextCount
    /\ UNCHANGED <<seeds, num_items, victim, at, status>>

\* Faulty: the victim is counted.
AddVictim_Counted ==
    /\ at = "AddImpl"
    /\ ~Looping
    /\ victim' = [used |-> TRUE, index |-> curindex, tag |-> curtag]
    /\ num_items' = num_items + 1
    /\ Return("Ok")
    /\ UNCHANGED <<seeds, tags>>

AddVictim ==
    /\ at = "AddImpl"
    /\ ~Looping
    /\ victim' = [used |-> TRUE, index |-> curindex, tag |-> curtag]
    /\ Return("Ok")
    /\ UNCHANGED <<seeds, tags, num_items>>

------------------------------------------------------------------------------
(* Delete.                                                                  *)

\* Faulty: the victim is dropped.
EliminateVictim_Drop ==
    /\ victim' = [victim EXCEPT !.used = FALSE]
    /\ Return("Ok")

\* After a tag was deleted, the victim, if there is one, is added again: the
\* same loop, whose result Delete ignores (both are Ok).
EliminateVictim ==
    IF victim.used
    THEN /\ victim' = [victim EXCEPT !.used = FALSE]
         /\ at' = "AddImpl"
         /\ curindex' = victim.index
         /\ curtag' = victim.tag
         /\ UNCHANGED <<count, status>>
    ELSE Return("Ok") /\ UNCHANGED victim

\* Faulty: the alternate bucket is searched first.
DeleteTag_AltFirst(x) ==
    /\ at = "idle"
    /\ IndexHash(x) \in DOMAIN seeds
    /\ LET t  == TagHash(x, IndexHash(x))
           b1 == IndexHash(x)
           b2 == AltIndexTag(b1, t)
       IN \E p \in TagSlots :
             /\ FirstWith(b2, t, p) \/ (~HasTag(b2, t) /\ FirstWith(b1, t, p))
             /\ tags' = [tags EXCEPT ![p] = 0]
    /\ num_items' = num_items - 1
    /\ EliminateVictim
    /\ UNCHANGED seeds

\* The tag looked for is that of the first bucket's seed, in both buckets, and
\* the alternate bucket is that of the tag.
DeleteTag(x) ==
    /\ at = "idle"
    /\ IndexHash(x) \in DOMAIN seeds
    /\ LET t  == TagHash(x, IndexHash(x))
           b1 == IndexHash(x)
           b2 == AltIndexTag(b1, t)
       IN \E p \in TagSlots :
             /\ FirstWith(b1, t, p) \/ (~HasTag(b1, t) /\ FirstWith(b2, t, p))
             /\ tags' = [tags EXCEPT ![p] = 0]
    /\ num_items' = num_items - 1
    /\ EliminateVictim
    /\ UNCHANGED seeds

DeleteElsewhere(x) ==
    /\ at = "idle"
    /\ IndexHash(x) \in DOMAIN seeds
    /\ LET t  == TagHash(x, IndexHash(x))
           b1 == IndexHash(x)
           b2 == AltIndexTag(b1, t)
       IN /\ ~HasTag(b1, t) /\ ~HasTag(b2, t)
          /\ IF victim.used /\ victim.tag = t /\ victim.index \in {b1, b2}
             THEN victim' = [victim EXCEPT !.used = FALSE] /\ Return("Ok")
             ELSE Return("NotFound") /\ UNCHANGED victim
    /\ UNCHANGED <<seeds, tags, num_items>>

------------------------------------------------------------------------------
(* CopyInsert, which builds the filter from an exported table.              *)

\* CopyTagToBucket refuses a slot that is taken (NotSupported); otherwise the
\* tag, cut to its width by WriteTag, is written and counted.
CopyInsert(tag, p) ==
    /\ tags[p] = 0
    /\ tags' = [tags EXCEPT ![p] = tag]
    /\ num_items' = num_items + 1

==============================================================================
