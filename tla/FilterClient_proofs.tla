--------------------------- MODULE FilterClient_proofs ---------------------------
(***************************************************************************)
(* Proofs about FilterClient: for every number of items, buckets, slots    *)
(* and kicks and every hash, the filter keeps exactly the tags of the      *)
(* items added and not deleted, and counts them.                           *)
(***************************************************************************)
EXTENDS FilterClient, FiniteSetTheorems, TLAPS

One(P) == IF P THEN 1 ELSE 0

------------------------------------------------------------------------------
(* Counting the slots that hold a tag, and the copies of items.             *)

Held(f, t, bs) == {p \in TagSlots : p[1] \in bs /\ f[p] = t}
Taken(f) == {p \in TagSlots : f[p] # 0}
CopiesIn(f, S) == {c \in S \X (1 .. MaxCopies) : c[2] <= f[c[1]]}

\* g is f with tag u written into slot p; with one copy more of x.
Written(f, g, p, u) ==
    /\ f \in [TagSlots -> Tags \union {0}]
    /\ p \in TagSlots
    /\ u \in Tags \union {0}
    /\ g = [f EXCEPT ![p] = u]

OneMore(f, g, x) ==
    /\ f \in [Items -> 0 .. MaxCopies]
    /\ g \in [Items -> 0 .. MaxCopies]
    /\ x \in Items
    /\ g[x] = f[x] + 1
    /\ \A y \in Items : y # x => g[y] = f[y]

LEMMA SlotsFinite == IsFiniteSet(TagSlots)
<1>1. IsFiniteSet(TagBuckets) /\ IsFiniteSet(0 .. TagsPerBucket - 1)
  BY FilterSizeAssumption, FS_Interval DEF TagBuckets
<1> QED
  BY <1>1, FS_Product DEF TagSlots

LEMMA HeldFinite ==
    ASSUME NEW f, NEW t, NEW bs
    PROVE  /\ IsFiniteSet(Held(f, t, bs)) /\ Cardinality(Held(f, t, bs)) \in Nat
           /\ IsFiniteSet(Taken(f)) /\ Cardinality(Taken(f)) \in Nat
<1>1. Held(f, t, bs) \in SUBSET TagSlots /\ Taken(f) \in SUBSET TagSlots
  BY DEF Held, Taken
<1> QED
  BY <1>1, SlotsFinite, FS_Subset, FS_CardinalityType

LEMMA OneLess ==
    ASSUME NEW S, NEW x, IsFiniteSet(S), NEW P, P \in BOOLEAN, P <=> x \in S
    PROVE  Cardinality(S \ {x}) = Cardinality(S) - One(P)
<1>1. Cardinality(S) \in Nat
  BY FS_CardinalityType
<1>2. CASE x \in S
  BY <1>1, <1>2, FS_RemoveElement DEF One
<1>3. CASE x \notin S
  BY <1>1, <1>3, FS_RemoveElement DEF One
<1> QED
  BY <1>2, <1>3

\* Writing tag u into slot p takes away one of the tag that was there and adds
\* one of u.
LEMMA WriteCounts ==
    ASSUME NEW f, NEW g, NEW p, NEW u, Written(f, g, p, u),
           NEW t \in Tags, NEW bs
    PROVE  Cardinality(Held(g, t, bs)) =
               Cardinality(Held(f, t, bs)) - One(f[p] = t /\ p[1] \in bs)
                                           + One(u = t /\ p[1] \in bs)
<1> DEFINE R == Held(f, t, bs) \ {p}
<1>1. /\ IsFiniteSet(Held(f, t, bs)) /\ Cardinality(Held(f, t, bs)) \in Nat
      /\ IsFiniteSet(Held(g, t, bs)) /\ Cardinality(Held(g, t, bs)) \in Nat
  BY HeldFinite
<1>2. R = Held(g, t, bs) \ {p}
  BY DEF Held, Written
<1>3. (p \in Held(f, t, bs) <=> f[p] = t /\ p[1] \in bs)
      /\ (p \in Held(g, t, bs) <=> u = t /\ p[1] \in bs)
  BY DEF Held, Written
<1>4. Cardinality(R) = Cardinality(Held(f, t, bs)) - One(f[p] = t /\ p[1] \in bs)
  BY <1>1, <1>3, OneLess
<1>5. Cardinality(R) = Cardinality(Held(g, t, bs)) - One(u = t /\ p[1] \in bs)
  <2> HIDE DEF R
  <2> QED
    BY <1>1, <1>2, <1>3, OneLess
<1> HIDE DEF R
<1>6. One(f[p] = t /\ p[1] \in bs) \in {0, 1} /\ One(u = t /\ p[1] \in bs) \in {0, 1}
  BY DEF One
<1> QED
  BY <1>1, <1>4, <1>5, <1>6

LEMMA WriteTaken ==
    ASSUME NEW f, NEW g, NEW p, NEW u, Written(f, g, p, u)
    PROVE  Cardinality(Taken(g)) =
               Cardinality(Taken(f)) - One(f[p] # 0) + One(u # 0)
<1> DEFINE R == Taken(f) \ {p}
<1>1. /\ IsFiniteSet(Taken(f)) /\ Cardinality(Taken(f)) \in Nat
      /\ IsFiniteSet(Taken(g)) /\ Cardinality(Taken(g)) \in Nat
  BY HeldFinite
<1>2. R = Taken(g) \ {p}
  BY DEF Taken, Written
<1>3. (p \in Taken(f) <=> f[p] # 0) /\ (p \in Taken(g) <=> u # 0)
  BY DEF Taken, Written
<1>4. Cardinality(R) = Cardinality(Taken(f)) - One(f[p] # 0)
  BY <1>1, <1>3, OneLess
<1>5. Cardinality(R) = Cardinality(Taken(g)) - One(u # 0)
  <2> HIDE DEF R
  <2> QED
    BY <1>1, <1>2, <1>3, OneLess
<1> HIDE DEF R
<1>6. One(f[p] # 0) \in {0, 1} /\ One(u # 0) \in {0, 1}
  BY DEF One
<1> QED
  BY <1>1, <1>4, <1>5, <1>6

LEMMA CopiesFinite ==
    ASSUME NEW f, NEW S \in SUBSET Items
    PROVE  IsFiniteSet(CopiesIn(f, S)) /\ Cardinality(CopiesIn(f, S)) \in Nat
<1>1. IsFiniteSet(S) /\ IsFiniteSet(1 .. MaxCopies)
  BY ClientAssumption, FS_Subset, FS_Interval
<1>2. IsFiniteSet(S \X (1 .. MaxCopies))
  BY <1>1, FS_Product
<1>3. CopiesIn(f, S) \in SUBSET (S \X (1 .. MaxCopies))
  BY DEF CopiesIn
<1> QED
  BY <1>2, <1>3, FS_Subset, FS_CardinalityType

\* One copy more of x is one more in every set of items with x.
LEMMA AddCounts ==
    ASSUME NEW f, NEW g, NEW x, OneMore(f, g, x), NEW S \in SUBSET Items
    PROVE  Cardinality(CopiesIn(g, S)) = Cardinality(CopiesIn(f, S)) + One(x \in S)
<1> DEFINE c == <<x, g[x]>>
<1>0. /\ MaxCopies \in Nat
      /\ f \in [Items -> 0 .. MaxCopies] /\ g \in [Items -> 0 .. MaxCopies]
      /\ x \in Items /\ g[x] = f[x] + 1
      /\ \A y \in Items : y # x => g[y] = f[y]
  BY ClientAssumption DEF OneMore
<1>1. IsFiniteSet(CopiesIn(f, S)) /\ Cardinality(CopiesIn(f, S)) \in Nat
  BY CopiesFinite
<1>2. CASE x \in S
  <2>1. c \notin CopiesIn(f, S)
    BY <1>0 DEF CopiesIn
  <2>2. CopiesIn(g, S) = CopiesIn(f, S) \union {c}
    <3>1. ASSUME NEW y \in S, NEW n \in 1 .. MaxCopies
          PROVE  n <= g[y] <=> n <= f[y] \/ <<y, n>> = c
      <4>1. f[x] \in Nat /\ g[x] \in Nat /\ y \in Items
        BY <1>0
      <4>2. CASE y = x
        BY <1>0, <4>1, <4>2
      <4>3. CASE y # x
        BY <1>0, <4>1, <4>3
      <4> QED
        BY <4>2, <4>3
    <3>2. c \in S \X (1 .. MaxCopies)
      BY <1>0, <1>2
    <3> QED
      BY <3>1, <3>2 DEF CopiesIn
  <2> HIDE DEF c
  <2> QED
    BY <1>1, <1>2, <2>1, <2>2, FS_AddElement DEF One
<1>3. CASE x \notin S
  <2>1. CopiesIn(g, S) = CopiesIn(f, S)
    BY <1>0, <1>3 DEF CopiesIn
  <2> QED
    BY <1>1, <1>3, <2>1 DEF One
<1> QED
  BY <1>2, <1>3

LEMMA SomeCopy ==
    ASSUME NEW f, f \in [Items -> 0 .. MaxCopies],
           NEW S \in SUBSET Items, NEW x \in S, f[x] > 0
    PROVE  Cardinality(CopiesIn(f, S)) > 0
<1>1. <<x, 1>> \in CopiesIn(f, S)
  BY ClientAssumption DEF CopiesIn
<1>2. IsFiniteSet(CopiesIn(f, S)) /\ Cardinality(CopiesIn(f, S)) \in Nat
  BY CopiesFinite
<1> QED
  BY <1>1, <1>2, FS_EmptySet

LEMMA NoCopies ==
    ASSUME NEW f, f \in [Items -> {0}], NEW S \in SUBSET Items
    PROVE  Cardinality(CopiesIn(f, S)) = 0
<1>1. CopiesIn(f, S) = {}
  BY DEF CopiesIn
<1> QED
  BY <1>1, FS_EmptySet

LEMMA NoneHeld ==
    ASSUME NEW f, NEW t, NEW bs,
           \A p \in TagSlots : p[1] \in bs => f[p] # t
    PROVE  Cardinality(Held(f, t, bs)) = 0
<1>1. Held(f, t, bs) = {}
  BY DEF Held
<1> QED
  BY <1>1, FS_EmptySet

LEMMA SomeHeld ==
    ASSUME NEW f, NEW t, NEW bs, Cardinality(Held(f, t, bs)) > 0
    PROVE  \E p \in TagSlots : p[1] \in bs /\ f[p] = t
BY NoneHeld

------------------------------------------------------------------------------
(* The inductive invariant.                                                 *)

\* A tag in the hands of AddImpl, and one in the victim cache, is a tag; and
\* there is never one in both.
HandOK ==
    /\ at = "AddImpl" => curtag \in Tags /\ ~victim.used
    /\ victim.used => victim.tag \in Tags
    /\ at = "idle" => count = 0

\* Without seeds no item is ever added.
UnseededEmpty == ~Seeded => \A x \in Items : ledger[x] = 0

\* num_items_ counts the tags in the table at every step; the victim and the
\* tag in hand make up the rest of the items.
Counted ==
    /\ num_items = Cardinality({p \in TagSlots : tags[p] # 0})
    /\ num_items + VictimCount + One(at = "AddImpl") = Copies(Items)

\* The items that share their first bucket and their tag with x.
HomeMates(x) == {y \in Items : TagOf(y) = TagOf(x) /\ IndexHash(y) = IndexHash(x)}

HomeOf(x) == {IndexHash(x)}

\* Until a bucket overflows every tag is in the first bucket of its items.
AtHome ==
    ~moved => /\ ~victim.used
              /\ count = 0
              /\ Seeded => \A x \in Items :
                    TagCount(TagOf(x), HomeOf(x)) = Copies(HomeMates(x))

FilterInv ==
    ClientTypeOK /\ HandOK /\ UnseededEmpty /\ Counted /\ TagsConserved /\ AtHome


------------------------------------------------------------------------------
(* Items, their tags and their classes.                                     *)

LEMMA IndexType ==
    ASSUME NEW x \in Items
    PROVE  IndexHash(x) \in TagBuckets
BY FilterHashAssumption DEF IndexHash

LEMMA SeedsWhole ==
    ASSUME TypeOK
    PROVE  \/ Seeded /\ seeds \in [TagBuckets -> FilterSeeds]
           \/ ~Seeded /\ DOMAIN seeds = {}
<1>1. seeds \in [TagBuckets -> FilterSeeds] \/ seeds = <<>>
  BY FilterSizeAssumption DEF TypeOK
<1>2. 0 \in TagBuckets
  BY FilterSizeAssumption DEF TagBuckets
<1>3. CASE seeds \in [TagBuckets -> FilterSeeds]
  BY <1>3 DEF Seeded
<1>4. CASE seeds = <<>>
  <2>1. DOMAIN seeds = {}
    BY <1>4
  <2> QED
    BY <1>2, <2>1 DEF Seeded
<1> QED
  BY <1>1, <1>3, <1>4

LEMMA TagType ==
    ASSUME TypeOK, Seeded, NEW x \in Items
    PROVE  TagOf(x) \in Tags
<1>1. seeds \in [TagBuckets -> FilterSeeds]
  BY SeedsWhole
<1> QED
  BY <1>1, IndexType, FilterHashAssumption DEF TagOf, TagHash

LEMMA AltType ==
    ASSUME NEW t \in Tags, NEW b \in TagBuckets
    PROVE  AltIndexTag(b, t) \in TagBuckets /\ AltIndexTag(AltIndexTag(b, t), t) = b
BY FilterHashAssumption DEF AltIndexTag

\* The buckets of an item are closed under the alternate index of its tag.
LEMMA ClosedBuckets ==
    ASSUME TypeOK, Seeded, NEW x \in Items, NEW b \in TagBuckets
    PROVE  AltIndexTag(b, TagOf(x)) \in BucketsOf(x) <=> b \in BucketsOf(x)
BY TagType, IndexType, AltType DEF BucketsOf

\* Two items with one tag share both buckets or none.
LEMMA ClassLemma ==
    ASSUME TypeOK, Seeded, NEW x \in Items, NEW y \in Items,
           NEW b \in BucketsOf(x)
    PROVE  x \in ClassMates(y) <=> TagOf(x) = TagOf(y) /\ b \in BucketsOf(y)
<1>1. IndexHash(x) \in TagBuckets /\ IndexHash(y) \in TagBuckets
  BY IndexType
<1>2. TagOf(x) \in Tags /\ TagOf(y) \in Tags
  BY TagType
<1>3. TagOf(x) = TagOf(y) /\ b \in BucketsOf(y) => BucketsOf(x) = BucketsOf(y)
  BY <1>1, <1>2, AltType DEF BucketsOf
<1> QED
  BY <1>3 DEF ClassMates

------------------------------------------------------------------------------
(* How a step changes the counts of the invariant.                          *)

VictimIn(t, bs) == victim.used /\ victim.tag = t /\ victim.index \in bs
HandIn(t, bs) == at = "AddImpl" /\ curtag = t /\ curindex \in bs

LEMMA TagCountSum ==
    ASSUME NEW t, NEW bs
    PROVE  /\ TagCount(t, bs) = Cardinality(Held(tags, t, bs))
                                + One(VictimIn(t, bs)) + One(HandIn(t, bs))
           /\ TagCount(t, bs)' = Cardinality(Held(tags', t, bs))
                                 + One(VictimIn(t, bs)') + One(HandIn(t, bs)')
BY DEF TagCount, Held, VictimIn, HandIn, One

LEMMA CopiesSum ==
    ASSUME NEW S
    PROVE  /\ Copies(S) = Cardinality(CopiesIn(ledger, S))
           /\ Copies(S)' = Cardinality(CopiesIn(ledger', S))
BY DEF Copies, CopiesOf, CopiesIn

LEMMA CopiesMore ==
    ASSUME ClientTypeOK, NEW x \in Items, ledger[x] < MaxCopies,
           ledger' = [ledger EXCEPT ![x] = @ + 1], NEW S \in SUBSET Items
    PROVE  /\ ledger' \in [Items -> 0 .. MaxCopies]
           /\ Copies(S)' = Copies(S) + One(x \in S)
           /\ Copies(S) \in Nat
<1>1. /\ ledger \in [Items -> 0 .. MaxCopies] /\ MaxCopies \in Nat
      /\ ledger' \in [Items -> 0 .. MaxCopies]
      /\ OneMore(ledger, ledger', x)
  BY ClientAssumption DEF ClientTypeOK, OneMore
<1>2. Cardinality(CopiesIn(ledger', S)) = Cardinality(CopiesIn(ledger, S)) + One(x \in S)
  BY <1>1, AddCounts
<1>3. Cardinality(CopiesIn(ledger, S)) \in Nat
  BY CopiesFinite
<1>4. /\ Copies(S) = Cardinality(CopiesIn(ledger, S))
      /\ Copies(S)' = Cardinality(CopiesIn(ledger', S))
  BY CopiesSum
<1> QED
  BY <1>1, <1>2, <1>3, <1>4

LEMMA CopiesLess ==
    ASSUME ClientTypeOK, NEW x \in Items, ledger[x] > 0,
           ledger' = [ledger EXCEPT ![x] = @ - 1], NEW S \in SUBSET Items
    PROVE  /\ ledger' \in [Items -> 0 .. MaxCopies]
           /\ Copies(S)' = Copies(S) - One(x \in S)
           /\ Copies(S) \in Nat /\ Copies(S)' \in Nat
<1>1. /\ ledger \in [Items -> 0 .. MaxCopies] /\ MaxCopies \in Nat
      /\ ledger' \in [Items -> 0 .. MaxCopies]
      /\ OneMore(ledger', ledger, x)
  BY ClientAssumption DEF ClientTypeOK, OneMore
<1>2. Cardinality(CopiesIn(ledger, S)) = Cardinality(CopiesIn(ledger', S)) + One(x \in S)
  BY <1>1, AddCounts
<1>3. One(x \in S) \in {0, 1}
  BY DEF One
<1>4. Cardinality(CopiesIn(ledger, S)) \in Nat /\ Cardinality(CopiesIn(ledger', S)) \in Nat
  BY CopiesFinite
<1>5. /\ Copies(S) = Cardinality(CopiesIn(ledger, S))
      /\ Copies(S)' = Cardinality(CopiesIn(ledger', S))
  BY CopiesSum
<1> QED
  BY <1>1, <1>2, <1>3, <1>4, <1>5

\* Adding takes the tag of the item in hand.
LEMMA BeginCounts ==
    ASSUME TypeOK, NEW x \in Items, AddBegin(x), NEW t, NEW bs
    PROVE  TagCount(t, bs)' = TagCount(t, bs) + One(TagOf(x) = t /\ IndexHash(x) \in bs)
<1>1. /\ tags' = tags /\ victim' = victim /\ at = "idle" /\ at' = "AddImpl"
      /\ curtag' = TagOf(x) /\ curindex' = IndexHash(x)
  BY DEF AddBegin, TagOf
<1>2. ~HandIn(t, bs) /\ VictimIn(t, bs)' = VictimIn(t, bs)
  BY <1>1 DEF HandIn, VictimIn
<1>3. HandIn(t, bs)' <=> TagOf(x) = t /\ IndexHash(x) \in bs
  BY <1>1 DEF HandIn
<1>4. Cardinality(Held(tags, t, bs)) \in Nat
  BY HeldFinite
<1> QED
  BY <1>1, <1>2, <1>3, <1>4, TagCountSum DEF One

\* Placing the tag in hand, and leaving it to the victim cache, keep the counts.
LEMMA PlaceCounts ==
    ASSUME TypeOK, HandOK, AddPlace, NEW t \in Tags, NEW bs
    PROVE  TagCount(t, bs)' = TagCount(t, bs)
<1>1. PICK p \in TagSlots : /\ FirstWith(curindex, 0, p)
                            /\ tags' = [tags EXCEPT ![p] = curtag]
  BY DEF AddPlace
<1>2. /\ p[1] = curindex /\ tags[p] = 0 /\ curtag \in Tags
      /\ tags \in [TagSlots -> Tags \union {0}]
      /\ 0 \notin Tags /\ t # 0 /\ victim' = victim
      /\ at = "AddImpl" /\ at' = "idle"
  BY <1>1, FilterSizeAssumption DEF AddPlace, FirstWith, HandOK, TypeOK, Return
<1>3. Cardinality(Held(tags', t, bs)) =
          Cardinality(Held(tags, t, bs)) - One(tags[p] = t /\ p[1] \in bs)
                                         + One(curtag = t /\ p[1] \in bs)
  <2>1. Written(tags, tags', p, curtag)
    BY <1>1, <1>2 DEF Written
  <2> QED
    BY <2>1, WriteCounts
<1>4. One(tags[p] = t /\ p[1] \in bs) = 0
  BY <1>2 DEF One
<1>5. One(curtag = t /\ p[1] \in bs) = One(HandIn(t, bs)) /\ One(HandIn(t, bs)') = 0
  BY <1>2 DEF HandIn, One
<1>6. One(VictimIn(t, bs)') = One(VictimIn(t, bs))
  BY <1>2 DEF VictimIn, One
<1>7. /\ Cardinality(Held(tags, t, bs)) \in Nat
      /\ One(HandIn(t, bs)) \in {0, 1} /\ One(VictimIn(t, bs)) \in {0, 1}
  BY HeldFinite DEF One
<1> QED
  BY <1>3, <1>4, <1>5, <1>6, <1>7, TagCountSum

LEMMA VictimCounts ==
    ASSUME TypeOK, HandOK, AddVictim, NEW t \in Tags, NEW bs
    PROVE  TagCount(t, bs)' = TagCount(t, bs)
<1>1. /\ at = "AddImpl" /\ at' = "idle" /\ tags' = tags /\ ~victim.used
      /\ victim' = [used |-> TRUE, index |-> curindex, tag |-> curtag]
  BY DEF AddVictim, HandOK, Return
<1>2. ~HandIn(t, bs)' /\ ~VictimIn(t, bs) /\ (VictimIn(t, bs)' <=> HandIn(t, bs))
  BY <1>1 DEF HandIn, VictimIn
<1>3. Cardinality(Held(tags, t, bs)) \in Nat
  BY HeldFinite
<1> QED
  BY <1>1, <1>2, <1>3, TagCountSum DEF One

\* A kick exchanges the tag in hand and one of the bucket, which goes on to its
\* alternate bucket: the counts of the pairs of buckets stay what they were.
LEMMA KickCounts ==
    ASSUME TypeOK, HandOK, AddKick, NEW t \in Tags, NEW bs,
           \A b \in TagBuckets : AltIndexTag(b, t) \in bs <=> b \in bs
    PROVE  /\ TagCount(t, bs)' = TagCount(t, bs)
           /\ curtag' \in Tags
           /\ tags' \in [TagSlots -> Tags \union {0}]
           /\ Cardinality(Taken(tags')) = Cardinality(Taken(tags))
<1>1. PICK p \in TagSlots :
          /\ p[1] = curindex
          /\ IF count > 0
             THEN curtag' = tags[p] /\ tags' = [tags EXCEPT ![p] = curtag]
             ELSE UNCHANGED <<curtag, tags>>
  BY DEF AddKick
<1>2. /\ at = "AddImpl" /\ at' = "AddImpl" /\ victim' = victim
      /\ curindex' = AltIndexTag(curindex, curtag')
      /\ curindex \in TagBuckets /\ curtag \in Tags
      /\ tags \in [TagSlots -> Tags \union {0}] /\ 0 \notin Tags
      /\ tags[p] # 0 /\ tags[p] \in Tags
  BY <1>1, FilterSizeAssumption DEF AddKick, HasTag, HandOK, TypeOK
<1>3. One(VictimIn(t, bs)') = One(VictimIn(t, bs))
  BY <1>2 DEF VictimIn, One
<1>4. One(HandIn(t, bs)') = One(curtag' = t /\ curindex \in bs)
  BY <1>2 DEF HandIn, One
<1>5. One(HandIn(t, bs)) = One(curtag = t /\ curindex \in bs)
  BY <1>2 DEF HandIn, One
<1>6. /\ Cardinality(Held(tags, t, bs)) \in Nat
      /\ One(curtag = t /\ curindex \in bs) \in {0, 1}
      /\ One(tags[p] = t /\ curindex \in bs) \in {0, 1}
      /\ One(VictimIn(t, bs)) \in {0, 1}
  BY HeldFinite DEF One
<1>7. CASE count > 0
  <2>1. curtag' = tags[p] /\ tags' = [tags EXCEPT ![p] = curtag]
    BY <1>1, <1>7
  <2>0. Written(tags, tags', p, curtag)
    BY <1>2, <2>1 DEF Written
  <2>2. Cardinality(Held(tags', t, bs)) =
          Cardinality(Held(tags, t, bs)) - One(tags[p] = t /\ p[1] \in bs)
                                         + One(curtag = t /\ p[1] \in bs)
    BY <2>0, WriteCounts
  <2>3. TagCount(t, bs)' = TagCount(t, bs)
    <3>1. One(tags[p] = t /\ p[1] \in bs) = One(HandIn(t, bs)')
      BY <1>1, <1>4, <2>1 DEF One
    <3>2. One(curtag = t /\ p[1] \in bs) = One(HandIn(t, bs))
      BY <1>1, <1>5 DEF One
    <3>3. One(HandIn(t, bs)) \in {0, 1} /\ One(HandIn(t, bs)') \in {0, 1}
      BY DEF One
    <3> QED
      BY <1>3, <1>6, <2>2, <3>1, <3>2, <3>3, TagCountSum
  <2>4. Cardinality(Taken(tags')) =
            Cardinality(Taken(tags)) - One(tags[p] # 0) + One(curtag # 0)
    BY <2>0, WriteTaken
  <2>5. One(tags[p] # 0) = 1 /\ One(curtag # 0) = 1 /\ Cardinality(Taken(tags)) \in Nat
    BY <1>2, HeldFinite DEF One
  <2> QED
    BY <1>2, <2>1, <2>3, <2>4, <2>5
<1>8. CASE ~(count > 0)
  <2>1. curtag' = curtag /\ tags' = tags
    BY <1>1, <1>8
  <2> QED
    BY <1>2, <1>3, <1>4, <1>5, <2>1, TagCountSum
<1> QED
  BY <1>7, <1>8

\* What DeleteTag and DeleteElsewhere find.
DeletedAt(x, p) ==
    LET t  == TagOf(x)
        b1 == IndexHash(x)
    IN /\ tags[p] = t
       /\ p[1] \in BucketsOf(x)
       /\ HasTag(b1, t) => p[1] = b1

\* Deleting the tag in slot p takes one of it away; the victim, if there is one,
\* is taken in hand again.
LEMMA DeleteCounts ==
    ASSUME TypeOK, HandOK, NEW x \in Items, DeleteTag(x)
    PROVE  \E p \in TagSlots :
              /\ DeletedAt(x, p)
              /\ tags' = [tags EXCEPT ![p] = 0]
              /\ \A t \in Tags, bs \in SUBSET TagBuckets :
                    TagCount(t, bs)' = TagCount(t, bs) - One(tags[p] = t /\ p[1] \in bs)
<1>1. PICK p \in TagSlots :
          /\ DeletedAt(x, p)
          /\ tags' = [tags EXCEPT ![p] = 0]
  BY DEF DeleteTag, DeletedAt, FirstWith, BucketsOf, TagOf
<1>2. /\ at = "idle" /\ EliminateVictim
      /\ tags \in [TagSlots -> Tags \union {0}] /\ 0 \notin Tags
  BY FilterSizeAssumption DEF DeleteTag, TypeOK
<1>3. ASSUME NEW t \in Tags, NEW bs \in SUBSET TagBuckets
      PROVE  TagCount(t, bs)' = TagCount(t, bs) - One(tags[p] = t /\ p[1] \in bs)
  <2>1. Cardinality(Held(tags', t, bs)) =
          Cardinality(Held(tags, t, bs)) - One(tags[p] = t /\ p[1] \in bs)
                                         + One(0 = t /\ p[1] \in bs)
    <3>1. Written(tags, tags', p, 0)
      BY <1>1, <1>2 DEF Written
    <3> QED
      BY <3>1, WriteCounts
  <2>2. One(0 = t /\ p[1] \in bs) = 0 /\ One(HandIn(t, bs)) = 0
    BY <1>2 DEF HandIn, One
  <2>3. One(VictimIn(t, bs)') + One(HandIn(t, bs)') = One(VictimIn(t, bs))
    <3>1. CASE victim.used
      <4>1. /\ victim' = [victim EXCEPT !.used = FALSE] /\ at' = "AddImpl"
            /\ curindex' = victim.index /\ curtag' = victim.tag
        BY <1>2, <3>1 DEF EliminateVictim
      <4>2. ~VictimIn(t, bs)' /\ (HandIn(t, bs)' <=> VictimIn(t, bs))
        BY <3>1, <4>1 DEF VictimIn, HandIn, TypeOK
      <4> QED
        BY <4>2 DEF One
    <3>2. CASE ~victim.used
      <4>1. victim' = victim /\ at' = "idle"
        BY <1>2, <3>2 DEF EliminateVictim, Return
      <4>2. ~VictimIn(t, bs)' /\ ~HandIn(t, bs)' /\ ~VictimIn(t, bs)
        BY <3>2, <4>1 DEF VictimIn, HandIn
      <4> QED
        BY <4>2 DEF One
    <3> QED
      BY <3>1, <3>2
  <2>4. /\ Cardinality(Held(tags, t, bs)) \in Nat
        /\ One(tags[p] = t /\ p[1] \in bs) \in {0, 1}
        /\ One(VictimIn(t, bs)) \in {0, 1}
        /\ One(VictimIn(t, bs)') \in {0, 1} /\ One(HandIn(t, bs)') \in {0, 1}
    BY HeldFinite DEF One
  <2> QED
    BY <2>1, <2>2, <2>3, <2>4, TagCountSum
<1> QED
  BY <1>1, <1>3


\* The seeds never change, nor does what depends on them alone.
LEMMA SeedsStay ==
    ASSUME UNCHANGED seeds
    PROVE  /\ Seeded' = Seeded
           /\ \A x \in Items : /\ TagOf(x)' = TagOf(x)
                               /\ BucketsOf(x)' = BucketsOf(x)
                               /\ ClassMates(x)' = ClassMates(x)
                               /\ HomeMates(x)' = HomeMates(x)
<1>1. Seeded' = Seeded
  BY DEF Seeded
<1>2. \A x : TagOf(x)' = TagOf(x)
  BY DEF TagOf, TagHash
<1>3. \A x : BucketsOf(x)' = BucketsOf(x)
  BY <1>2 DEF BucketsOf, AltIndexTag
<1>4. \A x : ClassMates(x)' = ClassMates(x) /\ HomeMates(x)' = HomeMates(x)
  BY <1>2, <1>3 DEF ClassMates, HomeMates
<1> QED
  BY <1>1, <1>2, <1>3, <1>4

\* The two ways the conserved counts are used at the next state.
LEMMA ConservedNext ==
    ASSUME UNCHANGED seeds,
           Seeded => \A x \in Items : \A t, bs, S :
                t = TagOf(x) /\ bs = BucketsOf(x) /\ S = ClassMates(x)
                    => TagCount(t, bs)' = Copies(S)'
    PROVE  TagsConserved'
<1>1. \A x \in Items : /\ TagOf(x)' = TagOf(x)
                       /\ BucketsOf(x)' = BucketsOf(x)
                       /\ ClassMates(x)' = ClassMates(x)
  BY SeedsStay
<1>2. Seeded' = Seeded
  BY SeedsStay
<1> QED
  BY <1>1, <1>2 DEF TagsConserved, TagCount, Copies, CopiesOf

LEMMA HomeNext ==
    ASSUME UNCHANGED seeds,
           ~moved' => /\ ~victim'.used
                      /\ count' = 0
                      /\ Seeded => \A x \in Items : \A t, bs, S :
                            t = TagOf(x) /\ bs = HomeOf(x) /\ S = HomeMates(x)
                                => TagCount(t, bs)' = Copies(S)'
    PROVE  AtHome'
<1>1. \A x \in Items : TagOf(x)' = TagOf(x) /\ HomeMates(x)' = HomeMates(x)
  BY SeedsStay
<1>2. Seeded' = Seeded
  BY SeedsStay
<1>3. \A x : HomeOf(x)' = HomeOf(x)
  BY DEF HomeOf, IndexHash
<1> QED
  BY <1>1, <1>2, <1>3 DEF AtHome, TagCount, Copies, CopiesOf

LEMMA CountedSum ==
    /\ Counted <=> /\ num_items = Cardinality(Taken(tags))
                   /\ num_items + VictimCount + One(at = "AddImpl") = Copies(Items)
    /\ Counted' <=> /\ num_items' = Cardinality(Taken(tags'))
                    /\ num_items' + VictimCount' + One(at' = "AddImpl") = Copies(Items)'
BY DEF Counted, Taken, One

LEMMA LedgerStays ==
    ASSUME ledger' = ledger, NEW S
    PROVE  Copies(S)' = Copies(S)
BY CopiesSum

LEMMA ReturnTypes ==
    ASSUME NEW s \in {"Ok", "NotFound", "NotEnoughSpace", "out_of_range"}, Return(s)
    PROVE  /\ at' = "idle" /\ at' \in {"idle", "AddImpl"}
           /\ curindex' \in TagBuckets
           /\ curtag' \in Tags \union {0}
           /\ count' = 0 /\ count' \in 0 .. KMaxCuckooCount
           /\ status' \in {"Ok", "NotFound", "NotEnoughSpace", "out_of_range"}
BY FilterSizeAssumption DEF Return, TagBuckets

------------------------------------------------------------------------------
(* Every step keeps the invariant.                                          *)

\* A call that changes nothing, and a step of something else.
LEMMA StillKeeps ==
    ASSUME FilterInv, TypeOK',
           UNCHANGED <<tags, seeds, num_items, victim, ledger, moved, at>>,
           at = "AddImpl" => UNCHANGED <<curindex, curtag>>,
           count' = 0 \/ count' = count
    PROVE  FilterInv'
<1>1. ClientTypeOK' /\ HandOK' /\ UnseededEmpty'
  BY SeedsStay DEF FilterInv, ClientTypeOK, HandOK, UnseededEmpty
<1>2. Counted'
  <2>1. VictimCount' = VictimCount
    BY DEF VictimCount
  <2> QED
    BY <2>1, CountedSum, LedgerStays DEF FilterInv
<1>3. \A t, bs : TagCount(t, bs)' = TagCount(t, bs)
  <2> SUFFICES ASSUME NEW t, NEW bs PROVE TagCount(t, bs)' = TagCount(t, bs)
    OBVIOUS
  <2>1. One(VictimIn(t, bs)') = One(VictimIn(t, bs))
    BY DEF VictimIn, One
  <2>2. One(HandIn(t, bs)') = One(HandIn(t, bs))
    BY DEF HandIn, One
  <2> QED
    BY <2>1, <2>2, TagCountSum
<1>4. TagsConserved'
  <2>1. Seeded => \A x \in Items : TagCount(TagOf(x), BucketsOf(x)) = Copies(ClassMates(x))
    BY DEF FilterInv, TagsConserved
  <2>2. \A S : Copies(S)' = Copies(S)
    BY LedgerStays
  <2> QED
    BY <1>3, <2>1, <2>2, ConservedNext
<1>5. AtHome'
  <2>1. ~moved => /\ ~victim.used /\ count = 0
                  /\ Seeded => \A x \in Items :
                        TagCount(TagOf(x), HomeOf(x)) = Copies(HomeMates(x))
    BY DEF FilterInv, AtHome
  <2>2. \A S : Copies(S)' = Copies(S)
    BY LedgerStays
  <2> QED
    BY <1>3, <2>1, <2>2, HomeNext
<1> QED
  BY <1>1, <1>2, <1>4, <1>5 DEF FilterInv

LEMMA AddKeeps ==
    ASSUME FilterInv, NEW x \in Items, ClientAdd(x)
    PROVE  FilterInv'
<1>1. /\ TypeOK /\ ledger[x] < MaxCopies /\ AddBegin(x) /\ moved' = moved
      /\ ledger' = [ledger EXCEPT ![x] = @ + 1]
      /\ UNCHANGED <<seeds, tags, num_items, victim, count, status>>
      /\ at = "idle" /\ at' = "AddImpl" /\ ~victim.used
      /\ curtag' = TagOf(x) /\ curindex' = IndexHash(x)
      /\ IndexHash(x) \in DOMAIN seeds
  BY DEF FilterInv, ClientTypeOK, ClientAdd, AddBegin, TagOf
<1>2. Seeded /\ TagOf(x) \in Tags /\ IndexHash(x) \in TagBuckets
  BY <1>1, SeedsWhole, TagType, IndexType
<1>3. /\ ledger' \in [Items -> 0 .. MaxCopies]
      /\ \A S \in SUBSET Items : /\ Copies(S)' = Copies(S) + One(x \in S)
                                 /\ Copies(S) \in Nat
  BY <1>1, CopiesMore DEF FilterInv
<1>4. ClientTypeOK'
  BY <1>1, <1>2, <1>3 DEF FilterInv, ClientTypeOK, TypeOK
<1>5. HandOK' /\ UnseededEmpty'
  BY <1>1, <1>2, SeedsStay DEF HandOK, UnseededEmpty
<1>6. Counted'
  <2>1. VictimCount' = VictimCount /\ One(at = "AddImpl") = 0 /\ One(at' = "AddImpl") = 1
    BY <1>1 DEF VictimCount, One
  <2>2. Copies(Items)' = Copies(Items) + 1
    BY <1>3 DEF One
  <2>3. num_items \in Nat /\ VictimCount \in Nat
    BY <1>1 DEF TypeOK, VictimCount
  <2>4. num_items + VictimCount = Copies(Items) /\ num_items = Cardinality(Taken(tags))
    BY <2>1, <2>3, CountedSum DEF FilterInv
  <2> QED
    BY <1>1, <2>1, <2>2, <2>3, <2>4, CountedSum
<1>7. TagsConserved'
  <2>1. ASSUME NEW y \in Items
        PROVE  TagCount(TagOf(y), BucketsOf(y)) + One(TagOf(x) = TagOf(y) /\ IndexHash(x) \in BucketsOf(y))
                   = Copies(ClassMates(y)) + One(x \in ClassMates(y))
    <3>1. x \in ClassMates(y) <=> TagOf(x) = TagOf(y) /\ IndexHash(x) \in BucketsOf(y)
      BY <1>1, <1>2, ClassLemma DEF BucketsOf
    <3>2. TagCount(TagOf(y), BucketsOf(y)) = Copies(ClassMates(y))
      BY <1>2 DEF FilterInv, TagsConserved
    <3> QED
      BY <3>1, <3>2 DEF One
  <2>2. \A t, bs : TagCount(t, bs)' =
                      TagCount(t, bs) + One(TagOf(x) = t /\ IndexHash(x) \in bs)
    BY <1>1, BeginCounts
  <2>3. \A y \in Items : ClassMates(y) \in SUBSET Items
    BY DEF ClassMates
  <2>4. \A y \in Items : \A t, bs, S :
            t = TagOf(y) /\ bs = BucketsOf(y) /\ S = ClassMates(y)
                => TagCount(t, bs)' = Copies(S)'
    BY <1>3, <2>1, <2>2, <2>3
  <2> QED
    BY <1>1, <2>4, ConservedNext
<1>8. AtHome'
  <2>1. ASSUME NEW y \in Items, ~moved
        PROVE  TagCount(TagOf(y), HomeOf(y))
                 + One(TagOf(x) = TagOf(y) /\ IndexHash(x) \in HomeOf(y))
                   = Copies(HomeMates(y)) + One(x \in HomeMates(y))
    <3>1. x \in HomeMates(y) <=> TagOf(x) = TagOf(y) /\ IndexHash(x) \in HomeOf(y)
      BY DEF HomeMates, HomeOf
    <3>2. TagCount(TagOf(y), HomeOf(y)) = Copies(HomeMates(y))
      BY <1>2, <2>1 DEF FilterInv, AtHome
    <3> QED
      BY <3>1, <3>2 DEF One
  <2>2. \A t, bs : TagCount(t, bs)' =
                      TagCount(t, bs) + One(TagOf(x) = t /\ IndexHash(x) \in bs)
    BY <1>1, BeginCounts
  <2>3. \A y \in Items : HomeMates(y) \in SUBSET Items
    BY DEF HomeMates
  <2>4. ~moved => \A y \in Items : \A t, bs, S :
            t = TagOf(y) /\ bs = HomeOf(y) /\ S = HomeMates(y)
                => TagCount(t, bs)' = Copies(S)'
    BY <1>3, <2>1, <2>2, <2>3
  <2>5. ~moved => count = 0 /\ ~victim.used
    BY DEF FilterInv, AtHome
  <2> QED
    BY <1>1, <2>4, <2>5, HomeNext
<1> QED
  BY <1>4, <1>5, <1>6, <1>7, <1>8 DEF FilterInv

\* Steps of AddImpl: the ledger stays, so the counts have to.
LEMMA LoopKeeps ==
    ASSUME FilterInv, UNCHANGED <<seeds, ledger>>,
           \A t \in Tags, bs \in SUBSET TagBuckets :
               (\A b \in TagBuckets : AltIndexTag(b, t) \in bs <=> b \in bs)
                   => TagCount(t, bs)' = TagCount(t, bs)
    PROVE  UnseededEmpty' /\ TagsConserved'
<1>1. UnseededEmpty'
  BY SeedsStay DEF FilterInv, UnseededEmpty
<1>2. ASSUME Seeded, NEW x \in Items, NEW t, NEW bs, NEW S,
             t = TagOf(x), bs = BucketsOf(x), S = ClassMates(x)
      PROVE  TagCount(t, bs)' = Copies(S)'
  <2>1. TagCount(t, bs) = Copies(S)
    BY <1>2 DEF FilterInv, TagsConserved
  <2>2. t \in Tags /\ bs \in SUBSET TagBuckets
    BY <1>2, TagType, IndexType, AltType DEF FilterInv, ClientTypeOK, BucketsOf
  <2>3. \A b \in TagBuckets : AltIndexTag(b, t) \in bs <=> b \in bs
    BY <1>2, ClosedBuckets DEF FilterInv, ClientTypeOK
  <2> QED
    BY <2>1, <2>2, <2>3, LedgerStays
<1> QED
  BY <1>1, <1>2, ConservedNext

LEMMA PlaceKeeps ==
    ASSUME FilterInv, AddPlace, moved' = moved, ledger' = ledger
    PROVE  FilterInv'
<1>1. PICK p \in TagSlots : /\ FirstWith(curindex, 0, p)
                            /\ tags' = [tags EXCEPT ![p] = curtag]
  BY DEF AddPlace
<1>2. /\ TypeOK /\ HandOK /\ at = "AddImpl" /\ Return("Ok")
      /\ UNCHANGED <<seeds, victim>> /\ num_items' = num_items + 1
      /\ curtag \in Tags /\ curtag # 0 /\ tags[p] = 0 /\ ~victim.used
  BY <1>1, FilterSizeAssumption
     DEF AddPlace, FirstWith, FilterInv, ClientTypeOK, HandOK
<1>3. ClientTypeOK' /\ HandOK'
  BY <1>1, <1>2, ReturnTypes DEF FilterInv, ClientTypeOK, TypeOK, HandOK
<1>4. Counted'
  <2>1. Written(tags, tags', p, curtag)
    BY <1>1, <1>2 DEF Written, TypeOK
  <2>2. Cardinality(Taken(tags')) =
            Cardinality(Taken(tags)) - One(tags[p] # 0) + One(curtag # 0)
    BY <2>1, WriteTaken
  <2>3. /\ One(tags[p] # 0) = 0 /\ One(curtag # 0) = 1
        /\ One(at = "AddImpl") = 1 /\ One(at' = "AddImpl") = 0
        /\ VictimCount' = VictimCount
    BY <1>2 DEF One, Return, VictimCount
  <2>4. /\ num_items \in Nat /\ VictimCount \in Nat
        /\ Cardinality(Taken(tags)) \in Nat
    BY <1>2, HeldFinite DEF TypeOK, VictimCount
  <2>5. /\ num_items = Cardinality(Taken(tags))
        /\ num_items + VictimCount + 1 = Copies(Items)
    BY <2>3, CountedSum DEF FilterInv
  <2> QED
    BY <1>2, <2>2, <2>3, <2>4, <2>5, CountedSum, LedgerStays
<1>5. \A t \in Tags, bs \in SUBSET TagBuckets : TagCount(t, bs)' = TagCount(t, bs)
  BY <1>2, PlaceCounts
<1>6. UnseededEmpty' /\ TagsConserved'
  BY <1>2, <1>5, LoopKeeps
<1>7. AtHome'
  <2>1. ASSUME ~moved, Seeded, NEW x \in Items, NEW t, NEW bs, NEW S,
               t = TagOf(x), bs = HomeOf(x), S = HomeMates(x)
        PROVE  TagCount(t, bs)' = Copies(S)'
    <3>1. TagCount(t, bs) = Copies(S)
      BY <2>1 DEF FilterInv, AtHome
    <3>2. t \in Tags /\ bs \in SUBSET TagBuckets
      BY <1>2, <2>1, TagType, IndexType DEF HomeOf
    <3> QED
      BY <1>5, <3>1, <3>2, LedgerStays
  <2>2. ~victim'.used /\ count' = 0
    BY <1>2 DEF Return
  <2> QED
    BY <1>2, <2>1, <2>2, HomeNext
<1> QED
  BY <1>3, <1>4, <1>6, <1>7 DEF FilterInv

\* Kicks happen only once a bucket has overflowed.
LEMMA KickKeeps ==
    ASSUME FilterInv, AddKick, moved' = TRUE, ledger' = ledger
    PROVE  FilterInv'
<1>1. /\ TypeOK /\ HandOK /\ at = "AddImpl" /\ at' = at /\ ~victim.used
      /\ UNCHANGED <<seeds, num_items, victim, status>>
      /\ count < KMaxCuckooCount /\ count' = count + 1
      /\ curindex' = AltIndexTag(curindex, curtag')
  BY DEF AddKick, FilterInv, ClientTypeOK, HandOK, Looping, NextCount
<1>2. \A t \in Tags, bs \in SUBSET TagBuckets :
          (\A b \in TagBuckets : AltIndexTag(b, t) \in bs <=> b \in bs)
              => TagCount(t, bs)' = TagCount(t, bs)
  BY <1>1, KickCounts
<1>3. /\ curtag' \in Tags
      /\ tags' \in [TagSlots -> Tags \union {0}]
      /\ Cardinality(Taken(tags')) = Cardinality(Taken(tags))
  <2>1. PICK t : t \in Tags
    BY <1>1 DEF HandOK
  <2>2. \A b \in TagBuckets : AltIndexTag(b, t) \in TagBuckets <=> b \in TagBuckets
    BY <2>1, AltType
  <2> QED
    BY <1>1, <2>1, <2>2, KickCounts
<1>4. ClientTypeOK' /\ HandOK'
  <2>1. curindex' \in TagBuckets /\ count' \in 0 .. KMaxCuckooCount
    BY <1>1, <1>3, AltType, FilterSizeAssumption DEF TypeOK
  <2> QED
    BY <1>1, <1>3, <2>1 DEF FilterInv, ClientTypeOK, TypeOK, HandOK
<1>5. Counted'
  <2>1. VictimCount' = VictimCount
    BY <1>1 DEF VictimCount
  <2> QED
    BY <1>1, <1>3, <2>1, CountedSum, LedgerStays DEF FilterInv
<1>6. UnseededEmpty' /\ TagsConserved'
  BY <1>1, <1>2, LoopKeeps
<1>7. AtHome'
  BY DEF AtHome
<1> QED
  BY <1>4, <1>5, <1>6, <1>7 DEF FilterInv

LEMMA VictimKeeps ==
    ASSUME FilterInv, AddVictim, moved' = moved, ledger' = ledger
    PROVE  FilterInv'
<1>1. /\ TypeOK /\ HandOK /\ at = "AddImpl" /\ Return("Ok")
      /\ UNCHANGED <<seeds, tags, num_items>>
      /\ ~(count < KMaxCuckooCount) /\ curtag \in Tags /\ ~victim.used
      /\ victim' = [used |-> TRUE, index |-> curindex, tag |-> curtag]
  BY DEF AddVictim, FilterInv, ClientTypeOK, HandOK, Looping
<1>2. ClientTypeOK' /\ HandOK'
  BY <1>1, ReturnTypes DEF FilterInv, ClientTypeOK, TypeOK, HandOK
<1>3. Counted'
  <2>1. /\ VictimCount = 0 /\ VictimCount' = 1
        /\ One(at = "AddImpl") = 1 /\ One(at' = "AddImpl") = 0
    BY <1>1 DEF VictimCount, One, Return
  <2>2. num_items \in Nat
    BY <1>1 DEF TypeOK
  <2> QED
    BY <1>1, <2>1, <2>2, CountedSum, LedgerStays DEF FilterInv
<1>4. \A t \in Tags, bs \in SUBSET TagBuckets : TagCount(t, bs)' = TagCount(t, bs)
  BY <1>1, VictimCounts
<1>5. UnseededEmpty' /\ TagsConserved'
  BY <1>1, <1>4, LoopKeeps
<1>6. moved
  BY <1>1, FilterSizeAssumption DEF FilterInv, AtHome
<1>7. AtHome'
  BY <1>6 DEF AtHome
<1> QED
  BY <1>2, <1>3, <1>5, <1>7 DEF FilterInv

\* Until a bucket overflows, the first bucket of an item that was added and not
\* deleted holds its tag.
LEMMA AtHomeHolds ==
    ASSUME FilterInv, at = "idle", ~moved, NEW x \in Items, ledger[x] > 0
    PROVE  Seeded /\ HasTag(IndexHash(x), TagOf(x))
<1>1. Seeded /\ ledger \in [Items -> 0 .. MaxCopies]
  BY ClientAssumption DEF FilterInv, UnseededEmpty, ClientTypeOK
<1>2. TagCount(TagOf(x), HomeOf(x)) = Copies(HomeMates(x))
  BY <1>1 DEF FilterInv, AtHome
<1>3. HomeMates(x) \in SUBSET Items /\ x \in HomeMates(x)
  BY DEF HomeMates
<1>4. Copies(HomeMates(x)) > 0
  BY <1>1, <1>3, SomeCopy, CopiesSum
<1>5. One(VictimIn(TagOf(x), HomeOf(x))) = 0 /\ One(HandIn(TagOf(x), HomeOf(x))) = 0
  BY DEF One, VictimIn, HandIn, FilterInv, AtHome
<1>6. Cardinality(Held(tags, TagOf(x), HomeOf(x))) > 0
  <2>1. Cardinality(Held(tags, TagOf(x), HomeOf(x))) \in Nat
    BY HeldFinite
  <2> QED
    BY <1>2, <1>4, <1>5, <2>1, TagCountSum
<1>7. PICK p \in TagSlots : p[1] \in HomeOf(x) /\ tags[p] = TagOf(x)
  BY <1>6, SomeHeld
<1> QED
  BY <1>1, <1>7 DEF HasTag, HomeOf

LEMMA DeleteTagKeeps ==
    ASSUME FilterInv, NEW x \in Items, ledger[x] > 0, DeleteTag(x),
           ledger' = [ledger EXCEPT ![x] = @ - 1], moved' = moved
    PROVE  FilterInv'
<1>1. /\ ClientTypeOK /\ TypeOK /\ HandOK /\ at = "idle" /\ EliminateVictim
      /\ UNCHANGED seeds /\ num_items' = num_items - 1
      /\ IndexHash(x) \in DOMAIN seeds
  BY DEF FilterInv, ClientTypeOK, DeleteTag
<1>2. PICK p \in TagSlots :
         /\ DeletedAt(x, p)
         /\ tags' = [tags EXCEPT ![p] = 0]
         /\ \A t \in Tags, bs \in SUBSET TagBuckets :
               TagCount(t, bs)' = TagCount(t, bs) - One(tags[p] = t /\ p[1] \in bs)
  BY <1>1, DeleteCounts
<1>3. Seeded /\ TagOf(x) \in Tags /\ IndexHash(x) \in TagBuckets
  BY <1>1, SeedsWhole, TagType, IndexType
<1>4. tags[p] = TagOf(x) /\ tags[p] # 0 /\ p[1] \in BucketsOf(x)
  BY <1>2, <1>3, FilterSizeAssumption DEF DeletedAt
<1>5. /\ ledger' \in [Items -> 0 .. MaxCopies]
      /\ \A S \in SUBSET Items : /\ Copies(S)' = Copies(S) - One(x \in S)
                                 /\ Copies(S) \in Nat
  BY <1>1, CopiesLess
<1>6. \/ /\ victim.used /\ victim' = [victim EXCEPT !.used = FALSE]
         /\ at' = "AddImpl" /\ curindex' = victim.index /\ curtag' = victim.tag
         /\ UNCHANGED <<count, status>>
      \/ ~victim.used /\ Return("Ok") /\ victim' = victim
  BY <1>1 DEF EliminateVictim
<1>7. Counted /\ num_items = Cardinality(Taken(tags)) /\ num_items \in Nat
  BY <1>1, CountedSum DEF FilterInv, TypeOK
<1>8. Cardinality(Taken(tags')) = num_items - 1 /\ num_items - 1 \in Nat
  <2>1. Written(tags, tags', p, 0)
    BY <1>1, <1>2 DEF Written, TypeOK
  <2>2. Cardinality(Taken(tags')) = Cardinality(Taken(tags)) - One(tags[p] # 0) + One(0 # 0)
    BY <2>1, WriteTaken
  <2>3. One(tags[p] # 0) = 1 /\ One(0 # 0) = 0 /\ Cardinality(Taken(tags')) \in Nat
    BY <1>4, HeldFinite DEF One
  <2> QED
    BY <1>7, <2>2, <2>3
<1>9. ClientTypeOK' /\ HandOK' /\ UnseededEmpty'
  <2>1. tags' \in [TagSlots -> Tags \union {0}] /\ seeds' \in SeedVectors
    BY <1>1, <1>2 DEF TypeOK
  <2>2. num_items' \in Nat /\ moved' \in BOOLEAN
    BY <1>1, <1>8 DEF ClientTypeOK
  <2>3. UnseededEmpty'
    BY <1>1, <1>3, SeedsStay DEF UnseededEmpty
  <2>4. CASE victim.used
    <3>1. /\ victim' = [victim EXCEPT !.used = FALSE]
          /\ at' = "AddImpl" /\ curindex' = victim.index /\ curtag' = victim.tag
          /\ UNCHANGED <<count, status>>
      BY <1>6, <2>4
    <3>2. curtag' \in Tags /\ ~victim'.used
      BY <1>1, <2>4, <3>1 DEF HandOK, TypeOK
    <3> QED
      BY <1>1, <1>5, <2>1, <2>2, <2>3, <3>1, <3>2 DEF ClientTypeOK, TypeOK, HandOK
  <2>5. CASE ~victim.used
    <3>1. Return("Ok") /\ victim' = victim
      BY <1>6, <2>5
    <3> QED
      BY <1>1, <1>5, <2>1, <2>2, <2>3, <2>5, <3>1, ReturnTypes
         DEF ClientTypeOK, TypeOK, HandOK
  <2> QED
    BY <2>4, <2>5
<1>10. Counted'
  <2>1. VictimCount' + One(at' = "AddImpl") = VictimCount /\ One(at = "AddImpl") = 0
    BY <1>1, <1>6 DEF VictimCount, One, Return, TypeOK
  <2>2. Copies(Items)' = Copies(Items) - 1
    BY <1>5 DEF One
  <2>3. /\ VictimCount \in Nat /\ VictimCount' \in Nat /\ One(at' = "AddImpl") \in Nat
        /\ Copies(Items) \in Nat
    BY <1>5 DEF VictimCount, One
  <2>4. num_items + VictimCount + One(at = "AddImpl") = Copies(Items)
    BY <1>7, CountedSum
  <2>5. num_items' + VictimCount' + One(at' = "AddImpl") = Copies(Items)'
    BY <1>1, <1>7, <2>1, <2>2, <2>3, <2>4
  <2> QED
    BY <1>1, <1>8, <2>5, CountedSum
<1>11. TagsConserved'
  <2>1. ASSUME NEW y \in Items, NEW t, NEW bs, NEW S,
               t = TagOf(y), bs = BucketsOf(y), S = ClassMates(y)
        PROVE  TagCount(t, bs)' = Copies(S)'
    <3>1. x \in S <=> tags[p] = t /\ p[1] \in bs
      BY <1>1, <1>3, <1>4, <2>1, ClassLemma
    <3>2. TagCount(t, bs) = Copies(S)
      BY <1>3, <2>1 DEF FilterInv, TagsConserved
    <3>3. t \in Tags /\ bs \in SUBSET TagBuckets /\ S \in SUBSET Items
      BY <1>1, <1>3, <2>1, TagType, IndexType, AltType DEF BucketsOf, ClassMates
    <3>4. One(x \in S) = One(tags[p] = t /\ p[1] \in bs)
      BY <3>1 DEF One
    <3>5. TagCount(t, bs)' = TagCount(t, bs) - One(tags[p] = t /\ p[1] \in bs)
      BY <1>2, <3>3
    <3>6. Copies(S)' = Copies(S) - One(x \in S)
      BY <1>5, <3>3
    <3> QED
      BY <3>2, <3>4, <3>5, <3>6
  <2> QED
    BY <1>1, <2>1, ConservedNext
<1>12. AtHome'
  <2>1. ASSUME ~moved, NEW y \in Items, NEW t, NEW bs, NEW S,
               t = TagOf(y), bs = HomeOf(y), S = HomeMates(y)
        PROVE  TagCount(t, bs)' = Copies(S)'
    <3>1. p[1] = IndexHash(x)
      BY <1>1, <1>2, <2>1, AtHomeHolds DEF DeletedAt
    <3>2. x \in S <=> tags[p] = t /\ p[1] \in bs
      BY <1>4, <2>1, <3>1 DEF HomeOf, HomeMates
    <3>3. TagCount(t, bs) = Copies(S)
      BY <1>3, <2>1 DEF FilterInv, AtHome
    <3>4. t \in Tags /\ bs \in SUBSET TagBuckets /\ S \in SUBSET Items
      BY <1>1, <1>3, <2>1, TagType, IndexType DEF HomeOf, HomeMates
    <3>5. One(x \in S) = One(tags[p] = t /\ p[1] \in bs)
      BY <3>2 DEF One
    <3>6. TagCount(t, bs)' = TagCount(t, bs) - One(tags[p] = t /\ p[1] \in bs)
      BY <1>2, <3>4
    <3>7. Copies(S)' = Copies(S) - One(x \in S)
      BY <1>5, <3>4
    <3> QED
      BY <3>3, <3>5, <3>6, <3>7
  <2>2. ~moved => ~victim'.used /\ count' = 0
    BY <1>6 DEF FilterInv, AtHome, Return
  <2> QED
    BY <1>1, <2>1, <2>2, HomeNext
<1> QED
  BY <1>9, <1>10, <1>11, <1>12 DEF FilterInv

\* An item that was added and not deleted, and is in neither of its buckets, is
\* the victim.
LEMMA VictimFound ==
    ASSUME FilterInv, NEW x \in Items, ledger[x] > 0, DeleteElsewhere(x)
    PROVE  victim.used /\ victim.tag = TagOf(x) /\ victim.index \in BucketsOf(x)
<1>1. /\ TypeOK /\ HandOK /\ at = "idle"
      /\ ~HasTag(IndexHash(x), TagOf(x))
      /\ ~HasTag(AltIndexTag(IndexHash(x), TagOf(x)), TagOf(x))
      /\ IndexHash(x) \in DOMAIN seeds
  BY DEF FilterInv, ClientTypeOK, DeleteElsewhere, TagOf
<1>2. Seeded
  BY <1>1, SeedsWhole
<1>3. Cardinality(Held(tags, TagOf(x), BucketsOf(x))) = 0
  <2>1. \A p \in TagSlots : p[1] \in BucketsOf(x) => tags[p] # TagOf(x)
    BY <1>1 DEF HasTag, BucketsOf
  <2> QED
    BY <2>1, NoneHeld
<1>4. TagCount(TagOf(x), BucketsOf(x)) = Copies(ClassMates(x))
  BY <1>2 DEF FilterInv, TagsConserved
<1>5. Copies(ClassMates(x)) > 0
  <2>1. ClassMates(x) \in SUBSET Items /\ x \in ClassMates(x)
    BY DEF ClassMates
  <2>2. ledger \in [Items -> 0 .. MaxCopies]
    BY DEF FilterInv, ClientTypeOK
  <2> QED
    BY <2>1, <2>2, SomeCopy, CopiesSum
<1>6. One(HandIn(TagOf(x), BucketsOf(x))) = 0
  BY <1>1 DEF One, HandIn
<1>7. One(VictimIn(TagOf(x), BucketsOf(x))) # 0
  <2>1. One(VictimIn(TagOf(x), BucketsOf(x))) \in {0, 1}
    BY DEF One
  <2> QED
    BY <1>3, <1>4, <1>5, <1>6, <2>1, TagCountSum
<1> QED
  BY <1>7 DEF One, VictimIn

LEMMA ElsewhereKeeps ==
    ASSUME FilterInv, NEW x \in Items, ledger[x] > 0, DeleteElsewhere(x),
           ledger' = [ledger EXCEPT ![x] = @ - 1], moved' = moved
    PROVE  FilterInv' /\ status' = "Ok"
<1>1. victim.used /\ victim.tag = TagOf(x) /\ victim.index \in BucketsOf(x)
  BY VictimFound
<1>2. /\ ClientTypeOK /\ TypeOK /\ HandOK /\ at = "idle" /\ Return("Ok")
      /\ victim' = [victim EXCEPT !.used = FALSE]
      /\ UNCHANGED <<seeds, tags, num_items>>
      /\ IndexHash(x) \in DOMAIN seeds
  BY <1>1 DEF FilterInv, ClientTypeOK, DeleteElsewhere, BucketsOf, TagOf
<1>3. Seeded /\ TagOf(x) \in Tags /\ IndexHash(x) \in TagBuckets /\ ~victim'.used
  BY <1>2, SeedsWhole, TagType, IndexType DEF TypeOK
<1>4. /\ ledger' \in [Items -> 0 .. MaxCopies]
      /\ \A S \in SUBSET Items : /\ Copies(S)' = Copies(S) - One(x \in S)
                                 /\ Copies(S) \in Nat
  BY <1>2, CopiesLess
<1>5. ClientTypeOK' /\ HandOK' /\ UnseededEmpty'
  <2>1. UnseededEmpty'
    BY <1>2, <1>3, SeedsStay DEF UnseededEmpty
  <2> QED
    BY <1>2, <1>3, <1>4, <2>1, ReturnTypes DEF ClientTypeOK, TypeOK, HandOK
<1>6. Counted'
  <2>1. /\ VictimCount = 1 /\ VictimCount' = 0
        /\ One(at = "AddImpl") = 0 /\ One(at' = "AddImpl") = 0
    BY <1>1, <1>2, <1>3 DEF VictimCount, One, Return
  <2>2. Copies(Items)' = Copies(Items) - 1 /\ num_items \in Nat
    BY <1>2, <1>4 DEF One, TypeOK
  <2> QED
    BY <1>2, <2>1, <2>2, CountedSum DEF FilterInv
<1>7. TagsConserved'
  <2>1. ASSUME NEW y \in Items, NEW t, NEW bs, NEW S,
               t = TagOf(y), bs = BucketsOf(y), S = ClassMates(y)
        PROVE  TagCount(t, bs)' = Copies(S)'
    <3>1. x \in S <=> TagOf(x) = t /\ victim.index \in bs
      BY <1>1, <1>2, <1>3, <2>1, ClassLemma
    <3>2. TagCount(t, bs) = Copies(S)
      BY <1>3, <2>1 DEF FilterInv, TagsConserved
    <3>3. S \in SUBSET Items
      BY <2>1 DEF ClassMates
    <3>4. /\ One(VictimIn(t, bs)) = One(x \in S) /\ One(VictimIn(t, bs)') = 0
          /\ One(HandIn(t, bs)) = 0 /\ One(HandIn(t, bs)') = 0
      BY <1>1, <1>2, <1>3, <3>1 DEF One, VictimIn, HandIn, Return
    <3>5. Cardinality(Held(tags, t, bs)) \in Nat /\ tags' = tags
          /\ One(x \in S) \in {0, 1}
      BY <1>2, HeldFinite DEF One
    <3>6. Copies(S)' = Copies(S) - One(x \in S)
      BY <1>4, <3>3
    <3> QED
      BY <3>2, <3>4, <3>5, <3>6, TagCountSum
  <2> QED
    BY <1>2, <2>1, ConservedNext
<1>8. AtHome'
  <2>1. moved
    BY <1>1 DEF FilterInv, AtHome
  <2> QED
    BY <2>1 DEF AtHome
<1>9. status' = "Ok"
  BY <1>2 DEF Return
<1> QED
  BY <1>5, <1>6, <1>7, <1>8, <1>9 DEF FilterInv

------------------------------------------------------------------------------
(* The invariant.                                                           *)

LEMMA FilterInvInit == ClientInit => FilterInv
<1> SUFFICES ASSUME ClientInit PROVE FilterInv
  OBVIOUS
<1>1. /\ tags = [p \in TagSlots |-> 0] /\ seeds \in SeedVectors /\ num_items = 0
      /\ victim = NoVictim /\ at = "idle" /\ curindex = 0 /\ curtag = 0 /\ count = 0
      /\ status = "Ok" /\ ledger = [x \in Items |-> 0] /\ moved = FALSE
  BY DEF ClientInit, Init
<1>2. TypeOK
  BY <1>1, FilterSizeAssumption DEF TypeOK, NoVictim, TagBuckets
<1>3. ClientTypeOK /\ HandOK /\ UnseededEmpty
  <2>1. ledger \in [Items -> 0 .. MaxCopies] /\ \A x \in Items : ledger[x] = 0
    BY <1>1, ClientAssumption
  <2>2. ~victim.used
    BY <1>1 DEF NoVictim
  <2> QED
    BY <1>1, <1>2, <2>1, <2>2 DEF ClientTypeOK, HandOK, UnseededEmpty
<1>4. \A S \in SUBSET Items : Copies(S) = 0
  <2>1. ledger \in [Items -> {0}]
    BY <1>1
  <2> QED
    BY <2>1, NoCopies, CopiesSum
<1>5. Counted
  <2>1. Taken(tags) = {}
    BY <1>1 DEF Taken
  <2>2. Cardinality(Taken(tags)) = 0
    BY <2>1, FS_EmptySet
  <2>3. VictimCount = 0 /\ One(at = "AddImpl") = 0
    BY <1>1 DEF VictimCount, NoVictim, One
  <2>4. Copies(Items) = 0
    BY <1>4
  <2> QED
    BY <1>1, <2>2, <2>3, <2>4, CountedSum
<1>6. \A t \in Tags : \A bs : TagCount(t, bs) = 0
  <2> SUFFICES ASSUME NEW t \in Tags, NEW bs PROVE TagCount(t, bs) = 0
    OBVIOUS
  <2>1. \A p \in TagSlots : p[1] \in bs => tags[p] # t
    BY <1>1, FilterSizeAssumption
  <2>2. Cardinality(Held(tags, t, bs)) = 0
    BY <2>1, NoneHeld
  <2>3. One(VictimIn(t, bs)) = 0 /\ One(HandIn(t, bs)) = 0
    BY <1>1 DEF One, VictimIn, HandIn, NoVictim
  <2> QED
    BY <2>2, <2>3, TagCountSum
<1>7. \A x \in Items : ClassMates(x) \in SUBSET Items /\ HomeMates(x) \in SUBSET Items
  BY DEF ClassMates, HomeMates
<1>8. TagsConserved
  BY <1>2, <1>4, <1>6, <1>7, TagType DEF TagsConserved
<1>9. AtHome
  BY <1>1, <1>2, <1>4, <1>6, <1>7, TagType DEF AtHome, NoVictim
<1> QED
  BY <1>3, <1>5, <1>8, <1>9 DEF FilterInv

LEMMA FilterInvStep == FilterInv /\ [ClientNext]_clientVars => FilterInv'
<1> SUFFICES ASSUME FilterInv, [ClientNext]_clientVars PROVE FilterInv'
  OBVIOUS
<1>1. ASSUME NEW x \in Items, ClientAdd(x) PROVE FilterInv'
  BY <1>1, AddKeeps
<1>2. ASSUME NEW x \in Items, ClientDelete(x) PROVE FilterInv'
  BY <1>2, DeleteTagKeeps, ElsewhereKeeps DEF ClientDelete
<1>3. ASSUME ClientAddFails PROVE FilterInv'
  <2>1. /\ \/ Return("NotEnoughSpace")
           \/ Return("out_of_range")
        /\ UNCHANGED <<tags, seeds, num_items, victim, ledger, moved>>
        /\ at = "idle"
    BY <1>3 DEF ClientAddFails, AddRefused, AddThrows
  <2>2. at' = at /\ count' = 0 /\ TypeOK'
    BY <2>1, ReturnTypes DEF FilterInv, ClientTypeOK, TypeOK
  <2> QED
    BY <2>1, <2>2, StillKeeps
<1>4. ASSUME FilterStep PROVE FilterInv'
  BY <1>4, PlaceKeeps, VictimKeeps, KickKeeps DEF FilterStep
<1>5. CASE UNCHANGED clientVars
  <2>1. /\ UNCHANGED <<tags, seeds, num_items, victim, ledger, moved, at>>
        /\ UNCHANGED <<curindex, curtag, count, status>>
    BY <1>5 DEF clientVars, vars
  <2>2. TypeOK'
    BY <2>1 DEF FilterInv, ClientTypeOK, TypeOK
  <2> QED
    BY <2>1, <2>2, StillKeeps
<1> QED
  BY <1>1, <1>2, <1>3, <1>4, <1>5 DEF ClientNext

LEMMA FilterInvariance == ClientSpec => []FilterInv
BY FilterInvInit, FilterInvStep, PTL DEF ClientSpec

------------------------------------------------------------------------------
(* What it gives.                                                           *)

\* Every variable of the filter keeps its type: num_items_ never falls below
\* zero and no call kicks more than kMaxCuckooCount times.
THEOREM FilterTypeCorrect == ClientSpec => []ClientTypeOK
<1>1. FilterInv => ClientTypeOK
  BY DEF FilterInv
<1> QED
  BY <1>1, FilterInvariance, PTL

\* Kicks, the victim cache and deletions keep exactly the tags of the items
\* that were added and not deleted, each in one of its two buckets.
THEOREM TagsConservedHolds == ClientSpec => []TagsConserved
<1>1. FilterInv => TagsConserved
  BY DEF FilterInv
<1> QED
  BY <1>1, FilterInvariance, PTL

\* num_items_ counts the tags in the table: the items but for a cached victim.
THEOREM ItemsCountedHolds == ClientSpec => []ItemsCounted
<1>1. FilterInv => ItemsCounted
  <2> SUFFICES ASSUME FilterInv, at = "idle"
               PROVE  /\ num_items = Cardinality({p \in TagSlots : tags[p] # 0})
                      /\ num_items + VictimCount = Copies(Items)
    BY DEF ItemsCounted
  <2>1. num_items \in Nat /\ VictimCount \in Nat /\ One(at = "AddImpl") = 0
    BY DEF FilterInv, ClientTypeOK, TypeOK, VictimCount, One
  <2> QED
    BY <2>1 DEF FilterInv, Counted
<1> QED
  BY <1>1, FilterInvariance, PTL

\* As long as no bucket has overflowed, Contain finds every item that was added
\* and not deleted.
THEOREM FoundUntilMovedHolds == ClientSpec => []FoundUntilMoved
<1>1. FilterInv => FoundUntilMoved
  BY AtHomeHolds DEF FoundUntilMoved, Contain, TagOf
<1> QED
  BY <1>1, FilterInvariance, PTL

\* An item that was added and not deleted can be deleted, whatever was kicked
\* where: Delete never answers NotFound to a client that keeps to its rule.
THEOREM DeleteSucceedsHolds == ClientSpec => DeleteSucceeds
<1>1. FilterInv /\ [ClientNext]_clientVars =>
          [\A x \in Items : ClientDelete(x) => status' = "Ok" \/ at' = "AddImpl"]_clientVars
  <2> SUFFICES ASSUME FilterInv, NEW x \in Items, ClientDelete(x)
               PROVE  status' = "Ok" \/ at' = "AddImpl"
    OBVIOUS
  <2>1. CASE DeleteTag(x)
    BY <2>1 DEF DeleteTag, EliminateVictim, Return
  <2>2. CASE DeleteElsewhere(x)
    BY <2>2, ElsewhereKeeps DEF ClientDelete
  <2> QED
    BY <2>1, <2>2 DEF ClientDelete
<1> QED
  BY <1>1, FilterInvariance, PTL DEF ClientSpec, DeleteSucceeds
==============================================================================
