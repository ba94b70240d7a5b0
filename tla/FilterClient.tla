----------------------------- MODULE FilterClient -----------------------------
(***************************************************************************)
(* A client of CuckooFilter that keeps to the rule of its README: it       *)
(* deletes only items that are in the filter, by its own records.  The     *)
(* records, how many copies of each item were added and not deleted, are   *)
(* the history the properties of the filter are stated against; and        *)
(* whether any Add found its bucket full and went on to another.           *)
(***************************************************************************)
EXTENDS CuckooFilter

CONSTANT MaxCopies  \* bound on the copies of one item in the filter

ASSUME ClientAssumption == IsFiniteSet(Items) /\ MaxCopies \in Nat

VARIABLES
    ledger,  \* copies of each item added and not deleted
    moved    \* whether a bucket overflowed

clientVars == <<vars, ledger, moved>>

ClientTypeOK ==
    TypeOK /\ ledger \in [Items -> 0 .. MaxCopies] /\ moved \in BOOLEAN

ClientInit == Init /\ ledger = [x \in Items |-> 0] /\ moved = FALSE

\* An Add that does not return Ok adds nothing.
ClientAddFails ==
    /\ AddRefused \/ \E x \in Items : AddThrows(x)
    /\ UNCHANGED <<ledger, moved>>

ClientAdd(x) ==
    /\ ledger[x] < MaxCopies
    /\ AddBegin(x)
    /\ ledger' = [ledger EXCEPT ![x] = @ + 1]
    /\ UNCHANGED moved

ClientDelete(x) ==
    /\ ledger[x] > 0
    /\ DeleteTag(x) \/ DeleteElsewhere(x)
    /\ ledger' = [ledger EXCEPT ![x] = @ - 1]
    /\ UNCHANGED moved

FilterStep ==
    /\ \/ (AddPlace \/ AddVictim) /\ UNCHANGED moved
       \/ AddKick /\ moved' = TRUE
    /\ UNCHANGED ledger

ClientNext ==
    \/ \E x \in Items : ClientAdd(x) \/ ClientDelete(x)
    \/ ClientAddFails
    \/ FilterStep

\* One thread runs each call to its end.
ClientSpec == ClientInit /\ [][ClientNext]_clientVars /\ WF_clientVars(FilterStep)

------------------------------------------------------------------------------
(* Properties.                                                              *)

\* What an item leaves in the table: a tag that is in one of two buckets.
TagOf(x) == TagHash(x, IndexHash(x))
Seeded == DOMAIN seeds = TagBuckets
BucketsOf(x) == {IndexHash(x), AltIndexTag(IndexHash(x), TagOf(x))}
ClassMates(x) == {y \in Items : TagOf(y) = TagOf(x) /\ BucketsOf(y) = BucketsOf(x)}

\* The copies the client has in the filter of the items of S, numbered.
CopiesOf(S) == {c \in S \X (1 .. MaxCopies) : c[2] <= ledger[c[1]]}
Copies(S) == Cardinality(CopiesOf(S))

VictimCount == IF victim.used THEN 1 ELSE 0

\* The tags of one class: in the table, in the victim cache, and in the hands
\* of AddImpl.
TagCount(t, bs) ==
    Cardinality({p \in TagSlots : p[1] \in bs /\ tags[p] = t})
    + (IF victim.used /\ victim.tag = t /\ victim.index \in bs THEN 1 ELSE 0)
    + (IF at = "AddImpl" /\ curtag = t /\ curindex \in bs THEN 1 ELSE 0)

\* Kicks, the victim cache and its elimination neither lose nor invent a tag,
\* and no tag leaves its two buckets.
TagsConserved ==
    Seeded => \A x \in Items :
                  TagCount(TagOf(x), BucketsOf(x)) = Copies(ClassMates(x))

\* An item that was added and not deleted can be deleted.
DeleteSucceeds ==
    [][\A x \in Items : ClientDelete(x) => status' = "Ok" \/ at' = "AddImpl"]_clientVars

\* num_items_ counts the tags in the table, through kicks, deletions and the
\* elimination of a victim.  A tag in the victim cache it leaves out: there are
\* then one more items than it says, and SizeIsItems below, which is what the
\* documentation says, is not so.
ItemsCounted ==
    at = "idle" => /\ num_items = Cardinality({p \in TagSlots : tags[p] # 0})
                   /\ num_items + VictimCount = Copies(Items)

\* What is left of "previously inserted items are in the filter" (AddedFound):
\* it is true until the first bucket overflows, whatever is deleted, and with
\* seeds of all kinds.
FoundUntilMoved ==
    at = "idle" /\ ~moved => \A x \in Items : ledger[x] > 0 => Contain(x)

\* A call ends, whichever tags rand() kicks out.
CallEnds == (at # "idle") ~> (at = "idle")

\* "Check if previously inserted items are in the filter, expected true for
\* all items".
AddedFound == at = "idle" => \A x \in Items : ledger[x] > 0 => Contain(x)

\* "return the total number of items currently in the filter" (README, Size()),
\* "number of current inserted items" (Size), "Number of items stored"
\* (num_items_): between calls Size() is the number of items a client added and
\* did not delete.  Not so: an instance with a cached victim violates it.
SizeIsItems == at = "idle" => Size = Copies(Items)

\* "CuckooFilter<size_t, 12> filter(total_items); ... filter.Add(12)": a filter
\* is used as it comes from its first constructor.
AddNeverThrows == status # "out_of_range"

==============================================================================
