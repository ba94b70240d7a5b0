--------------------------- MODULE BucketContainer ---------------------------
(***************************************************************************)
(* Storage of the cuckoo hash table: bucket_container<Key, SLOT_PER_BUCKET>*)
(* of bucketcontainer.hh.  A bucket is three parallel arrays, keys_,       *)
(* partials_ and occupied_; the constructor of a bucket initialises only   *)
(* occupied_, so the other two arrays hold whatever the memory held.  The  *)
(* three arrays of all buckets are functions of a position <<index, slot>>.*)
(***************************************************************************)
EXTENDS Integers

CONSTANTS
    Keys,             \* the keys a client may insert or look up
    NoKey,            \* bytes of an uninitialised key no client ever uses
    Partials,         \* the fingerprints partial_key returns, never 0
    NoPartial,        \* bytes of an uninitialised fingerprint: matches none
    BucketCount,      \* size(), 2^hashpower in the code
    SlotPerBucket,    \* SLOT_PER_BUCKET, 4 by default
    GarbageKeys,      \* what keys_ may hold before it is first written
    GarbagePartials   \* what partials_ may hold before it is first written

ASSUME BucketCountAssumption == BucketCount \in Nat \ {0}
ASSUME SlotPerBucketAssumption == SlotPerBucket \in Nat \ {0}
ASSUME BytesAssumption ==
    /\ NoKey \notin Keys
    /\ NoPartial \notin Partials
    /\ GarbageKeys \subseteq Keys \union {NoKey}
    /\ GarbagePartials \subseteq Partials \union {NoPartial}

BucketIndex == 0 .. BucketCount - 1
SlotIndex   == 0 .. SlotPerBucket - 1
Slots       == BucketIndex \X SlotIndex

KeyBytes     == Keys \union {NoKey}
PartialBytes == Partials \union {NoPartial}

VARIABLES occupied, keys, partials

storage == <<occupied, keys, partials>>

StorageTypeOK ==
    /\ occupied \in [Slots -> BOOLEAN]
    /\ keys \in [Slots -> KeyBytes]
    /\ partials \in [Slots -> PartialBytes]

\* bucket() zeroes occupied_ and leaves the two other arrays alone.
StorageInit ==
    /\ occupied = [p \in Slots |-> FALSE]
    /\ keys \in [Slots -> GarbageKeys]
    /\ partials \in [Slots -> GarbagePartials]

\* Constructs key k with fingerprint fp at position p.
setK(p, fp, k) ==
    /\ occupied' = [occupied EXCEPT ![p] = TRUE]
    /\ keys' = [keys EXCEPT ![p] = k]
    /\ partials' = [partials EXCEPT ![p] = fp]

\* Faulty moves: eraseK is forgotten; the fingerprint is left behind; the key is.
move_NoErase(from, to) ==
    /\ occupied' = [occupied EXCEPT ![to] = TRUE]
    /\ keys' = [keys EXCEPT ![to] = keys[from]]
    /\ partials' = [partials EXCEPT ![to] = partials[from]]
move_NoPartial(from, to) ==
    /\ occupied' = [occupied EXCEPT ![to] = TRUE, ![from] = FALSE]
    /\ keys' = [keys EXCEPT ![to] = keys[from]]
    /\ UNCHANGED partials
move_NoKey(from, to) ==
    /\ occupied' = [occupied EXCEPT ![to] = TRUE, ![from] = FALSE]
    /\ partials' = [partials EXCEPT ![to] = partials[from]]
    /\ UNCHANGED keys

\* setK at `to` with what is stored at `from`, then eraseK at `from`: erasing
\* clears occupied_ and destroys the key, which for an integer key leaves its
\* bytes (and its fingerprint) where they were.
setK_eraseK(from, to) ==
    /\ occupied' = [occupied EXCEPT ![to] = TRUE, ![from] = FALSE]
    /\ keys' = [keys EXCEPT ![to] = keys[from]]
    /\ partials' = [partials EXCEPT ![to] = partials[from]]

\* eraseK at every occupied slot: what destroys the table, too.
clear ==
    /\ occupied' = [p \in Slots |-> FALSE]
    /\ UNCHANGED <<keys, partials>>

------------------------------------------------------------------------------

Full(b) == \A s \in SlotIndex : occupied[<<b, s>>]

\* The key is stored, and marked as stored, in bucket b.
HoldsKey(b, k) == \E s \in SlotIndex : occupied[<<b, s>>] /\ keys[<<b, s>>] = k

OccupiedSlots == {p \in Slots : occupied[p]}
StoredKeys    == {keys[p] : p \in OccupiedSlots}

==============================================================================
