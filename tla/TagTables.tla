------------------------------ MODULE TagTables -----------------------------
(***************************************************************************)
(* A filter's calls to its table, for either TableType the template        *)
(* CuckooFilter names.  The type is chosen once, in the initial state;     *)
(* both keep their tags in an array of bytes.                              *)
(***************************************************************************)
EXTENDS Words, PermEncoding

CONSTANTS
    NumBuckets,
    Tags,         \* the tags a filter inserts, never 0
    Calls,        \* the buckets and tags <<b, t>> it calls the table with
    SingleBits,   \* bits_per_tag of the SingleTable
    PackedBits   \* bits_per_tag of the PackedTable

Buckets == 0 .. NumBuckets - 1

ASSUME TagsAssumption ==
    /\ NumBuckets \in Nat \ {0}
    /\ SingleBits \in {2, 4, 8, 12, 16}
    /\ PackedBits \in {5, 6, 7, 8, 9, 13, 17}
    /\ Nibbles \in 1 .. 16
    /\ \A t \in Tags : t % 16 < Nibbles
    /\ Calls \subseteq Buckets \X Tags
    /\ Tags \subseteq 1 .. pow2[SingleBits] - 1
    /\ Tags \subseteq 1 .. pow2[PackedBits] - 1

VARIABLES TableType, mem, ok, oldtag

tableVars == <<TableType, mem, ok, oldtag>>

Single == INSTANCE SingleTable WITH bits_per_tag <- SingleBits
Packed == INSTANCE PackedTable WITH bits_per_tag <- PackedBits

TablesInit ==
    \/ TableType = "SingleTable" /\ Single!Init
    \/ TableType = "PackedTable" /\ Packed!Init

SingleCall == \E b \in Buckets, t \in Tags :
    /\ <<b, t>> \in Calls
    /\ TableType = "SingleTable"
    /\ \/ \E kickout \in BOOLEAN : Single!InsertTagToBucket(b, t, kickout)
       \/ Single!DeleteTagFromBucket(b, t)
       \/ \E j \in 0 .. 3 : Single!CopyTagToBucket(b, j, t)
    /\ UNCHANGED TableType

PackedCall == \E b \in Buckets, t \in Tags :
    /\ <<b, t>> \in Calls
    /\ TableType = "PackedTable"
    /\ \/ \E kickout \in BOOLEAN : Packed!InsertTagToBucket(b, t, kickout)
       \/ Packed!DeleteTagFromBucket(b, t)
    /\ UNCHANGED TableType

TablesNext == SingleCall \/ PackedCall

TablesSpec == TablesInit /\ [][TablesNext]_tableVars

------------------------------------------------------------------------------
(* Properties.                                                              *)

\* The four tags of a bucket as the table itself reads them.
TagsRead(b) ==
    IF TableType = "SingleTable"
    THEN [j \in 1 .. 4 |-> Single!ReadTag(b, j - 1)]
    ELSE Packed!ReadBucket(b)

\* How often each tag, and 0, is among four tags.
count == [tags \in [1 .. 4 -> Nat] |->
             [t \in Tags \union {0} |-> Cardinality({j \in 1 .. 4 : tags[j] = t})]]

Contents(b) == count[TagsRead(b)]

\* Types; nothing is written beyond the array; every tag read is one that was
\* written, in whole, or 0.
TablesTypeOK ==
    /\ TableType \in {"SingleTable", "PackedTable"}
    /\ mem \subseteq IF TableType = "SingleTable" THEN Single!Bits ELSE Packed!Bits
    /\ ok \in BOOLEAN
    /\ oldtag \in Tags \union {0}
    /\ \A b \in Buckets, j \in 1 .. 4 : TagsRead(b)[j] \in Tags \union {0}

\* The search that compares the tags of a bucket in one word, with borrows
\* between them, and the one with shifts of its own find the tags that are
\* there and no others.
FindsExactly ==
    \A b1, b2 \in Buckets, t \in Tags :
        LET there == Contents(b1)[t] > 0 \/ Contents(b2)[t] > 0
        IN IF TableType = "SingleTable"
           THEN Single!FindTagInBuckets(b1, b2, t, t) <=> there
           ELSE Packed!FindTagInBuckets(b1, b2, t) <=> there

\* Through all packing, sorting and encoding, a bucket is the bag of the tags
\* put into it and not taken out: a write harms no other tag of the bucket and
\* no other bucket, whose bits lie in the same word.
Table == INSTANCE TagTable WITH
    contents <- [b \in Buckets |-> Contents(b)]

ImplementsTagTable == Table!Spec

==============================================================================
