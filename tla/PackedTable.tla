---------------------------- MODULE PackedTable -----------------------------
(***************************************************************************)
(* PackedTable<bits_per_tag> (packedtable.h): the four tags of a bucket    *)
(* are kept in ascending order of their low four bits, which are stored    *)
(* as one codeword before the remaining, direct bits of each tag.          *)
(***************************************************************************)
EXTENDS BitMemory

CONSTANTS NumBuckets, bits_per_tag, enc_table, dec_table

encode(lowbits) == enc_table[lowbits]

decode(codeword) == dec_table[codeword]

VARIABLES mem, ok, oldtag

kDirBitsPerTag  == bits_per_tag - 4
kBitsPerBucket  == (3 + kDirBitsPerTag) * 4
kBytesPerBucket == (kBitsPerBucket + 7) \div 8

Bits == 0 .. 8 * (kBytesPerBucket * NumBuckets + 7) - 1

Init ==
    /\ mem = {}
    /\ ok = TRUE
    /\ oldtag = 0

------------------------------------------------------------------------------
(* Reading and writing a whole bucket.                                      *)

\* The word is loaded at a whole byte; buckets of 20 and 28 bits start four
\* bits into it if their index is odd.
ByteOf(i)   == (kBitsPerBucket * i) \div 8
BucketAt(i) == 8 * ByteOf(i) + (IF bits_per_tag \in {6, 8} THEN 4 * (i % 2) ELSE 0)

ReadTag(i, j) ==
        16 * Field(mem, kDirBitsPerTag)[BucketAt(i) + 12 + kDirBitsPerTag * (j - 1)]
           + decode(Field(mem, 12)[BucketAt(i)])[j]

ReadBucket(i) == [j \in 1 .. 4 |-> ReadTag(i, j)]

SortPair(tags, a, b) ==
    IF tags[a] % 16 > tags[b] % 16
    THEN [tags EXCEPT ![a] = tags[b], ![b] = tags[a]]
    ELSE tags

\* Faulty: the last of the five comparisons is left out.
SortTags_FourPairs(tags) ==
    LET halves == SortPair(SortPair(tags, 1, 3), 2, 4)
    IN SortPair(SortPair(halves, 1, 2), 3, 4)

SortTags(tags) ==
    LET halves == SortPair(SortPair(tags, 1, 3), 2, 4)
    IN SortPair(SortPair(SortPair(halves, 1, 2), 3, 4), 2, 3)

\* Memory m with the direct bits of the four tags s written behind position p.
DirectBits(m, p, s) ==
    LET Direct(m1, j) == Stored(m1, p + kDirBitsPerTag * (j - 1), kDirBitsPerTag, s[j] \div 16)
    IN Direct(Direct(Direct(Direct(m, 1), 2), 3), 4)

WriteBucket(i, tags) ==
    LET p        == BucketAt(i)
        s        == SortTags(tags)
        codeword == encode([j \in 1 .. 4 |-> s[j] % 16])
    IN mem' = DirectBits(Stored(mem, p, 12, codeword), p + 12, s)

------------------------------------------------------------------------------
(* The calls of a filter.                                                   *)

FindTagInBucket(i, t) == \E j \in 1 .. 4 : ReadBucket(i)[j] = t

\* Unlike ReadBucket, whose shifts depend on bits_per_tag, this one has the
\* shifts of tags of 13 bits, nine direct bits apart, whatever the width.
ShiftedTag(i, j) ==
    16 * Field(mem, kDirBitsPerTag)[8 * ByteOf(i) + 12 + 9 * (j - 1)]
       + decode(Field(mem, 12)[8 * ByteOf(i)])[j]

FindTagInBuckets(i1, i2, t) ==
    \E i \in {i1, i2}, j \in 1 .. 4 : ShiftedTag(i, j) = t

First(tags, t, j) == tags[j] = t /\ \A k \in 1 .. j - 1 : tags[k] # t
Holds(tags, t)    == \E j \in 1 .. 4 : tags[j] = t

Return(r, old) == ok' = r /\ oldtag' = old

InsertTagToBucket(i, t, kickout) ==
    LET tags == ReadBucket(i) IN
    \/ \E j \in 1 .. 4 :
          /\ First(tags, 0, j)
          /\ WriteBucket(i, [tags EXCEPT ![j] = t])
          /\ Return(TRUE, 0)
    \/ \E r \in 1 .. 4 :
          /\ ~Holds(tags, 0) /\ kickout
          /\ WriteBucket(i, [tags EXCEPT ![r] = t])
          /\ Return(FALSE, tags[r])
    \/ /\ ~Holds(tags, 0) /\ ~kickout
       /\ Return(FALSE, 0)
       /\ UNCHANGED mem

DeleteTagFromBucket(i, t) ==
    LET tags == ReadBucket(i) IN
    \/ \E j \in 1 .. 4 :
          /\ First(tags, t, j)
          /\ WriteBucket(i, [tags EXCEPT ![j] = 0])
          /\ Return(TRUE, 0)
    \/ /\ ~Holds(tags, t)
       /\ Return(FALSE, 0)
       /\ UNCHANGED mem

==============================================================================
