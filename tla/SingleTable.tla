---------------------------- MODULE SingleTable -----------------------------
(***************************************************************************)
(* SingleTable<bits_per_tag> (singletable.h, bitsutil.h): four tags to a   *)
(* bucket, packed into the bytes of an array; an empty slot holds tag 0.   *)
(***************************************************************************)
EXTENDS BitMemory

CONSTANTS NumBuckets, bits_per_tag

VARIABLES mem, ok, oldtag

Slots == 0 .. 3

kBytesPerBucket == (bits_per_tag * 4 + 7) \div 8
kPaddingBuckets == (((kBytesPerBucket + 7) \div 8) * 8 - 1) \div kBytesPerBucket

Bits == 0 .. 8 * kBytesPerBucket * (NumBuckets + kPaddingBuckets) - 1

Init ==
    /\ mem = {}
    /\ ok = TRUE
    /\ oldtag = 0

------------------------------------------------------------------------------
(* Where tag j of bucket i is: the byte the code loads from, and the shift. *)

TagByte(j) ==
    CASE bits_per_tag = 2  -> 0
      [] bits_per_tag = 4  -> j \div 2
      [] bits_per_tag = 8  -> j
      [] bits_per_tag = 12 -> j + j \div 2
      [] bits_per_tag = 16 -> 2 * j

TagShift(j) ==
    CASE bits_per_tag = 2         -> 2 * j
      [] bits_per_tag \in {4, 12} -> 4 * (j % 2)
      [] OTHER                    -> 0

TagAt(i, j) == 8 * (kBytesPerBucket * i + TagByte(j)) + TagShift(j)

ReadTag(i, j) == Field(mem, bits_per_tag)[TagAt(i, j)]

\* Faulty: no tag is cleared before the new one is put in.
Written_NoClear(i, j, t) == Stored(mem, TagAt(i, j), bits_per_tag, Or(bits_per_tag, ReadTag(i, j), t))

\* WriteTag: a 2-bit tag is OR-ed into its byte, the others replace the old tag.
Written(i, j, t) ==
    Stored(mem, TagAt(i, j), bits_per_tag,
           IF bits_per_tag = 2 THEN Or(bits_per_tag, ReadTag(i, j), t) ELSE t)

WriteTag(i, j, t) == mem' = Written(i, j, t)

------------------------------------------------------------------------------
(* FindTagInBucket compares all tags of a bucket at once.                   *)

\* Faulty: the mask of high bits leaves out the last lane.
haszero_ThreeLanes(x) ==
    LET borrow[j \in Slots] ==
            IF j = 0 THEN 0 ELSE IF x[j - 1] < 1 + borrow[j - 1] THEN 1 ELSE 0
    IN \E j \in 0 .. 2 :
          /\ Bit((x[j] - 1 - borrow[j]) % pow2[bits_per_tag], bits_per_tag - 1) = 1
          /\ Bit(x[j], bits_per_tag - 1) = 0

\* (x - 0x..1..1) & ~x & 0x..8..8 is not 0, lane by lane: a lane borrows from
\* the next one if it was smaller than what was subtracted from it.
haszero(x) ==
    LET borrow[j \in Slots] ==
            IF j = 0 THEN 0 ELSE IF x[j - 1] < 1 + borrow[j - 1] THEN 1 ELSE 0
    IN \E j \in Slots :
          /\ Bit((x[j] - 1 - borrow[j]) % pow2[bits_per_tag], bits_per_tag - 1) = 1
          /\ Bit(x[j], bits_per_tag - 1) = 0

\* Lane j of the word loaded at the bucket is tag j.
hasvalue(i, t) == haszero([j \in Slots |-> Xor(bits_per_tag, ReadTag(i, j), t)])

FindTagInBucket(i, t) ==
    IF bits_per_tag \in {4, 8, 12, 16}
    THEN hasvalue(i, t)
    ELSE \E j \in Slots : ReadTag(i, j) = t

FindTagInBuckets(i1, i2, t1, t2) == FindTagInBucket(i1, t1) \/ FindTagInBucket(i2, t2)

------------------------------------------------------------------------------
(* The calls of the filter.                                                 *)

First(i, t, j) == ReadTag(i, j) = t /\ \A k \in 0 .. j - 1 : ReadTag(i, k) # t
Holds(i, t)    == \E j \in Slots : ReadTag(i, j) = t

Return(r, old) == ok' = r /\ oldtag' = old

InsertTagToBucket(i, t, kickout) ==
    \/ \E j \in Slots :
          /\ First(i, 0, j)
          /\ WriteTag(i, j, t)
          /\ Return(TRUE, 0)
    \/ \E r \in Slots :
          /\ ~Holds(i, 0) /\ kickout
          /\ WriteTag(i, r, t)
          /\ Return(FALSE, ReadTag(i, r))
    \/ /\ ~Holds(i, 0) /\ ~kickout
       /\ Return(FALSE, 0)
       /\ UNCHANGED mem

DeleteTagFromBucket(i, t) ==
    \/ \E j \in Slots :
          /\ First(i, t, j)
          /\ WriteTag(i, j, 0)
          /\ Return(TRUE, 0)
    \/ /\ ~Holds(i, t)
       /\ Return(FALSE, 0)
       /\ UNCHANGED mem

CopyTagToBucket(i, j, t) ==
    \/ /\ ReadTag(i, j) = 0
       /\ WriteTag(i, j, t)
       /\ Return(TRUE, 0)
    \/ /\ ReadTag(i, j) # 0
       /\ Return(FALSE, 0)
       /\ UNCHANGED mem

==============================================================================
