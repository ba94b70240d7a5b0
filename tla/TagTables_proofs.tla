--------------------------- MODULE TagTables_proofs ---------------------------
(***************************************************************************)
(* Proofs about TagTables: for every number of buckets, every set of tags  *)
(* and every width of the PackedTable, a bucket is the bag of the tags put *)
(* into it and not taken out.                                              *)
(***************************************************************************)
EXTENDS TagTables, BitMemory, NatFacts

------------------------------------------------------------------------------
(* Fields of memory.                                                        *)

LEMMA FieldBits ==
    ASSUME NEW m, NEW n \in Nat, NEW at \in Nat
    PROVE  /\ Field(m, n)[at] \in 0 .. pow2[n] - 1
           /\ \A k \in 0 .. n - 1 : Bit(Field(m, n)[at], k) = 1 <=> at + k \in m
<1> DEFINE S == {b - at : b \in m \cap (at .. at + n - 1)}
<1>1. S \in SUBSET Nat
  OBVIOUS
<1>2. \A k \in 0 .. n - 1 : k \in S <=> at + k \in m
  <2>1. ASSUME NEW k \in 0 .. n - 1, at + k \in m PROVE k \in S
    <3>1. at + k \in m \cap (at .. at + n - 1) /\ (at + k) - at = k
      BY <2>1
    <3> QED
      BY <3>1
  <2>2. ASSUME NEW k \in 0 .. n - 1, k \in S PROVE at + k \in m
    <3>1. PICK b \in m \cap (at .. at + n - 1) : k = b - at
      BY <2>2
    <3>2. at + k = b
      BY <3>1
    <3> QED
      BY <3>1, <3>2
  <2> QED
    BY <2>1, <2>2
<1>3. Field(m, n)[at] = Number(n, S)
  BY DEF Field
<1> HIDE DEF S
<1> QED
  BY <1>1, <1>2, <1>3, NumberBits

\* Fields with the same ones hold the same number.
LEMMA FieldSame ==
    ASSUME NEW m, NEW n \in Nat, NEW at \in Nat, NEW x \in 0 .. pow2[n] - 1,
           \A k \in 0 .. n - 1 : at + k \in m <=> Bit(x, k) = 1
    PROVE  Field(m, n)[at] = x
<1> DEFINE y == Field(m, n)[at]
<1>1. y \in 0 .. pow2[n] - 1 /\ \A k \in 0 .. n - 1 : Bit(y, k) = 1 <=> Bit(x, k) = 1
  BY FieldBits
<1> HIDE DEF y
<1>2. pow2[n] \in Nat /\ x \in Int /\ y \in Int
  BY <1>1, Pow2Facts
<1>3. ASSUME NEW k \in 0 .. n - 1 PROVE Bit(x, k) \in {0, 1} /\ Bit(y, k) \in {0, 1}
  <2>1. k \in Nat
    OBVIOUS
  <2> QED
    BY <1>2, <2>1, BitType
<1>4. \A k \in 0 .. n - 1 : Bit(y, k) = Bit(x, k)
  BY <1>1, <1>3
<1>5. y = x
  BY <1>1, <1>4, WordsEqual
<1> QED
  BY <1>5 DEF y

\* A number stored in a field that is wide enough is what the field holds.
LEMMA StoredField ==
    ASSUME NEW m, NEW n \in Nat, NEW at \in Nat, NEW v \in 0 .. pow2[n] - 1
    PROVE  Field(Stored(m, at, n, v), n)[at] = v
<1>1. ASSUME NEW k \in 0 .. n - 1
      PROVE  at + k \in Stored(m, at, n, v) <=> Bit(v, k) = 1
  <2>1. at + k \in at .. at + n - 1 /\ (at + k) - at = k
    OBVIOUS
  <2> QED
    BY <2>1 DEF Stored
<1> QED
  BY <1>1, FieldSame

\* A field that does not overlap it stays as it was.
LEMMA StoredOther ==
    ASSUME NEW m, NEW n \in Nat, NEW at \in Nat, NEW v,
           NEW n2 \in Nat, NEW at2 \in Nat, at + n <= at2 \/ at2 + n2 <= at
    PROVE  Field(Stored(m, at, n, v), n2)[at2] = Field(m, n2)[at2]
<1> DEFINE x == Field(m, n2)[at2]
<1>1. x \in 0 .. pow2[n2] - 1 /\ \A k \in 0 .. n2 - 1 : Bit(x, k) = 1 <=> at2 + k \in m
  BY FieldBits
<1>2. ASSUME NEW k \in 0 .. n2 - 1
      PROVE  at2 + k \in Stored(m, at, n, v) <=> at2 + k \in m
  <2>1. at2 + k \notin at .. at + n - 1
    OBVIOUS
  <2> QED
    BY <2>1 DEF Stored
<1> HIDE DEF x
<1>3. Field(Stored(m, at, n, v), n2)[at2] = x
  <2> DEFINE m2 == Stored(m, at, n, v)
  <2>1. \A k \in 0 .. n2 - 1 : at2 + k \in m2 <=> Bit(x, k) = 1
    BY <1>1, <1>2
  <2> HIDE DEF m2
  <2>2. Field(m2, n2)[at2] = x
    BY <1>1, <2>1, FieldSame
  <2> QED
    BY <2>2 DEF m2
<1> QED
  BY <1>3 DEF x

LEMMA StoredWithin ==
    ASSUME NEW m, NEW n \in Nat, NEW at \in Nat, NEW v, NEW L \in Nat,
           m \subseteq 0 .. L - 1, at + n <= L
    PROVE  Stored(m, at, n, v) \subseteq 0 .. L - 1
<1>1. at .. at + n - 1 \subseteq 0 .. L - 1
  OBVIOUS
<1> QED
  BY <1>1 DEF Stored

LEMMA FieldEmpty ==
    ASSUME NEW n \in Nat, NEW at \in Nat
    PROVE  Field({}, n)[at] = 0
<1>1. pow2[n] \in Nat \ {0} /\ 0 \in 0 .. pow2[n] - 1
  BY Pow2Facts
<1>2. \A k \in 0 .. n - 1 : Bit(0, k) # 1
  <2> SUFFICES ASSUME NEW k \in 0 .. n - 1 PROVE Bit(0, k) = 0
    OBVIOUS
  <2>1. pow2[0] = 1 /\ 0 \in 0 .. pow2[0] - 1 /\ 0 \in Nat
    BY Pow2Facts
  <2> QED
    BY <2>1, NoBitBeyond
<1> QED
  BY <1>1, <1>2, FieldSame

------------------------------------------------------------------------------
(* SingleTable reads and writes memory by these operators too.              *)

LEMMA SingleWords ==
    /\ Single!pow2 = pow2
    /\ Single!number = number
<1>1. Single!pow2 = pow2
  BY Zenon DEF Single!pow2, pow2
<1>2. Single!number = number
  BY <1>1, Zenon DEF Single!number, number
<1> QED
  BY <1>1, <1>2

LEMMA SingleMemory ==
    /\ \A m, n : Single!Field(m, n) = Field(m, n)
    /\ \A m, at, n, v : Single!Stored(m, at, n, v) = Stored(m, at, n, v)
    /\ \A w, x, y : Single!Xor(w, x, y) = Xor(w, x, y)
    /\ \A x, k : Single!Bit(x, k) = Bit(x, k)
<1>1. \A x, k : Single!Bit(x, k) = Bit(x, k)
  BY SingleWords DEF Single!Bit, Bit
<1>2. \A m, n : Single!Field(m, n) = Field(m, n)
  BY SingleWords DEF Single!Field, Field, Single!Number, Number
<1>3. \A m, at, n, v : Single!Stored(m, at, n, v) = Stored(m, at, n, v)
  BY <1>1 DEF Single!Stored, Stored
<1>4. \A w, x, y : Single!Xor(w, x, y) = Xor(w, x, y)
  BY <1>1, SingleWords DEF Single!Xor, Xor, Single!Number, Number
<1> QED
  BY <1>1, <1>2, <1>3, <1>4

\* Where tag j of bucket i is, for every width of the SingleTable.
SingleAt(i, j) == SingleBits * (4 * i + j)

SingleTag(m, i, j) == Field(m, SingleBits)[SingleAt(i, j)]

LEMMA SinglePosition ==
    ASSUME NEW i \in Nat, NEW j \in 0 .. 3
    PROVE  /\ Single!TagAt(i, j) = SingleAt(i, j)
           /\ SingleAt(i, j) \in Nat
           /\ SingleBits \in Nat
<1>1. j \in {0, 1, 2, 3}
  OBVIOUS
<1>2. /\ (j \div 2) \in {0, 1} /\ j = 2 * (j \div 2) + (j % 2)
  BY <1>1
<1>3. CASE SingleBits = 2
  BY <1>3, <1>2 DEF Single!TagAt, Single!TagByte, Single!TagShift, Single!kBytesPerBucket, SingleAt
<1>4. CASE SingleBits = 4
  BY <1>4, <1>2 DEF Single!TagAt, Single!TagByte, Single!TagShift, Single!kBytesPerBucket, SingleAt
<1>5. CASE SingleBits = 8
  BY <1>5, <1>2 DEF Single!TagAt, Single!TagByte, Single!TagShift, Single!kBytesPerBucket, SingleAt
<1>6. CASE SingleBits = 12
  BY <1>6, <1>2 DEF Single!TagAt, Single!TagByte, Single!TagShift, Single!kBytesPerBucket, SingleAt
<1>7. CASE SingleBits = 16
  BY <1>7, <1>2 DEF Single!TagAt, Single!TagByte, Single!TagShift, Single!kBytesPerBucket, SingleAt
<1> QED
  BY <1>3, <1>4, <1>5, <1>6, <1>7, TagsAssumption

\* Tags do not overlap, and end within the bytes of the array.
LEMMA SingleApart ==
    ASSUME NEW i \in Nat, NEW j \in 0 .. 3, NEW i2 \in Nat, NEW j2 \in 0 .. 3,
           i # i2 \/ j # j2
    PROVE  \/ SingleAt(i, j) + SingleBits <= SingleAt(i2, j2)
           \/ SingleAt(i2, j2) + SingleBits <= SingleAt(i, j)
<1>1. 4 * i + j + 1 <= 4 * i2 + j2 \/ 4 * i2 + j2 + 1 <= 4 * i + j
  OBVIOUS
<1> QED
  BY <1>1, TagsAssumption DEF SingleAt

LEMMA SingleEnd ==
    ASSUME NEW i \in Buckets, NEW j \in 0 .. 3
    PROVE  \E L \in Nat : Single!Bits = 0 .. L - 1 /\ SingleAt(i, j) + SingleBits <= L
<1> DEFINE B == Single!kBytesPerBucket
           P == Single!kPaddingBuckets
           L == 8 * B * (NumBuckets + P)
<1>1. B \in Nat /\ 8 * B >= 4 * SingleBits /\ P \in Nat
  BY TagsAssumption DEF Single!kBytesPerBucket, Single!kPaddingBuckets
<1>2. i \in Nat /\ i + 1 <= NumBuckets /\ NumBuckets \in Nat
  BY TagsAssumption DEF Buckets
<1>3. 8 * B * (i + 1) <= L /\ L \in Nat
  BY <1>1, <1>2, TimesMonotone
<1>4. SingleAt(i, j) + SingleBits <= 4 * SingleBits * (i + 1)
  BY <1>2, TagsAssumption DEF SingleAt
<1>5. 4 * SingleBits * (i + 1) <= 8 * B * (i + 1)
  BY <1>1, <1>2, TagsAssumption, TimesMonotone
<1>6. Single!Bits = 0 .. L - 1
  BY DEF Single!Bits
<1>7. SingleAt(i, j) + SingleBits <= L
  <2>1. SingleAt(i, j) + SingleBits \in Int /\ 4 * SingleBits * (i + 1) \in Int
    BY <1>2, TagsAssumption DEF SingleAt
  <2> HIDE DEF B, L
  <2>2. 8 * B * (i + 1) \in Int
    BY <1>1, <1>2
  <2> QED
    BY <1>3, <1>4, <1>5, <2>1, <2>2
<1> HIDE DEF L
<1> QED
  BY <1>3, <1>6, <1>7

LEMMA SingleRead ==
    ASSUME NEW m, NEW i \in Nat, NEW j \in 0 .. 3
    PROVE  /\ Single!ReadTag(i, j) = SingleTag(mem, i, j)
           /\ SingleTag(m, i, j) \in 0 .. pow2[SingleBits] - 1
<1>1. Single!ReadTag(i, j) = SingleTag(mem, i, j)
  BY SinglePosition, SingleMemory DEF Single!ReadTag, SingleTag
<1>2. SingleTag(m, i, j) \in 0 .. pow2[SingleBits] - 1
  BY SinglePosition, FieldBits DEF SingleTag
<1> QED
  BY <1>1, <1>2

\* Writing a tag of more than two bits replaces one tag and leaves all others.
LEMMA SingleWrite ==
    ASSUME SingleBits # 2, NEW i \in Buckets, NEW j \in 0 .. 3,
           NEW t \in 0 .. pow2[SingleBits] - 1, Single!WriteTag(i, j, t)
    PROVE  /\ \A i2 \in Nat, j2 \in 0 .. 3 :
                 SingleTag(mem', i2, j2) = IF i2 = i /\ j2 = j THEN t ELSE SingleTag(mem, i2, j2)
           /\ mem \subseteq Single!Bits => mem' \subseteq Single!Bits
<1>1. i \in Nat
  BY DEF Buckets
<1>2. SingleAt(i, j) \in Nat /\ SingleBits \in Nat
  BY <1>1, SinglePosition
<1>3. mem' = Stored(mem, SingleAt(i, j), SingleBits, t)
  BY <1>1, SinglePosition, SingleMemory DEF Single!WriteTag, Single!Written
<1>4. SingleTag(mem', i, j) = t
  BY <1>2, <1>3, StoredField DEF SingleTag
<1>5. ASSUME NEW i2 \in Nat, NEW j2 \in 0 .. 3, i2 # i \/ j2 # j
      PROVE  SingleTag(mem', i2, j2) = SingleTag(mem, i2, j2)
  <2>1. SingleAt(i2, j2) \in Nat
    BY SinglePosition
  <2>2. \/ SingleAt(i, j) + SingleBits <= SingleAt(i2, j2)
        \/ SingleAt(i2, j2) + SingleBits <= SingleAt(i, j)
    BY <1>1, <1>5, SingleApart
  <2> DEFINE p == SingleAt(i, j)
             q == SingleAt(i2, j2)
  <2> HIDE DEF p, q
  <2>3. Field(Stored(mem, p, SingleBits, t), SingleBits)[q] = Field(mem, SingleBits)[q]
    BY <1>2, <2>1, <2>2, StoredOther DEF p, q
  <2> QED
    BY <1>3, <2>3 DEF SingleTag, p, q
<1>6. ASSUME mem \subseteq Single!Bits PROVE mem' \subseteq Single!Bits
  <2>1. PICK L \in Nat : Single!Bits = 0 .. L - 1 /\ SingleAt(i, j) + SingleBits <= L
    BY SingleEnd
  <2> QED
    BY <1>2, <1>3, <1>6, <2>1, StoredWithin
<1> QED
  BY <1>4, <1>5, <1>6

\* One lane of the search: its high bit comes up if the lane is 0, and
\* otherwise only if it is 1 and the lane below it borrowed.
LEMMA LaneFires ==
    ASSUME NEW w \in {4, 8, 12, 16}, NEW y \in 0 .. pow2[w] - 1, NEW c \in {0, 1}
    PROVE  LET fires == Bit((y - 1 - c) % pow2[w], w - 1) = 1 /\ Bit(y, w - 1) = 0
           IN (fires => y = 0 \/ (y = 1 /\ c = 1)) /\ (y = 0 => fires)
<1> DEFINE P == pow2[w - 1]
           z == (y - 1 - c) % pow2[w]
<1>1. w - 1 \in Nat /\ w = (w - 1) + 1 /\ w - 1 > 1
  OBVIOUS
<1>2. pow2[w] = 2 * P /\ P \in Nat /\ P > 2
  BY <1>1, Pow2Facts
<1> HIDE DEF P
<1>3. ASSUME NEW x \in 0 .. 2 * P - 1 PROVE Bit(x, w - 1) = IF x < P THEN 0 ELSE 1
  <2>1. CASE x < P
    <3>1. x \div P = 0
      BY <1>2, <2>1, Small
    <3> QED
      BY <2>1, <3>1 DEF Bit, P
  <2>2. CASE ~(x < P)
    <3>1. x = P * 1 + (x - P) /\ x - P \in 0 .. P - 1 /\ P \in Nat \ {0} /\ 1 \in Int
      BY <1>2, <2>2
    <3>2. (P * 1 + (x - P)) \div P = 1
      BY <3>1, QuotientUnique
    <3> QED
      BY <2>2, <3>1, <3>2 DEF Bit, P
  <2> QED
    BY <2>1, <2>2
<1>4. y \in 0 .. 2 * P - 1
  BY <1>2
<1>5. CASE y = 0
  <2>1. z = 2 * P - 1 - c
    <3>1. y - 1 - c = (2 * P) * (-1) + (2 * P - 1 - c) /\ 2 * P - 1 - c \in 0 .. 2 * P - 1
          /\ -1 \in Int /\ 2 * P \in Nat \ {0}
      BY <1>2, <1>5
    <3> DEFINE a == 2 * P
               r == 2 * P - 1 - c
    <3> HIDE DEF a, r
    <3>2. (a * (-1) + r) % a = r
      BY <3>1, QuotientUnique DEF a, r
    <3> QED
      BY <1>2, <3>1, <3>2 DEF a, r
  <2>2. z \in 0 .. 2 * P - 1 /\ ~(z < P)
    BY <1>2, <2>1
  <2> HIDE DEF z
  <2> QED
    BY <1>2, <1>3, <1>4, <1>5, <2>2 DEF z
<1>6. CASE y # 0 /\ ~(y = 1 /\ c = 1)
  <2>1. z = y - 1 - c /\ z \in 0 .. 2 * P - 1
    <3>1. y - 1 - c \in 0 .. 2 * P - 1 /\ 2 * P \in Nat
      BY <1>2, <1>4, <1>6
    <3> DEFINE a == 2 * P
               r == y - 1 - c
    <3> HIDE DEF a, r
    <3>2. r % a = r
      BY <3>1, Small DEF a, r
    <3> QED
      BY <1>2, <3>1, <3>2 DEF a, r
  <2>2. y < P => z < P
    BY <1>2, <1>4, <2>1
  <2> HIDE DEF z
  <2> QED
    BY <1>3, <1>4, <1>6, <2>1, <2>2 DEF z
<1> QED
  BY <1>5, <1>6

\* With its borrows between lanes the search finds a 0 if and only if a lane is 0.
LEMMA HasZero ==
    ASSUME SingleBits \in {4, 8, 12, 16}, NEW x \in [0 .. 3 -> 0 .. pow2[SingleBits] - 1]
    PROVE  Single!haszero(x) <=> \E j \in 0 .. 3 : x[j] = 0
<1> DEFINE w == SingleBits
           b == CHOOSE f : f = [j \in Single!Slots |->
                    IF j = 0 THEN 0 ELSE IF x[j - 1] < 1 + f[j - 1] THEN 1 ELSE 0]
           b1 == IF x[0] < 1 + 0 THEN 1 ELSE 0
           b2 == IF x[1] < 1 + b1 THEN 1 ELSE 0
           b3 == IF x[2] < 1 + b2 THEN 1 ELSE 0
           g == [j \in Single!Slots |-> IF j = 0 THEN 0 ELSE IF j = 1 THEN b1 ELSE IF j = 2 THEN b2 ELSE b3]
<1>1. Single!Slots = 0 .. 3
  BY DEF Single!Slots
<1>2. g = [j \in Single!Slots |-> IF j = 0 THEN 0 ELSE IF x[j - 1] < 1 + g[j - 1] THEN 1 ELSE 0]
  <2>0. g[0] = 0 /\ g[1] = b1 /\ g[2] = b2 /\ g[3] = b3
    BY <1>1
  <2> HIDE DEF b1, b2, b3, g
  <2>2. \A j \in Single!Slots :
            g[j] = IF j = 0 THEN 0 ELSE IF x[j - 1] < 1 + g[j - 1] THEN 1 ELSE 0
    <3>1. \A j \in Single!Slots : j \in {0, 1, 2, 3}
      BY <1>1
    <3>2. g[1] = IF x[0] < 1 + g[0] THEN 1 ELSE 0
      BY <2>0 DEF b1
    <3>3. g[2] = IF x[1] < 1 + g[1] THEN 1 ELSE 0
      BY <2>0 DEF b2
    <3>4. g[3] = IF x[2] < 1 + g[2] THEN 1 ELSE 0
      BY <2>0 DEF b3
    <3> QED
      BY <2>0, <3>1, <3>2, <3>3, <3>4
  <2>3. g = [j \in Single!Slots |-> g[j]]
    BY DEF g
  <2> QED
    BY <2>2, <2>3, Zenon
<1>3. b = [j \in Single!Slots |-> IF j = 0 THEN 0 ELSE IF x[j - 1] < 1 + b[j - 1] THEN 1 ELSE 0]
  BY <1>2, Zenon
<1>4. Single!haszero(x) <=>
          \E j \in Single!Slots :
             /\ Single!Bit((x[j] - 1 - b[j]) % Single!pow2[w], w - 1) = 1
             /\ Single!Bit(x[j], w - 1) = 0
  BY DEF Single!haszero
<1> HIDE DEF b, b1, b2, b3, g, w
<1>5. b[0] = 0 /\ \A j \in {1, 2, 3} : b[j] = IF x[j - 1] < 1 + b[j - 1] THEN 1 ELSE 0
  BY <1>1, <1>3
<1>6. \A j \in 0 .. 3 : x[j] \in Nat
  BY Pow2Facts
<1>7. \A j \in {0, 1, 2, 3} : b[j] \in {0, 1}
  BY <1>5
<1>8. \A j \in {1, 2, 3} : b[j] = 1 => x[j - 1] = 0 \/ b[j - 1] = 1
  BY <1>5, <1>6, <1>7
<1>9. ASSUME NEW j \in {1, 2, 3}, b[j] = 1 PROVE \E i \in 0 .. 3 : x[i] = 0
  <2>1. b[0] = 0 /\ (b[1] = 1 => x[0] = 0 \/ b[0] = 1) /\ (b[2] = 1 => x[1] = 0 \/ b[1] = 1)
        /\ (b[3] = 1 => x[2] = 0 \/ b[2] = 1)
    BY <1>5, <1>8
  <2> QED
    BY <1>9, <2>1
<1> DEFINE fires(j) == Bit((x[j] - 1 - b[j]) % pow2[w], w - 1) = 1 /\ Bit(x[j], w - 1) = 0
<1>10. Single!haszero(x) <=> \E j \in 0 .. 3 : fires(j)
  BY <1>1, <1>4, SingleMemory, SingleWords
<1>11. ASSUME NEW j \in 0 .. 3
       PROVE  (fires(j) => x[j] = 0 \/ (x[j] = 1 /\ b[j] = 1)) /\ (x[j] = 0 => fires(j))
  <2>1. w \in {4, 8, 12, 16} /\ x[j] \in 0 .. pow2[w] - 1 /\ b[j] \in {0, 1}
    BY <1>7 DEF w
  <2> QED
    BY <2>1, LaneFires
<1> HIDE DEF fires
<1> QED
  BY <1>5, <1>9, <1>10, <1>11

LEMMA SingleFind ==
    ASSUME NEW i \in Nat, NEW t \in 0 .. pow2[SingleBits] - 1
    PROVE  Single!FindTagInBucket(i, t) <=> \E j \in 0 .. 3 : SingleTag(mem, i, j) = t
<1>1. CASE SingleBits = 2
  BY <1>1, SingleRead DEF Single!FindTagInBucket, Single!Slots
<1>2. CASE SingleBits \in {4, 8, 12, 16}
  <2> DEFINE x == [j \in 0 .. 3 |-> Xor(SingleBits, SingleTag(mem, i, j), t)]
  <2>1. \A j \in 0 .. 3 : x[j] \in 0 .. pow2[SingleBits] - 1
    BY <1>2, XorBits
  <2>2. x \in [0 .. 3 -> 0 .. pow2[SingleBits] - 1]
    BY <2>1
  <2>3. ASSUME NEW j \in 0 .. 3 PROVE x[j] = 0 <=> SingleTag(mem, i, j) = t
    <3>1. SingleTag(mem, i, j) \in 0 .. pow2[SingleBits] - 1 /\ SingleBits \in Nat
      BY <1>2, SingleRead
    <3> QED
      BY <3>1, XorZero
  <2>4. Single!FindTagInBucket(i, t) <=> Single!haszero(x)
    BY <1>2, SingleRead, SingleMemory
    DEF Single!FindTagInBucket, Single!hasvalue, Single!Slots
  <2> HIDE DEF x
  <2> QED
    BY <1>2, <2>2, <2>3, <2>4, HasZero
<1> QED
  BY <1>1, <1>2, TagsAssumption

------------------------------------------------------------------------------
(* Buckets as bags.                                                         *)

One(c) == IF c THEN 1 ELSE 0

\* How often t is among four tags.
Times(s, t) == One(s[1] = t) + One(s[2] = t) + One(s[3] = t) + One(s[4] = t)

LEMMA FourCount ==
    ASSUME NEW s, NEW t
    PROVE  Cardinality({j \in 1 .. 4 : s[j] = t}) = Times(s, t)
<1> DEFINE S(n) == {j \in 1 .. n : s[j] = t}
<1>1. ASSUME NEW n \in {0, 1, 2, 3}, IsFiniteSet(S(n)), Cardinality(S(n)) \in Nat
      PROVE  /\ IsFiniteSet(S(n + 1))
             /\ Cardinality(S(n + 1)) = Cardinality(S(n)) + One(s[n + 1] = t)
             /\ Cardinality(S(n + 1)) \in Nat
  <2>1. CASE s[n + 1] = t
    <3>1. S(n + 1) = S(n) \union {n + 1} /\ n + 1 \notin S(n)
      BY <2>1
    <3> HIDE DEF S
    <3> QED
      BY <1>1, <2>1, <3>1, FS_AddElement DEF One
  <2>2. CASE s[n + 1] # t
    <3>1. S(n + 1) = S(n)
      BY <2>2
    <3> HIDE DEF S
    <3> QED
      BY <1>1, <2>2, <3>1 DEF One
  <2> QED
    BY <2>1, <2>2
<1>2. S(0) = {}
  OBVIOUS
<1> HIDE DEF S
<1>3. IsFiniteSet(S(0)) /\ Cardinality(S(0)) = 0
  BY <1>2, FS_EmptySet
<1>4. IsFiniteSet(S(1)) /\ Cardinality(S(1)) = One(s[1] = t) /\ Cardinality(S(1)) \in Nat
  <2>1. 0 + 1 = 1
    OBVIOUS
  <2> QED
    BY <1>1, <1>3, <2>1 DEF One
<1>5. IsFiniteSet(S(2)) /\ Cardinality(S(2)) = Cardinality(S(1)) + One(s[2] = t) /\ Cardinality(S(2)) \in Nat
  <2>1. 1 + 1 = 2
    OBVIOUS
  <2> QED
    BY <1>1, <1>4, <2>1
<1>6. IsFiniteSet(S(3)) /\ Cardinality(S(3)) = Cardinality(S(2)) + One(s[3] = t) /\ Cardinality(S(3)) \in Nat
  <2>1. 2 + 1 = 3
    OBVIOUS
  <2> QED
    BY <1>1, <1>5, <2>1
<1>7. Cardinality(S(4)) = Cardinality(S(3)) + One(s[4] = t)
  <2>1. 3 + 1 = 4
    OBVIOUS
  <2> QED
    BY <1>1, <1>6, <2>1
<1>8. Cardinality(S(4)) = Times(s, t)
  BY <1>4, <1>5, <1>6, <1>7 DEF Times, One
<1> QED
  BY <1>8 DEF S

LEMMA CountTimes ==
    ASSUME NEW s \in [1 .. 4 -> Nat]
    PROVE  count[s] = [t \in Tags \union {0} |-> Times(s, t)]
<1>1. count[s] = [t \in Tags \union {0} |-> Cardinality({j \in 1 .. 4 : s[j] = t})]
  BY DEF count
<1> QED
  BY <1>1, FourCount

\* The tags of all buckets are tags that were written, or 0.
TagsOK == \A b \in Buckets : TagsRead(b) \in [1 .. 4 -> Tags \union {0}]

LEMMA TagsNat == Tags \subseteq Nat \ {0}
<1>1. pow2[PackedBits] \in Int
  BY Pow2Facts, TagsAssumption
<1> QED
  BY <1>1, TagsAssumption

\* s2 is s, in any order, with one u in place of one t.
Exchanged(s, s2, t, u) ==
    \A x : Times(s2, x) = Times(s, x) - One(x = t) + One(x = u)

LEMMA PutExchanges ==
    ASSUME NEW s \in [1 .. 4 -> Nat], NEW j \in 1 .. 4, NEW u
    PROVE  /\ Exchanged(s, [s EXCEPT ![j] = u], s[j], u)
           /\ Times(s, s[j]) > 0
<1>1. j \in {1, 2, 3, 4}
  OBVIOUS
<1>2. Exchanged(s, [s EXCEPT ![j] = u], s[j], u)
  BY <1>1 DEF Exchanged, Times, One
<1> QED
  BY <1>1, <1>2 DEF Times, One

LEMMA FourNat ==
    ASSUME NEW s \in [1 .. 4 -> Tags \union {0}]
    PROVE  s \in [1 .. 4 -> Nat] /\ \A j \in 1 .. 4 : s[j] \in Tags \union {0}
<1>1. \A x \in Tags \union {0} : x \in Nat
  BY TagsNat
<1> QED
  BY <1>1

\* What one exchange in one bucket is in the abstract table.
LEMMA ReplaceStep ==
    ASSUME TagsOK, TagsOK', NEW b \in Buckets,
           NEW t \in Tags \union {0}, NEW u \in Tags \union {0},
           \A c \in Buckets : c # b => TagsRead(c)' = TagsRead(c),
           Exchanged(TagsRead(b), TagsRead(b)', t, u),
           Times(TagsRead(b), t) > 0
    PROVE  Table!Replace(b, t, u)
<1> DEFINE X == Tags \union {0}
           s(c) == TagsRead(c)
           s2(c) == TagsRead(c)'
           bags == [c \in Buckets |-> Contents(c)]
           bags2 == [c \in Buckets |-> Contents(c)']
<1>1. \A c \in Buckets : s(c) \in [1 .. 4 -> Nat] /\ s2(c) \in [1 .. 4 -> Nat]
  <2>1. \A c \in Buckets : s(c) \in [1 .. 4 -> X] /\ s2(c) \in [1 .. 4 -> X]
    BY DEF TagsOK
  <2>2. X \subseteq Nat
    BY TagsNat
  <2> HIDE DEF s, s2, X
  <2> QED
    BY <2>1, <2>2
<1>2. \A c \in Buckets : bags[c] = [x \in X |-> Times(s(c), x)] /\ bags2[c] = [x \in X |-> Times(s2(c), x)]
  BY <1>1, CountTimes DEF Contents
<1>3. \A c \in Buckets : c # b => bags2[c] = bags[c]
  BY <1>2
<1>4. \A x \in X : Times(s2(b), x) = Times(s(b), x) - One(x = t) + One(x = u)
  BY DEF Exchanged
<1>5. \A x \in X : Times(s(b), x) \in Nat
  BY DEF Times, One
<1> DEFINE less == [bags[b] EXCEPT ![t] = @ - 1]
<1>6. bags2[b] = [less EXCEPT ![u] = @ + 1]
  <2> DEFINE f == bags[b]
             g == [less EXCEPT ![u] = @ + 1]
  <2>1. f = [x \in X |-> Times(s(b), x)]
    BY <1>2
  <2>2. \A x \in X : f[x] = Times(s(b), x)
    BY <2>1
  <2>3. DOMAIN f = X
    BY <2>1
  <2>7. less = [f EXCEPT ![t] = f[t] - 1] /\ f = [x \in X |-> f[x]]
    BY <2>1
  <2> HIDE DEF f, s, s2, less
  <2>8. DOMAIN less = X /\ \A x \in X : less[x] = f[x] - One(x = t)
    <3>1. \A x \in X : f[x] \in Nat
      BY <1>5, <2>2
    <3>2. DOMAIN less = X
      BY <2>3, <2>7
    <3>3. \A x \in X : less[x] = IF x = t THEN f[x] - 1 ELSE f[x]
      BY <2>3, <2>7
    <3> QED
      BY <3>1, <3>2, <3>3 DEF One
  <2>4. \A x \in X : g[x] = f[x] - One(x = t) + One(x = u)
    BY <1>5, <2>2, <2>8 DEF One
  <2>5. g = [x \in X |-> g[x]]
    BY <2>8
  <2> HIDE DEF g
  <2>6. g = [x \in X |-> Times(s2(b), x)]
    BY <1>4, <2>2, <2>4, <2>5
  <2> QED
    BY <1>2, <2>6 DEF f, g
<1>7. bags[b][t] > 0
  BY <1>2
<1> HIDE DEF s, s2
<1>8. bags2 = [bags EXCEPT ![b] = [less EXCEPT ![u] = @ + 1]]
  <2> DEFINE new == [less EXCEPT ![u] = @ + 1]
  <2> HIDE DEF new, less
  <2> QED
    BY <1>3, <1>6 DEF new
<1> QED
  BY <1>7, <1>8 DEF Table!Replace

\* Slot j of bucket b is given tag u, whatever the order afterwards.
LEMMA PutStep ==
    ASSUME TagsOK, TagsOK', NEW b \in Buckets, NEW j \in 1 .. 4, NEW u \in Tags \union {0},
           \A c \in Buckets : c # b => TagsRead(c)' = TagsRead(c),
           \A x : Times(TagsRead(b)', x) = Times([TagsRead(b) EXCEPT ![j] = u], x)
    PROVE  Table!Replace(b, TagsRead(b)[j], u)
<1> DEFINE s == TagsRead(b)
<1>1. s \in [1 .. 4 -> Nat] /\ s[j] \in Tags \union {0}
  <2>1. s \in [1 .. 4 -> Tags \union {0}]
    BY DEF TagsOK
  <2> HIDE DEF s
  <2> QED
    BY <2>1, FourNat
<1>2. Exchanged(s, [s EXCEPT ![j] = u], s[j], u) /\ Times(s, s[j]) > 0
  <2> HIDE DEF s
  <2> QED
    BY <1>1, PutExchanges
<1>3. Exchanged(s, TagsRead(b)', s[j], u)
  BY <1>2 DEF Exchanged
<1> QED
  BY <1>1, <1>2, <1>3, ReplaceStep

LEMMA FullStep ==
    ASSUME TagsOK, TagsOK', NEW b \in Buckets, NEW t \in Tags, NEW j \in 1 .. 4,
           \A i \in 1 .. 4 : TagsRead(b)[i] # 0,
           ~ok', oldtag' = TagsRead(b)[j], Table!Replace(b, TagsRead(b)[j], t)
    PROVE  Table!KickOut(b, t)
<1>1. TagsRead(b) \in [1 .. 4 -> Tags \union {0}]
  BY DEF TagsOK
<1>2. oldtag' \in Tags
  BY <1>1
<1>3. TagsRead(b) \in [1 .. 4 -> Nat]
  BY <1>1, TagsNat
<1>4. Contents(b)[0] = 0
  <2>1. Contents(b)[0] = Times(TagsRead(b), 0)
    BY <1>3, CountTimes DEF Contents
  <2>2. 1 \in 1 .. 4 /\ 2 \in 1 .. 4 /\ 3 \in 1 .. 4 /\ 4 \in 1 .. 4
    OBVIOUS
  <2> QED
    BY <2>1, <2>2 DEF Times, One
<1>5. Table!Replace(b, oldtag', t)
  BY Zenon
<1>6. [c \in Buckets |-> Contents(c)][b][0] = 0
  BY <1>4
<1> QED
  BY <1>2, <1>5, <1>6 DEF Table!KickOut

LEMMA RefuseStep ==
    ASSUME ~ok', oldtag' = 0, UNCHANGED <<TableType, mem>>
    PROVE  Table!Refuse
<1>1. \A b : TagsRead(b)' = TagsRead(b)
  BY DEF TagsRead, Single!ReadTag, Packed!ReadBucket, Packed!ReadTag
<1>2. UNCHANGED [b \in Buckets |-> Contents(b)]
  BY <1>1 DEF Contents
<1> QED
  BY <1>2 DEF Table!Refuse

------------------------------------------------------------------------------
(* The calls of a SingleTable.                                              *)

LEMMA SingleTags ==
    ASSUME NEW b \in Nat
    PROVE  /\ TableType = "SingleTable" => TagsRead(b) = [j \in 1 .. 4 |-> SingleTag(mem, b, j - 1)]
           /\ TableType' = "SingleTable" => TagsRead(b)' = [j \in 1 .. 4 |-> SingleTag(mem', b, j - 1)]
<1>1. \A j \in 1 .. 4 : j - 1 \in 0 .. 3
  OBVIOUS
<1>2. \A j \in 1 .. 4 : Single!ReadTag(b, j - 1) = SingleTag(mem, b, j - 1)
  BY <1>1, SinglePosition, SingleMemory DEF Single!ReadTag, SingleTag
<1>3. \A j \in 1 .. 4 : Single!ReadTag(b, j - 1)' = SingleTag(mem', b, j - 1)
  BY <1>1, SinglePosition, SingleMemory DEF Single!ReadTag, SingleTag
<1> QED
  BY <1>2, <1>3 DEF TagsRead

LEMMA SinglePut ==
    ASSUME SingleBits # 2, TableType = "SingleTable", UNCHANGED TableType, TagsOK,
           mem \subseteq Single!Bits, NEW i \in Buckets, NEW j \in 0 .. 3,
           NEW u \in Tags \union {0}, Single!WriteTag(i, j, u)
    PROVE  /\ TagsOK'
           /\ mem' \subseteq Single!Bits
           /\ SingleTag(mem, i, j) = TagsRead(i)[j + 1]
           /\ Table!Replace(i, TagsRead(i)[j + 1], u)
<1>1. \A b \in Buckets : b \in Nat
  BY DEF Buckets
<1>2. u \in 0 .. pow2[SingleBits] - 1
  <2>1. pow2[SingleBits] \in Nat \ {0}
    BY Pow2Facts, TagsAssumption
  <2> QED
    BY <2>1, TagsAssumption
<1>3. /\ \A i2 \in Nat, j2 \in 0 .. 3 :
            SingleTag(mem', i2, j2) = IF i2 = i /\ j2 = j THEN u ELSE SingleTag(mem, i2, j2)
      /\ mem' \subseteq Single!Bits
  BY <1>2, SingleWrite
<1>4. \A b \in Buckets : /\ TagsRead(b) = [k \in 1 .. 4 |-> SingleTag(mem, b, k - 1)]
                         /\ TagsRead(b)' = [k \in 1 .. 4 |-> SingleTag(mem', b, k - 1)]
  BY <1>1, SingleTags
<1>5. \A k \in 1 .. 4 : k - 1 \in 0 .. 3 /\ (k - 1 = j <=> k = j + 1)
  OBVIOUS
<1>6. \A b \in Buckets : b # i => TagsRead(b)' = TagsRead(b)
  BY <1>1, <1>3, <1>4, <1>5
<1>7. j + 1 \in 1 .. 4 /\ (j + 1) - 1 = j
  OBVIOUS
<1>8. TagsRead(i)' = [TagsRead(i) EXCEPT ![j + 1] = u]
  <2>1. \A k \in 1 .. 4 : SingleTag(mem', i, k - 1) = IF k = j + 1 THEN u ELSE SingleTag(mem, i, k - 1)
    BY <1>1, <1>3, <1>5
  <2> QED
    BY <1>4, <1>7, <2>1
<1>9. TagsOK'
  <2>1. \A b \in Buckets : TagsRead(b)' \in [1 .. 4 -> Tags \union {0}]
    BY <1>6, <1>8 DEF TagsOK
  <2> QED
    BY <2>1 DEF TagsOK
<1>10. SingleTag(mem, i, j) = TagsRead(i)[j + 1]
  BY <1>4, <1>7
<1>11. Table!Replace(i, TagsRead(i)[j + 1], u)
  BY <1>6, <1>7, <1>8, <1>9, PutStep
<1> QED
  BY <1>3, <1>9, <1>10, <1>11

\* What a call does to the types, and what it is in the abstract table.
CallOK ==
    /\ TagsOK'
    /\ ok' \in BOOLEAN
    /\ oldtag' \in Tags \union {0}
    /\ Table!Next

LEMMA TableSteps ==
    ASSUME NEW b \in Buckets, NEW t \in Tags
    PROVE  /\ ok' /\ oldtag' = 0 /\ Table!Replace(b, 0, t) => Table!Next
           /\ ok' /\ oldtag' = 0 /\ Table!Replace(b, t, 0) => Table!Next
           /\ Table!KickOut(b, t) => Table!Next
           /\ Table!Refuse => Table!Next
BY DEF Table!Next, Table!Insert, Table!Delete, Table!Buckets, Buckets

LEMMA SingleCallStep ==
    ASSUME SingleBits # 2, TagsOK, mem \subseteq Single!Bits, SingleCall
    PROVE  /\ TableType' = "SingleTable"
           /\ mem' \subseteq Single!Bits
           /\ CallOK
<1>1. PICK b \in Buckets, t \in Tags :
          /\ TableType = "SingleTable" /\ TableType' = TableType
          /\ \/ \E kickout \in BOOLEAN : Single!InsertTagToBucket(b, t, kickout)
             \/ Single!DeleteTagFromBucket(b, t)
             \/ \E j \in 0 .. 3 : Single!CopyTagToBucket(b, j, t)
  BY DEF SingleCall
<1>2. b \in Nat
  BY DEF Buckets
<1>3. \A j \in 0 .. 3 : Single!ReadTag(b, j) = SingleTag(mem, b, j)
  BY <1>2, SingleRead
<1>4. TagsRead(b) = [k \in 1 .. 4 |-> SingleTag(mem, b, k - 1)]
      /\ TagsRead(b) \in [1 .. 4 -> Tags \union {0}]
  BY <1>1, <1>2, SingleTags DEF TagsOK
<1>5. Single!Slots = 0 .. 3
  BY DEF Single!Slots
\* A write returns TRUE, and puts a tag in place of 0 or 0 in place of the tag.
<1>6. ASSUME NEW j \in 0 .. 3, NEW x \in {0, t}, NEW y \in {0, t}, x # y,
             Single!ReadTag(b, j) = x, Single!WriteTag(b, j, y), Single!Return(TRUE, 0)
      PROVE  mem' \subseteq Single!Bits /\ CallOK
  <2>1. /\ TagsOK' /\ mem' \subseteq Single!Bits
        /\ SingleTag(mem, b, j) = TagsRead(b)[j + 1]
        /\ Table!Replace(b, TagsRead(b)[j + 1], y)
    BY <1>1, <1>6, SinglePut
  <2>2. TagsRead(b)[j + 1] = x
    BY <1>3, <1>6, <2>1
  <2>3. Table!Replace(b, x, y)
    BY <2>1, <2>2, Zenon
  <2>4. ok' = TRUE /\ oldtag' = 0
    BY <1>6 DEF Single!Return
  <2>5. (x = 0 /\ y = t) \/ (x = t /\ y = 0)
    BY <1>6
  <2> QED
    BY <2>1, <2>3, <2>4, <2>5, TableSteps DEF CallOK
\* Nothing is written, and FALSE returned.
<1>7. ASSUME UNCHANGED mem, Single!Return(FALSE, 0)
      PROVE  mem' \subseteq Single!Bits /\ CallOK
  <2>1. ok' = FALSE /\ oldtag' = 0
    BY <1>7 DEF Single!Return
  <2>2. Table!Refuse
    BY <1>1, <1>7, <2>1, RefuseStep
  <2>3. \A c \in Buckets : TagsRead(c)' = TagsRead(c)
    BY <1>1, <1>7 DEF TagsRead, Single!ReadTag
  <2>4. TagsOK'
    BY <2>3 DEF TagsOK
  <2> QED
    BY <1>7, <2>1, <2>2, <2>4, TableSteps DEF CallOK
\* A tag is kicked out of a full bucket.
<1>8. ASSUME NEW r \in 0 .. 3, ~Single!Holds(b, 0), Single!WriteTag(b, r, t),
             Single!Return(FALSE, Single!ReadTag(b, r))
      PROVE  mem' \subseteq Single!Bits /\ CallOK
  <2>1. /\ TagsOK' /\ mem' \subseteq Single!Bits
        /\ SingleTag(mem, b, r) = TagsRead(b)[r + 1]
        /\ Table!Replace(b, TagsRead(b)[r + 1], t)
    BY <1>1, <1>8, SinglePut
  <2>2. ok' = FALSE /\ oldtag' = TagsRead(b)[r + 1] /\ r + 1 \in 1 .. 4
    BY <1>3, <1>8, <2>1 DEF Single!Return
  <2>3. \A k \in 1 .. 4 : TagsRead(b)[k] # 0
    <3>1. \A k \in 1 .. 4 : k - 1 \in 0 .. 3
      OBVIOUS
    <3> QED
      BY <1>3, <1>4, <1>5, <1>8, <3>1 DEF Single!Holds
  <2>4. Table!KickOut(b, t)
    BY <2>1, <2>2, <2>3, FullStep
  <2>5. oldtag' \in Tags \union {0}
    BY <1>4, <2>2
  <2> QED
    BY <2>1, <2>2, <2>4, <2>5, TableSteps DEF CallOK
<1>9. t # 0
  BY TagsNat
<1>10. ASSUME NEW kickout \in BOOLEAN, Single!InsertTagToBucket(b, t, kickout)
       PROVE  mem' \subseteq Single!Bits /\ CallOK
  BY <1>5, <1>6, <1>7, <1>8, <1>9, <1>10 DEF Single!InsertTagToBucket, Single!First
<1>11. ASSUME Single!DeleteTagFromBucket(b, t)
       PROVE  mem' \subseteq Single!Bits /\ CallOK
  BY <1>5, <1>6, <1>7, <1>9, <1>11 DEF Single!DeleteTagFromBucket, Single!First
<1>12. ASSUME NEW j \in 0 .. 3, Single!CopyTagToBucket(b, j, t)
       PROVE  mem' \subseteq Single!Bits /\ CallOK
  BY <1>6, <1>7, <1>9, <1>12 DEF Single!CopyTagToBucket
<1> QED
  BY <1>1, <1>10, <1>11, <1>12

------------------------------------------------------------------------------
(* The permutation encoding.                                                *)

LEMMA SumsExist ==
    ASSUME NEW g \in [Nat -> Nat]
    PROVE  \E f \in [Nat -> Nat] : f[0] = 0 /\ \A n \in Nat : f[n + 1] = f[n] + g[n + 1]
<1> DEFINE step == [p \in Nat \X Nat |-> p[1] + g[p[2] + 1]]
<1>1. \A x, n \in Nat : step[<<x, n>>] = x + g[n + 1] /\ x + g[n + 1] \in Nat
  OBVIOUS
<1>2. IsStep(step, Nat)
  <2>1. \A p \in Nat \X Nat : p[1] + g[p[2] + 1] \in Nat
    OBVIOUS
  <2> QED
    BY <2>1 DEF IsStep
<1> HIDE DEF step
<1>3. PICK f \in [Nat -> Nat] : IsRecursion(f, 0, step)
  BY <1>2, RecursionExists
<1>4. f[0] = 0
  BY <1>3 DEF IsRecursion
<1>5. ASSUME NEW n \in Nat PROVE f[n + 1] = f[n] + g[n + 1]
  <2>1. n + 1 \in Nat /\ n + 1 # 0 /\ (n + 1) - 1 = n /\ f[n] \in Nat
    OBVIOUS
  <2>2. f[n + 1] = step[<<f[(n + 1) - 1], (n + 1) - 1>>]
    BY <1>3, <2>1 DEF IsRecursion
  <2> QED
    BY <1>1, <2>1, <2>2
<1> QED
  BY <1>4, <1>5

LEMMA SumsGrow ==
    ASSUME NEW f \in [Nat -> Nat], \A n \in Nat : f[n] <= f[n + 1],
           NEW m \in Nat, NEW n \in Nat, m <= n
    PROVE  f[m] <= f[n]
<1> DEFINE S == {d \in Nat : f[m] <= f[m + d]}
<1>1. 0 \in S
  OBVIOUS
<1>2. ASSUME NEW d \in Nat, d \in S PROVE d + 1 \in S
  <2>1. m + d \in Nat /\ m + (d + 1) = (m + d) + 1 /\ m + (d + 1) \in Nat
    OBVIOUS
  <2>2. f[m + d] <= f[m + (d + 1)] /\ f[m] <= f[m + d]
    BY <1>2, <2>1
  <2>3. f[m] \in Nat /\ f[m + d] \in Nat /\ f[m + (d + 1)] \in Nat
    BY <2>1
  <2> QED
    BY <2>2, <2>3
<1> HIDE DEF S
<1>3. \A d \in Nat : d \in S
  BY <1>1, <1>2, NatInductionInSet
<1>4. n - m \in Nat /\ m + (n - m) = n
  OBVIOUS
<1> QED
  BY <1>3, <1>4 DEF S

\* The triangular numbers, their sums, and the sums of these.
Sums(f2, f3, f4) ==
    /\ f2 \in [Nat -> Nat] /\ f3 \in [Nat -> Nat] /\ f4 \in [Nat -> Nat]
    /\ f2[0] = 0 /\ f3[0] = 0 /\ f4[0] = 0
    /\ \A n \in Nat : f2[n + 1] = f2[n] + (n + 1)
    /\ \A n \in Nat : f3[n + 1] = f3[n] + f2[n + 1]
    /\ \A n \in Nat : f4[n + 1] = f4[n] + f3[n + 1]

LEMMA SumsFound == \E f2, f3, f4 : Sums(f2, f3, f4)
<1>1. PICK f2 \in [Nat -> Nat] : f2[0] = 0 /\ \A n \in Nat : f2[n + 1] = f2[n] + (n + 1)
  <2> DEFINE g == [n \in Nat |-> n]
  <2>1. g \in [Nat -> Nat] /\ \A n \in Nat : g[n + 1] = n + 1
    OBVIOUS
  <2> HIDE DEF g
  <2> QED
    BY <2>1, SumsExist
<1>2. PICK f3 \in [Nat -> Nat] : f3[0] = 0 /\ \A n \in Nat : f3[n + 1] = f3[n] + f2[n + 1]
  BY SumsExist
<1>3. PICK f4 \in [Nat -> Nat] : f4[0] = 0 /\ \A n \in Nat : f4[n + 1] = f4[n] + f3[n + 1]
  BY SumsExist
<1>4. Sums(f2, f3, f4)
  BY <1>1, <1>2, <1>3 DEF Sums
<1> QED
  BY <1>4

LEMMA SumsAt16 ==
    ASSUME NEW f2, NEW f3, NEW f4, Sums(f2, f3, f4)
    PROVE  f4[16] = 3876
<1>1. f2[0] = 0 /\ \A n \in Nat : f2[n + 1] = f2[n] + (n + 1)
  BY DEF Sums
<1>2. f3[0] = 0 /\ \A n \in Nat : f3[n + 1] = f3[n] + f2[n + 1]
  BY DEF Sums
<1>3. f4[0] = 0 /\ \A n \in Nat : f4[n + 1] = f4[n] + f3[n + 1]
  BY DEF Sums
<1>11. /\ f2[1] = 1 /\ f2[2] = 3 /\ f2[3] = 6 /\ f2[4] = 10 /\ f2[5] = 15 /\ f2[6] = 21
      /\ f2[7] = 28 /\ f2[8] = 36 /\ f2[9] = 45 /\ f2[10] = 55 /\ f2[11] = 66 /\ f2[12] = 78
      /\ f2[13] = 91 /\ f2[14] = 105 /\ f2[15] = 120 /\ f2[16] = 136
  <2>1. /\ f2[0 + 1] = f2[0] + 1 /\ f2[1 + 1] = f2[1] + 2 /\ f2[2 + 1] = f2[2] + 3
        /\ f2[3 + 1] = f2[3] + 4 /\ f2[4 + 1] = f2[4] + 5 /\ f2[5 + 1] = f2[5] + 6
        /\ f2[6 + 1] = f2[6] + 7 /\ f2[7 + 1] = f2[7] + 8 /\ f2[8 + 1] = f2[8] + 9
        /\ f2[9 + 1] = f2[9] + 10 /\ f2[10 + 1] = f2[10] + 11 /\ f2[11 + 1] = f2[11] + 12
        /\ f2[12 + 1] = f2[12] + 13 /\ f2[13 + 1] = f2[13] + 14 /\ f2[14 + 1] = f2[14] + 15
        /\ f2[15 + 1] = f2[15] + 16
    BY <1>1
  <2> QED
    BY <1>1, <2>1
<1>12. /\ f3[1] = 1 /\ f3[2] = 4 /\ f3[3] = 10 /\ f3[4] = 20 /\ f3[5] = 35 /\ f3[6] = 56
      /\ f3[7] = 84 /\ f3[8] = 120 /\ f3[9] = 165 /\ f3[10] = 220 /\ f3[11] = 286
      /\ f3[12] = 364 /\ f3[13] = 455 /\ f3[14] = 560 /\ f3[15] = 680 /\ f3[16] = 816
  <2>1. /\ f3[0 + 1] = f3[0] + f2[0 + 1] /\ f3[1 + 1] = f3[1] + f2[1 + 1]
        /\ f3[2 + 1] = f3[2] + f2[2 + 1] /\ f3[3 + 1] = f3[3] + f2[3 + 1]
        /\ f3[4 + 1] = f3[4] + f2[4 + 1] /\ f3[5 + 1] = f3[5] + f2[5 + 1]
        /\ f3[6 + 1] = f3[6] + f2[6 + 1] /\ f3[7 + 1] = f3[7] + f2[7 + 1]
        /\ f3[8 + 1] = f3[8] + f2[8 + 1] /\ f3[9 + 1] = f3[9] + f2[9 + 1]
        /\ f3[10 + 1] = f3[10] + f2[10 + 1] /\ f3[11 + 1] = f3[11] + f2[11 + 1]
        /\ f3[12 + 1] = f3[12] + f2[12 + 1] /\ f3[13 + 1] = f3[13] + f2[13 + 1]
        /\ f3[14 + 1] = f3[14] + f2[14 + 1] /\ f3[15 + 1] = f3[15] + f2[15 + 1]
    BY <1>2
  <2> QED
    BY <1>2, <1>11, <2>1
<1>13. /\ f4[0 + 1] = f4[0] + f3[0 + 1] /\ f4[1 + 1] = f4[1] + f3[1 + 1]
      /\ f4[2 + 1] = f4[2] + f3[2 + 1] /\ f4[3 + 1] = f4[3] + f3[3 + 1]
      /\ f4[4 + 1] = f4[4] + f3[4 + 1] /\ f4[5 + 1] = f4[5] + f3[5 + 1]
      /\ f4[6 + 1] = f4[6] + f3[6 + 1] /\ f4[7 + 1] = f4[7] + f3[7 + 1]
      /\ f4[8 + 1] = f4[8] + f3[8 + 1] /\ f4[9 + 1] = f4[9] + f3[9 + 1]
      /\ f4[10 + 1] = f4[10] + f3[10 + 1] /\ f4[11 + 1] = f4[11] + f3[11 + 1]
      /\ f4[12 + 1] = f4[12] + f3[12 + 1] /\ f4[13 + 1] = f4[13] + f3[13 + 1]
      /\ f4[14 + 1] = f4[14] + f3[14 + 1] /\ f4[15 + 1] = f4[15] + f3[15 + 1]
  BY <1>3
<1> QED
  BY <1>3, <1>12, <1>13

LEMMA SumsMonotone ==
    ASSUME NEW f2, NEW f3, NEW f4, Sums(f2, f3, f4)
    PROVE  \A m, n \in Nat : m <= n => f2[m] <= f2[n] /\ f3[m] <= f3[n] /\ f4[m] <= f4[n]
<1>1. f2 \in [Nat -> Nat] /\ f3 \in [Nat -> Nat] /\ f4 \in [Nat -> Nat]
  BY DEF Sums
<1>2. ASSUME NEW n \in Nat PROVE f2[n] <= f2[n + 1] /\ f3[n] <= f3[n + 1] /\ f4[n] <= f4[n + 1]
  <2>1. n + 1 \in Nat
    OBVIOUS
  <2>2. f2[n] \in Nat /\ f3[n] \in Nat /\ f2[n + 1] \in Nat /\ f3[n + 1] \in Nat /\ f4[n] \in Nat
    BY <1>1, <2>1
  <2>3. /\ f2[n + 1] = f2[n] + (n + 1)
        /\ f3[n + 1] = f3[n] + f2[n + 1]
        /\ f4[n + 1] = f4[n] + f3[n + 1]
    BY DEF Sums
  <2> QED
    BY <2>2, <2>3
<1> QED
  BY <1>1, <1>2, SumsGrow

LEMMA SumsBelow ==
    ASSUME NEW f2, NEW f3, NEW f4, Sums(f2, f3, f4),
           NEW a \in Nat, NEW b \in Nat, NEW c \in Nat, NEW d \in Nat, a <= b, b <= c, c <= d
    PROVE  /\ a + f2[b] < f2[b + 1]
           /\ (a + f2[b]) + f3[c] < f3[c + 1]
           /\ ((a + f2[b]) + f3[c]) + f4[d] < f4[d + 1]
<1>1. b + 1 \in Nat /\ c + 1 \in Nat /\ d + 1 \in Nat /\ b + 1 <= c + 1 /\ c + 1 <= d + 1
  OBVIOUS
<1>2. /\ f2[b] \in Nat /\ f3[c] \in Nat /\ f4[d] \in Nat /\ f2[b + 1] \in Nat
      /\ f2[c + 1] \in Nat /\ f3[c + 1] \in Nat /\ f3[d + 1] \in Nat
  BY <1>1 DEF Sums
<1>3. /\ f2[b + 1] = f2[b] + (b + 1)
      /\ f3[c + 1] = f3[c] + f2[c + 1]
      /\ f4[d + 1] = f4[d] + f3[d + 1]
  BY DEF Sums
<1>4. f2[b + 1] <= f2[c + 1] /\ f3[c + 1] <= f3[d + 1]
  BY <1>1, SumsMonotone
<1> QED
  BY <1>2, <1>3, <1>4

\* A higher last number, or the same and a higher one before it, has a higher sum.
LEMMA SumsApart ==
    ASSUME NEW f2, NEW f3, NEW f4, Sums(f2, f3, f4),
           NEW a \in Nat, NEW b \in Nat, NEW c \in Nat, NEW d \in Nat, a <= b, b <= c, c <= d,
           NEW x \in Nat, NEW y \in Nat, NEW z \in Nat, NEW w \in Nat, x <= y, y <= z, z <= w
    PROVE  /\ ((a + f2[b]) + f3[c]) + f4[d] = ((x + f2[y]) + f3[z]) + f4[w] => ~(d < w)
           /\ (a + f2[b]) + f3[c] = (x + f2[y]) + f3[z] => ~(c < z)
           /\ a + f2[b] = x + f2[y] => ~(b < y)
<1>1. b + 1 \in Nat /\ c + 1 \in Nat /\ d + 1 \in Nat
  OBVIOUS
<1>2. /\ f2[b] \in Nat /\ f3[c] \in Nat /\ f4[d] \in Nat
      /\ f2[y] \in Nat /\ f3[z] \in Nat /\ f4[w] \in Nat
      /\ f2[b + 1] \in Nat /\ f3[c + 1] \in Nat /\ f4[d + 1] \in Nat
  BY <1>1 DEF Sums
<1>3. /\ b < y => f2[b + 1] <= f2[y]
      /\ c < z => f3[c + 1] <= f3[z]
      /\ d < w => f4[d + 1] <= f4[w]
  <2>1. /\ b < y => b + 1 <= y
        /\ c < z => c + 1 <= z
        /\ d < w => d + 1 <= w
    OBVIOUS
  <2> QED
    BY <1>1, <2>1, SumsMonotone
<1>4. /\ a + f2[b] < f2[b + 1]
      /\ (a + f2[b]) + f3[c] < f3[c + 1]
      /\ ((a + f2[b]) + f3[c]) + f4[d] < f4[d + 1]
  BY SumsBelow
<1> QED
  BY <1>2, <1>3, <1>4

LEMMA AscendingNibbles ==
    ASSUME NEW q \in Ascending
    PROVE  /\ q \in [1 .. 4 -> 0 .. Nibbles - 1]
           /\ q[1] \in Nat /\ q[2] \in Nat /\ q[3] \in Nat /\ q[4] \in Nat
           /\ q[1] <= q[2] /\ q[2] <= q[3] /\ q[3] <= q[4] /\ q[4] <= 15
<1>1. Nibbles \in 1 .. 16
  BY TagsAssumption
<1>2. q \in [1 .. 4 -> 0 .. Nibbles - 1] /\ q[1] <= q[2] /\ q[2] <= q[3] /\ q[3] <= q[4]
  BY DEF Ascending
<1>3. 1 \in 1 .. 4 /\ 2 \in 1 .. 4 /\ 3 \in 1 .. 4 /\ 4 \in 1 .. 4
  OBVIOUS
<1>4. \A j \in 1 .. 4 : q[j] \in 0 .. Nibbles - 1
  BY <1>2
<1>5. q[1] \in 0 .. Nibbles - 1 /\ q[2] \in 0 .. Nibbles - 1 /\ q[3] \in 0 .. Nibbles - 1 /\ q[4] \in 0 .. Nibbles - 1
  BY <1>3, <1>4
<1> QED
  BY <1>1, <1>2, <1>5

LEMMA FourEqual ==
    ASSUME NEW X, NEW q \in [1 .. 4 -> X], NEW r \in [1 .. 4 -> X],
           q[1] = r[1], q[2] = r[2], q[3] = r[3], q[4] = r[4]
    PROVE  q = r
<1>1. \A j \in 1 .. 4 : j \in {1, 2, 3, 4}
  OBVIOUS
<1>2. \A j \in 1 .. 4 : q[j] = r[j]
  BY <1>1
<1> QED
  BY <1>2

\* The ascending quadruples <<a, b, c, d>> are told apart by the numbers
\* a + f2[b] + f3[c] + f4[d]: codewords of 12 bits are enough for them.
LEMMA AscendingFinite ==
    IsFiniteSet(Ascending) /\ Cardinality(Ascending) <= 3876
<1>1. PICK f2, f3, f4 : Sums(f2, f3, f4)
  BY SumsFound
<1> DEFINE rank(q) == ((q[1] + f2[q[2]]) + f3[q[3]]) + f4[q[4]]
           F == [q \in Ascending |-> rank(q)]
<1>2. ASSUME NEW q \in Ascending PROVE rank(q) \in 0 .. 3875
  <2> DEFINE a == q[1]  b == q[2]  c == q[3]  d == q[4]
  <2>1. a \in Nat /\ b \in Nat /\ c \in Nat /\ d \in Nat /\ a <= b /\ b <= c /\ c <= d /\ d <= 15
    BY AscendingNibbles
  <2> HIDE DEF a, b, c, d
  <2>2. ((a + f2[b]) + f3[c]) + f4[d] < f4[d + 1]
    BY <1>1, <2>1, SumsBelow
  <2>3. d + 1 \in Nat /\ 16 \in Nat /\ d + 1 <= 16
    BY <2>1
  <2>4. f4[d + 1] <= f4[16]
    BY <1>1, <2>3, SumsMonotone
  <2>5. f4[16] = 3876
    BY <1>1, SumsAt16
  <2>6. f2[b] \in Nat /\ f3[c] \in Nat /\ f4[d] \in Nat /\ f4[d + 1] \in Nat
    BY <1>1, <2>1, <2>3 DEF Sums
  <2> DEFINE s == ((a + f2[b]) + f3[c]) + f4[d]
  <2>7. s \in Nat
    BY <2>1, <2>6
  <2>8. s < f4[d + 1]
    BY <2>2
  <2> HIDE DEF s
  <2>9. s \in 0 .. 3875
    BY <2>4, <2>5, <2>6, <2>7, <2>8
  <2>10. rank(q) = s
    BY DEF a, b, c, d, s
  <2> HIDE DEF rank
  <2> QED
    BY <2>9, <2>10
<1>3. ASSUME NEW q \in Ascending, NEW r \in Ascending, rank(q) = rank(r) PROVE q = r
  <2> DEFINE a == q[1]  b == q[2]  c == q[3]  d == q[4]
             x == r[1]  y == r[2]  z == r[3]  w == r[4]
  <2>1. /\ a \in Nat /\ b \in Nat /\ c \in Nat /\ d \in Nat /\ a <= b /\ b <= c /\ c <= d
        /\ x \in Nat /\ y \in Nat /\ z \in Nat /\ w \in Nat /\ x <= y /\ y <= z /\ z <= w
    BY AscendingNibbles
  <2>2. ((a + f2[b]) + f3[c]) + f4[d] = ((x + f2[y]) + f3[z]) + f4[w]
    BY <1>3
  <2> HIDE DEF a, b, c, d, x, y, z, w
  <2>3. /\ f2[b] \in Nat /\ f3[c] \in Nat /\ f4[d] \in Nat
        /\ f2[y] \in Nat /\ f3[z] \in Nat /\ f4[w] \in Nat
    BY <1>1, <2>1 DEF Sums
  <2>4. d = w
    <3>1. ~(d < w)
      BY <1>1, <2>1, <2>2, SumsApart
    <3>2. ~(w < d)
      BY <1>1, <2>1, <2>2, SumsApart
    <3> QED
      BY <2>1, <3>1, <3>2
  <2>5. (a + f2[b]) + f3[c] = (x + f2[y]) + f3[z]
    <3> DEFINE s == (a + f2[b]) + f3[c]
               v == (x + f2[y]) + f3[z]
    <3>1. s \in Nat /\ v \in Nat
      BY <2>1, <2>3
    <3>2. s + f4[d] = v + f4[d]
      BY <2>2, <2>4
    <3> HIDE DEF s, v
    <3>3. s = v
      BY <2>3, <3>1, <3>2
    <3> QED
      BY <3>3 DEF s, v
  <2>6. c = z
    <3>1. ~(c < z)
      BY <1>1, <2>1, <2>5, SumsApart
    <3>2. ~(z < c)
      BY <1>1, <2>1, <2>5, SumsApart
    <3> QED
      BY <2>1, <3>1, <3>2
  <2>7. a + f2[b] = x + f2[y]
    BY <2>1, <2>3, <2>5, <2>6
  <2>8. b = y
    <3>1. ~(b < y)
      BY <1>1, <2>1, <2>7, SumsApart
    <3>2. ~(y < b)
      BY <1>1, <2>1, <2>7, SumsApart
    <3> QED
      BY <2>1, <3>1, <3>2
  <2>9. a = x
    BY <2>1, <2>3, <2>7, <2>8
  <2>10. q[1] = r[1] /\ q[2] = r[2] /\ q[3] = r[3] /\ q[4] = r[4]
    BY <2>4, <2>6, <2>8, <2>9 DEF a, b, c, d, x, y, z, w
  <2>11. q \in [1 .. 4 -> 0 .. Nibbles - 1] /\ r \in [1 .. 4 -> 0 .. Nibbles - 1]
    BY AscendingNibbles
  <2> QED
    BY <2>10, <2>11, FourEqual
<1>4. F \in Injection(Ascending, 0 .. 3875)
  <2> HIDE DEF rank
  <2>1. F \in [Ascending -> 0 .. 3875]
    BY <1>2
  <2>2. \A q, r \in DOMAIN F : F[q] = F[r] => q = r
    BY <1>3
  <2> HIDE DEF F
  <2>3. IsInjective(F)
    BY <2>2, Zenon DEF IsInjective
  <2> QED
    BY <2>1, <2>3 DEF Injection
<1> HIDE DEF F
<1>5. IsFiniteSet(0 .. 3875) /\ Cardinality(0 .. 3875) = 3876
  <2> DEFINE top == 3875
  <2> HIDE DEF top
  <2>2. IsFiniteSet(0 .. top) /\ Cardinality(0 .. top) = IF 0 > top THEN 0 ELSE top - 0 + 1
    <3>1. 0 \in Int /\ top \in Int
      BY DEF top
    <3> QED
      BY <3>1, FS_Interval
  <2> QED
    BY <2>2 DEF top
<1>6. IsFiniteSet(Ascending) /\ Cardinality(Ascending) <= Cardinality(0 .. 3875)
  BY <1>4, <1>5, FS_Injection
<1> QED
  BY <1>5, <1>6

\* Earlier compares quadruples at the first place where they differ.
LEMMA EarlierPlaces ==
    ASSUME NEW r, NEW q
    PROVE  Earlier(r, q) <=>
              \/ r[1] < q[1]
              \/ r[1] = q[1] /\ r[2] < q[2]
              \/ r[1] = q[1] /\ r[2] = q[2] /\ r[3] < q[3]
              \/ r[1] = q[1] /\ r[2] = q[2] /\ r[3] = q[3] /\ r[4] < q[4]
<1> DEFINE At(k) == r[k] < q[k] /\ \A j \in 1 .. k - 1 : r[j] = q[j]
<1>1. Earlier(r, q) <=> At(1) \/ At(2) \/ At(3) \/ At(4)
  <2>1. \A k \in 1 .. 4 : k \in {1, 2, 3, 4}
    OBVIOUS
  <2>2. 1 \in 1 .. 4 /\ 2 \in 1 .. 4 /\ 3 \in 1 .. 4 /\ 4 \in 1 .. 4
    OBVIOUS
  <2>3. Earlier(r, q) <=> \E k \in 1 .. 4 : At(k)
    BY DEF Earlier
  <2> HIDE DEF At
  <2> QED
    BY <2>1, <2>2, <2>3
<1>2. /\ 1 .. 1 - 1 = {} /\ 1 .. 2 - 1 = {1} /\ 1 .. 3 - 1 = {1, 2} /\ 1 .. 4 - 1 = {1, 2, 3}
  OBVIOUS
<1>3. At(1) <=> r[1] < q[1]
  BY <1>2
<1>4. At(2) <=> r[1] = q[1] /\ r[2] < q[2]
  BY <1>2
<1>5. At(3) <=> r[1] = q[1] /\ r[2] = q[2] /\ r[3] < q[3]
  BY <1>2
<1>6. At(4) <=> r[1] = q[1] /\ r[2] = q[2] /\ r[3] = q[3] /\ r[4] < q[4]
  BY <1>2
<1> HIDE DEF At
<1> QED
  BY <1>1, <1>3, <1>4, <1>5, <1>6, Zenon

LEMMA EarlierOrder ==
    ASSUME NEW p \in Ascending, NEW q \in Ascending, NEW r \in Ascending
    PROVE  /\ ~Earlier(q, q)
           /\ Earlier(p, q) /\ Earlier(q, r) => Earlier(p, r)
           /\ q # r => Earlier(q, r) \/ Earlier(r, q)
<1> DEFINE p1 == p[1]  p2 == p[2]  p3 == p[3]  p4 == p[4]
           q1 == q[1]  q2 == q[2]  q3 == q[3]  q4 == q[4]
           r1 == r[1]  r2 == r[2]  r3 == r[3]  r4 == r[4]
<1>1. /\ p1 \in Nat /\ p2 \in Nat /\ p3 \in Nat /\ p4 \in Nat
      /\ q1 \in Nat /\ q2 \in Nat /\ q3 \in Nat /\ q4 \in Nat
      /\ r1 \in Nat /\ r2 \in Nat /\ r3 \in Nat /\ r4 \in Nat
  BY AscendingNibbles
<1>2. q1 = r1 /\ q2 = r2 /\ q3 = r3 /\ q4 = r4 => q = r
  BY AscendingNibbles, FourEqual
<1> DEFINE Before(a1, a2, a3, a4, b1, b2, b3, b4) ==
              \/ a1 < b1
              \/ a1 = b1 /\ a2 < b2
              \/ a1 = b1 /\ a2 = b2 /\ a3 < b3
              \/ a1 = b1 /\ a2 = b2 /\ a3 = b3 /\ a4 < b4
<1>3. /\ Earlier(q, q) <=> Before(q1, q2, q3, q4, q1, q2, q3, q4)
      /\ Earlier(p, q) <=> Before(p1, p2, p3, p4, q1, q2, q3, q4)
      /\ Earlier(q, r) <=> Before(q1, q2, q3, q4, r1, r2, r3, r4)
      /\ Earlier(r, q) <=> Before(r1, r2, r3, r4, q1, q2, q3, q4)
      /\ Earlier(p, r) <=> Before(p1, p2, p3, p4, r1, r2, r3, r4)
  BY EarlierPlaces
<1> HIDE DEF p1, p2, p3, p4, q1, q2, q3, q4, r1, r2, r3, r4
<1>4. ~Earlier(q, q)
  BY <1>1, <1>3
<1>5. Earlier(p, q) /\ Earlier(q, r) => Earlier(p, r)
  BY <1>1, <1>3
<1>6. q # r => Earlier(q, r) \/ Earlier(r, q)
  BY <1>1, <1>2, <1>3
<1> QED
  BY <1>4, <1>5, <1>6

\* The index is below the number of quadruples, and no two have the same.
LEMMA IndexFacts ==
    /\ \A q \in Ascending : idx(q) \in 0 .. Cardinality(Ascending) - 1
    /\ \A q, r \in Ascending : idx(q) = idx(r) => q = r
<1> DEFINE Before(q) == {r \in Ascending : Earlier(r, q)}
<1>1. IsFiniteSet(Ascending) /\ Cardinality(Ascending) \in Nat
  BY AscendingFinite, FS_CardinalityType
<1>2. ASSUME NEW S \in SUBSET Ascending, NEW T \in SUBSET S, NEW x \in S, x \notin T
      PROVE  Cardinality(T) < Cardinality(S) /\ Cardinality(T) \in Nat /\ Cardinality(S) \in Nat
  <2>1. IsFiniteSet(S)
    BY <1>1, FS_Subset
  <2>2. IsFiniteSet(T) /\ Cardinality(T) <= Cardinality(S) /\ Cardinality(T) # Cardinality(S)
    BY <1>2, <2>1, FS_Subset
  <2>3. Cardinality(T) \in Nat /\ Cardinality(S) \in Nat
    BY <2>1, <2>2, FS_CardinalityType
  <2> QED
    BY <2>2, <2>3
<1>3. ASSUME NEW q \in Ascending PROVE idx(q) \in 0 .. Cardinality(Ascending) - 1
  <2>1. Before(q) \in SUBSET Ascending /\ q \notin Before(q)
    BY EarlierOrder
  <2>2. idx(q) = Cardinality(Before(q))
    BY DEF idx
  <2> HIDE DEF Before
  <2>3. Cardinality(Before(q)) < Cardinality(Ascending) /\ Cardinality(Before(q)) \in Nat
    BY <1>2, <2>1
  <2> QED
    BY <1>1, <2>2, <2>3
<1>4. ASSUME NEW q \in Ascending, NEW r \in Ascending, Earlier(q, r) PROVE idx(q) < idx(r)
  <2>1. Before(r) \in SUBSET Ascending
    OBVIOUS
  <2>2. \A p \in Before(q) : p \in Before(r)
    BY <1>4, EarlierOrder
  <2>3. q \in Before(r) /\ q \notin Before(q)
    BY <1>4, EarlierOrder
  <2>4. idx(q) = Cardinality(Before(q)) /\ idx(r) = Cardinality(Before(r))
    BY DEF idx
  <2> HIDE DEF Before
  <2>5. Before(q) \in SUBSET Before(r)
    BY <2>2
  <2> QED
    BY <1>2, <2>1, <2>3, <2>4, <2>5
<1>5. ASSUME NEW q \in Ascending, NEW r \in Ascending, idx(q) = idx(r) PROVE q = r
  <2>1. idx(q) \in Int
    BY <1>1, <1>3
  <2>2. ~Earlier(q, r) /\ ~Earlier(r, q)
    BY <1>4, <1>5, <2>1
  <2> QED
    BY <2>2, EarlierOrder
<1> QED
  BY <1>3, <1>5

LEMMA TwelveBits == pow2[12] \in Nat /\ 3876 <= pow2[12]
<1>1. \A n \in Nat : pow2[n + 1] = 2 * pow2[n]
  BY Pow2Facts
<1>2. /\ pow2[0 + 1] = 2 * pow2[0] /\ pow2[1 + 1] = 2 * pow2[1] /\ pow2[2 + 1] = 2 * pow2[2]
      /\ pow2[3 + 1] = 2 * pow2[3] /\ pow2[4 + 1] = 2 * pow2[4] /\ pow2[5 + 1] = 2 * pow2[5]
      /\ pow2[6 + 1] = 2 * pow2[6] /\ pow2[7 + 1] = 2 * pow2[7] /\ pow2[8 + 1] = 2 * pow2[8]
      /\ pow2[9 + 1] = 2 * pow2[9] /\ pow2[10 + 1] = 2 * pow2[10] /\ pow2[11 + 1] = 2 * pow2[11]
  BY <1>1
<1>3. pow2[0] = 1
  BY Pow2Facts
<1>4. pow2[6] = 64
  BY <1>2, <1>3
<1>5. pow2[12] = 4096
  BY <1>2, <1>4
<1> QED
  BY <1>5

\* What is decoded is what was encoded, and a codeword has 12 bits.
LEMMA Decoded ==
    ASSUME NEW q \in Ascending
    PROVE  /\ Packed!encode(q) = idx(q)
           /\ Packed!decode(idx(q)) = q
           /\ idx(q) \in 0 .. pow2[12] - 1
<1>1. Packed!encode(q) = idx(q)
  <2>1. q \in [1 .. 4 -> 0 .. Nibbles - 1]
    BY DEF Ascending
  <2>2. enc_table[q] = idx(q)
    BY <2>1 DEF enc_table
  <2> QED
    BY <2>2 DEF Packed!encode
<1>2. Packed!decode(idx(q)) = q
  <2>1. idx(q) \in 0 .. Cardinality(Ascending) - 1
    BY IndexFacts
  <2>2. dec_table[idx(q)] = CHOOSE r \in Ascending : idx(r) = idx(q)
    BY <2>1 DEF dec_table
  <2> DEFINE d == CHOOSE r \in Ascending : idx(r) = idx(q)
  <2>3. d \in Ascending /\ idx(d) = idx(q)
    OBVIOUS
  <2> HIDE DEF d
  <2>4. d = q
    BY <2>3, IndexFacts
  <2> QED
    BY <2>2, <2>4 DEF Packed!decode, d
<1>3. idx(q) \in 0 .. pow2[12] - 1
  <2> DEFINE n == Cardinality(Ascending)
             c == idx(q)
             p == pow2[12]
  <2>1. c \in 0 .. n - 1
    BY IndexFacts
  <2>2. n \in Nat
    BY AscendingFinite, FS_CardinalityType
  <2>3. n <= 3876 /\ p \in Nat /\ 3876 <= p
    BY AscendingFinite, TwelveBits
  <2> HIDE DEF n, c, p
  <2>4. n <= p
    BY <2>2, <2>3
  <2>5. c \in 0 .. p - 1
    BY <2>1, <2>2, <2>3, <2>4
  <2> QED
    BY <2>5 DEF c, p
<1> QED
  BY <1>1, <1>2, <1>3

\* The low bits of an empty bucket, and their codeword.
LEMMA EmptyCodeword ==
    LET zero == [j \in 1 .. 4 |-> 0]
    IN  zero \in Ascending /\ idx(zero) = 0
<1> DEFINE zero == [j \in 1 .. 4 |-> 0]
<1>1. zero[1] = 0 /\ zero[2] = 0 /\ zero[3] = 0 /\ zero[4] = 0
  OBVIOUS
<1>2. zero \in Ascending
  BY TagsAssumption DEF Ascending
<1> HIDE DEF zero
<1>3. \A r \in Ascending : ~Earlier(r, zero)
  <2> SUFFICES ASSUME NEW r \in Ascending PROVE ~Earlier(r, zero)
    OBVIOUS
  <2>1. r[1] \in Nat /\ r[2] \in Nat /\ r[3] \in Nat /\ r[4] \in Nat
    BY AscendingNibbles
  <2> QED
    BY <1>1, <2>1, EarlierPlaces
<1>4. {r \in Ascending : Earlier(r, zero)} = {}
  BY <1>3
<1>5. idx(zero) = 0
  BY <1>4, FS_EmptySet DEF idx
<1> QED
  BY <1>2, <1>5 DEF zero

------------------------------------------------------------------------------
(* PackedTable reads and writes memory by these operators too.              *)

LEMMA PackedWords ==
    /\ Packed!pow2 = pow2
    /\ Packed!number = number
<1>1. Packed!pow2 = pow2
  BY Zenon DEF Packed!pow2, pow2
<1>2. Packed!number = number
  BY <1>1, Zenon DEF Packed!number, number
<1> QED
  BY <1>1, <1>2

LEMMA PackedMemory ==
    /\ \A m, n : Packed!Field(m, n) = Field(m, n)
    /\ \A m, at, n, v : Packed!Stored(m, at, n, v) = Stored(m, at, n, v)
<1>1. \A x, k : Packed!Bit(x, k) = Bit(x, k)
  BY PackedWords DEF Packed!Bit, Bit
<1>2. \A m, n : Packed!Field(m, n) = Field(m, n)
  BY PackedWords DEF Packed!Field, Field, Packed!Number, Number
<1>3. \A m, at, n, v : Packed!Stored(m, at, n, v) = Stored(m, at, n, v)
  BY <1>1 DEF Packed!Stored, Stored
<1> QED
  BY <1>2, <1>3

\* Bits of a tag that are not in the codeword, and where bucket i begins.
Direct == PackedBits - 4

PackedAt(i) == (12 + 4 * Direct) * i

\* Where the direct bits of tag j are.
DirectAt(i, j) == PackedAt(i) + 12 + Direct * (j - 1)

LEMMA PackedPosition ==
    ASSUME NEW i \in Nat
    PROVE  /\ Packed!BucketAt(i) = PackedAt(i)
           /\ PackedAt(i) \in Nat
           /\ Direct \in 1 .. 13 /\ Packed!kDirBitsPerTag = Direct
           /\ \A j \in 1 .. 4 : DirectAt(i, j) \in Nat
<1>1. Direct \in 1 .. 13 /\ Packed!kDirBitsPerTag = Direct
  BY TagsAssumption DEF Direct, Packed!kDirBitsPerTag
<1>2. PackedAt(i) \in Nat
  BY TagsAssumption DEF Direct, PackedAt
<1>3. \A j \in 1 .. 4 : DirectAt(i, j) \in Nat
  <2>1. \A j \in 1 .. 4 : j \in {1, 2, 3, 4}
    OBVIOUS
  <2> QED
    BY <1>1, <1>2, <2>1 DEF DirectAt
<1>4. i = 2 * (i \div 2) + (i % 2) /\ i \div 2 \in Nat /\ i % 2 \in {0, 1}
  OBVIOUS
<1> DEFINE h == i \div 2
           r == i % 2
<1>5. Packed!BucketAt(i) =
         8 * (((12 + 4 * Direct) * i) \div 8) + (IF PackedBits \in {6, 8} THEN 4 * r ELSE 0)
  BY TagsAssumption DEF Packed!BucketAt, Packed!ByteOf, Packed!kBitsPerBucket, Packed!kDirBitsPerTag, Direct
<1> HIDE DEF h, r
<1>6. i = 2 * h + r /\ h \in Nat /\ r \in {0, 1}
  BY <1>4 DEF h, r
<1>7. Packed!BucketAt(i) = PackedAt(i)
  <2>1. CASE PackedBits = 5
    BY <2>1, <1>5, <1>6 DEF Direct, PackedAt
  <2>2. CASE PackedBits = 6
    BY <2>2, <1>5, <1>6 DEF Direct, PackedAt
  <2>3. CASE PackedBits = 7
    BY <2>3, <1>5, <1>6 DEF Direct, PackedAt
  <2>4. CASE PackedBits = 8
    BY <2>4, <1>5, <1>6 DEF Direct, PackedAt
  <2>5. CASE PackedBits = 9
    BY <2>5, <1>5, <1>6 DEF Direct, PackedAt
  <2>6. CASE PackedBits = 13
    BY <2>6, <1>5, <1>6 DEF Direct, PackedAt
  <2>7. CASE PackedBits = 17
    BY <2>7, <1>5, <1>6 DEF Direct, PackedAt
  <2> QED
    BY <2>1, <2>2, <2>3, <2>4, <2>5, <2>6, <2>7, TagsAssumption
<1> QED
  BY <1>1, <1>2, <1>3, <1>7

------------------------------------------------------------------------------
(* Sorting the four tags of a bucket by their low bits.                     *)

Low(x) == x % 16

LEMMA PairSorted ==
    ASSUME NEW X \in SUBSET Nat, NEW s \in [1 .. 4 -> X],
           NEW a \in 1 .. 4, NEW b \in 1 .. 4, a # b
    PROVE  LET s2 == Packed!SortPair(s, a, b)
           IN  /\ s2 \in [1 .. 4 -> X]
               /\ \A x : Times(s2, x) = Times(s, x)
               /\ \A k \in 1 .. 4 : k # a /\ k # b => s2[k] = s[k]
               /\ \/ s2[a] = s[a] /\ s2[b] = s[b] /\ Low(s[a]) <= Low(s[b])
                  \/ s2[a] = s[b] /\ s2[b] = s[a] /\ Low(s[b]) < Low(s[a])
<1> DEFINE s2 == Packed!SortPair(s, a, b)
<1>1. s[a] \in Nat /\ s[b] \in Nat
  OBVIOUS
<1>2. Low(s[a]) \in Nat /\ Low(s[b]) \in Nat
  BY <1>1 DEF Low
<1>3. CASE Low(s[a]) > Low(s[b])
  <2>1. s2 = [s EXCEPT ![a] = s[b], ![b] = s[a]]
    BY <1>3 DEF Packed!SortPair, Low
  <2> HIDE DEF s2
  <2>2. s2 \in [1 .. 4 -> X] /\ s2[a] = s[b] /\ s2[b] = s[a]
        /\ \A k \in 1 .. 4 : k # a /\ k # b => s2[k] = s[k]
    BY <2>1
  <2>3. a \in {1, 2, 3, 4} /\ b \in {1, 2, 3, 4}
    OBVIOUS
  <2>4. ASSUME NEW x PROVE Times(s2, x) = Times(s, x)
    <3>1. 1 \in 1 .. 4 /\ 2 \in 1 .. 4 /\ 3 \in 1 .. 4 /\ 4 \in 1 .. 4
      OBVIOUS
    <3> DEFINE e(k) == One(s[k] = x)
               e2(k) == One(s2[k] = x)
    <3>2. \A k \in 1 .. 4 : e(k) \in Nat /\ e2(k) = IF k = a THEN e(b) ELSE IF k = b THEN e(a) ELSE e(k)
      BY <2>2 DEF One
    <3> HIDE DEF e, e2
    <3>3. ((e2(1) + e2(2)) + e2(3)) + e2(4) = ((e(1) + e(2)) + e(3)) + e(4)
      BY <2>3, <3>1, <3>2
    <3> QED
      BY <3>3 DEF Times, e, e2
  <2> QED
    BY <1>2, <1>3, <2>2, <2>4 DEF s2
<1>4. CASE ~(Low(s[a]) > Low(s[b]))
  <2>1. s2 = s
    BY <1>4 DEF Packed!SortPair, Low
  <2> QED
    BY <1>2, <1>4, <2>1
<1> QED
  BY <1>3, <1>4

\* The tags are the same, in an order with ascending low bits.
LEMMA TagsSorted ==
    ASSUME NEW X \in SUBSET Nat, NEW s \in [1 .. 4 -> X]
    PROVE  LET z == Packed!SortTags(s)
           IN  /\ z \in [1 .. 4 -> X]
               /\ \A x : Times(z, x) = Times(s, x)
               /\ Low(z[1]) <= Low(z[2]) /\ Low(z[2]) <= Low(z[3]) /\ Low(z[3]) <= Low(z[4])
<1> DEFINE s1 == Packed!SortPair(s, 1, 3)
           s2 == Packed!SortPair(s1, 2, 4)
           s3 == Packed!SortPair(s2, 1, 2)
           s4 == Packed!SortPair(s3, 3, 4)
           s5 == Packed!SortPair(s4, 2, 3)
<1>1. Packed!SortTags(s) = s5
  BY DEF Packed!SortTags
<1>2. 1 \in 1 .. 4 /\ 2 \in 1 .. 4 /\ 3 \in 1 .. 4 /\ 4 \in 1 .. 4
  OBVIOUS
<1> DEFINE Sorts(t, u, a, b, c, d) ==
              /\ u \in [1 .. 4 -> X]
              /\ \A x : Times(u, x) = Times(t, x)
              /\ u[c] = t[c] /\ u[d] = t[d]
              /\ \/ u[a] = t[a] /\ u[b] = t[b] /\ Low(t[a]) <= Low(t[b])
                 \/ u[a] = t[b] /\ u[b] = t[a] /\ Low(t[b]) < Low(t[a])
<1>3. Sorts(s, s1, 1, 3, 2, 4)
  BY <1>2, PairSorted
<1> HIDE DEF s1
<1>4. Sorts(s1, s2, 2, 4, 1, 3)
  <2>1. s1 \in [1 .. 4 -> X] /\ 2 # 4
    BY <1>3
  <2> QED
    BY <1>2, <2>1, PairSorted
<1> HIDE DEF s2
<1>5. Sorts(s2, s3, 1, 2, 3, 4)
  BY <1>2, <1>4, PairSorted
<1> HIDE DEF s3
<1>6. Sorts(s3, s4, 3, 4, 1, 2)
  BY <1>2, <1>5, PairSorted
<1> HIDE DEF s4
<1>7. Sorts(s4, s5, 2, 3, 1, 4)
  BY <1>2, <1>6, PairSorted
<1> HIDE DEF s5
<1>8. \A x : Times(s5, x) = Times(s, x)
  BY <1>3, <1>4, <1>5, <1>6, <1>7
<1>9. Low(s5[1]) <= Low(s5[2]) /\ Low(s5[2]) <= Low(s5[3]) /\ Low(s5[3]) <= Low(s5[4])
  <2>1. \A j \in 1 .. 4 : Low(s[j]) \in Nat
    <3>1. \A x \in Nat : x % 16 \in Nat
      OBVIOUS
    <3>2. \A j \in 1 .. 4 : s[j] \in Nat
      OBVIOUS
    <3> QED
      BY <3>1, <3>2 DEF Low
  <2>2. Low(s[1]) \in Nat /\ Low(s[2]) \in Nat /\ Low(s[3]) \in Nat /\ Low(s[4]) \in Nat
    BY <1>2, <2>1
  <2> DEFINE a == Low(s[1])  b == Low(s[2])  c == Low(s[3])  d == Low(s[4])
             L1(j) == Low(s1[j])
             L2(j) == Low(s2[j])
             L3(j) == Low(s3[j])
             L4(j) == Low(s4[j])
             L5(j) == Low(s5[j])
  <2>3. /\ L1(2) = b /\ L1(4) = d
        /\ (L1(1) = a /\ L1(3) = c /\ a <= c) \/ (L1(1) = c /\ L1(3) = a /\ c < a)
    BY <1>3
  <2>4. /\ L2(1) = L1(1) /\ L2(3) = L1(3)
        /\ \/ L2(2) = L1(2) /\ L2(4) = L1(4) /\ L1(2) <= L1(4)
           \/ L2(2) = L1(4) /\ L2(4) = L1(2) /\ L1(4) < L1(2)
    BY <1>4
  <2>5. /\ L3(3) = L2(3) /\ L3(4) = L2(4)
        /\ \/ L3(1) = L2(1) /\ L3(2) = L2(2) /\ L2(1) <= L2(2)
           \/ L3(1) = L2(2) /\ L3(2) = L2(1) /\ L2(2) < L2(1)
    BY <1>5
  <2>6. /\ L4(1) = L3(1) /\ L4(2) = L3(2)
        /\ \/ L4(3) = L3(3) /\ L4(4) = L3(4) /\ L3(3) <= L3(4)
           \/ L4(3) = L3(4) /\ L4(4) = L3(3) /\ L3(4) < L3(3)
    BY <1>6
  <2>7. /\ L5(1) = L4(1) /\ L5(4) = L4(4)
        /\ \/ L5(2) = L4(2) /\ L5(3) = L4(3) /\ L4(2) <= L4(3)
           \/ L5(2) = L4(3) /\ L5(3) = L4(2) /\ L4(3) < L4(2)
    BY <1>7
  <2>8. a \in Nat /\ b \in Nat /\ c \in Nat /\ d \in Nat
    BY <2>2
  <2>9. L5(1) <= L5(2) /\ L5(2) <= L5(3) /\ L5(3) <= L5(4)
    <3> HIDE DEF a, b, c, d, L1, L2, L3, L4, L5
    <3> QED
      BY <2>3, <2>4, <2>5, <2>6, <2>7, <2>8
  <2> QED
    BY <2>9
<1> QED
  BY <1>1, <1>7, <1>8, <1>9

------------------------------------------------------------------------------
(* Reading and writing a bucket of a PackedTable.                           *)

LEMMA PackedApart ==
    ASSUME NEW i \in Nat, NEW k \in Nat, i # k
    PROVE  \/ PackedAt(i) + 12 + 4 * Direct <= PackedAt(k)
           \/ PackedAt(k) + 12 + 4 * Direct <= PackedAt(i)
<1> DEFINE w == 12 + 4 * Direct
<1>1. w \in Nat
  BY PackedPosition
<1>2. ASSUME NEW a \in Nat, NEW c \in Nat, a + 1 <= c PROVE w * a + w <= w * c
  <2>1. w * (a + 1) <= w * c /\ w * (a + 1) = w * a + w
    <3> HIDE DEF w
    <3>1. a + 1 \in Nat
      OBVIOUS
    <3>2. w * (a + 1) <= w * c
      BY <1>1, <1>2, <3>1, TimesMonotone
    <3>3. w * (a + 1) = w * a + w
      BY <1>1
    <3> QED
      BY <3>2, <3>3
  <2> HIDE DEF w
  <2> QED
    BY <2>1
<1>3. i + 1 <= k \/ k + 1 <= i
  OBVIOUS
<1>4. w * i + w <= w * k \/ w * k + w <= w * i
  <2> HIDE DEF w
  <2> QED
    BY <1>2, <1>3
<1>5. PackedAt(i) = w * i /\ PackedAt(k) = w * k
  BY DEF PackedAt
<1>6. w * i \in Int /\ w * k \in Int
  <2> HIDE DEF w
  <2> QED
    BY <1>1
<1>7. \A x \in Int : x + w = x + 12 + 4 * Direct
  BY PackedPosition
<1> HIDE DEF w
<1> QED
  BY <1>4, <1>5, <1>6, <1>7

LEMMA PackedEnd ==
    ASSUME NEW i \in Buckets
    PROVE  \E L \in Nat : Packed!Bits = 0 .. L - 1 /\ PackedAt(i) + 12 + 4 * Direct <= L
<1> DEFINE w == 12 + 4 * Direct
           B == Packed!kBytesPerBucket
           L == 8 * (B * NumBuckets + 7)
<1>1. Direct \in 1 .. 13 /\ i \in Nat /\ NumBuckets \in Nat /\ i + 1 <= NumBuckets
  BY PackedPosition, TagsAssumption DEF Buckets
<1>2. B \in Nat /\ w \in Nat /\ w <= 8 * B
  BY <1>1, TagsAssumption
  DEF Packed!kBytesPerBucket, Packed!kBitsPerBucket, Packed!kDirBitsPerTag, Direct
<1>3. Packed!Bits = 0 .. L - 1
  BY DEF Packed!Bits
<1>4. PackedAt(i) = w * i
  BY DEF PackedAt
<1>5. \A x \in Int : x + 12 + 4 * Direct = x + w
  BY <1>1
<1> HIDE DEF w, B
<1>6. w * (i + 1) = w * i + w /\ w * i \in Nat /\ w * (i + 1) \in Nat
  BY <1>1, <1>2
<1>7. w * (i + 1) <= w * NumBuckets /\ w * NumBuckets \in Nat
  <2>1. i + 1 \in Nat
    BY <1>1
  <2> QED
    BY <1>1, <1>2, <2>1, TimesMonotone
<1>8. NumBuckets * w <= NumBuckets * (8 * B)
  <2>1. 8 * B \in Nat
    BY <1>2
  <2> QED
    BY <1>1, <1>2, <2>1, TimesMonotone
<1>9. NumBuckets * w = w * NumBuckets /\ NumBuckets * (8 * B) = 8 * (B * NumBuckets)
      /\ B * NumBuckets \in Nat
  BY <1>1, <1>2
<1> DEFINE x == w * i
           y == B * NumBuckets
           z == w * NumBuckets
<1>10. x + w <= 8 * (y + 7)
  <2>1. x + w <= z /\ z <= 8 * y
    BY <1>6, <1>7, <1>8, <1>9
  <2>2. x \in Nat /\ y \in Nat /\ z \in Nat
    BY <1>6, <1>7, <1>9
  <2> HIDE DEF x, y, z
  <2> QED
    BY <1>2, <2>1, <2>2
<1>11. L \in Nat
  <2> HIDE DEF y
  <2>1. y \in Nat
    BY <1>9 DEF y
  <2> QED
    BY <2>1 DEF y
<1> QED
  BY <1>3, <1>4, <1>5, <1>6, <1>10, <1>11

\* Memory m4 is m with codeword c and the four numbers v put at p.
Replaced(m, m4, p, n, c, v) ==
    /\ Field(m4, 12)[p] = c
    /\ Field(m4, n)[p + 12] = v[1]
    /\ Field(m4, n)[p + 12 + n] = v[2]
    /\ Field(m4, n)[p + 12 + n * 2] = v[3]
    /\ Field(m4, n)[p + 12 + n * 3] = v[4]
    /\ \A k, at \in Nat : p + 12 + 4 * n <= at \/ at + k <= p =>
          Field(m4, k)[at] = Field(m, k)[at]
    /\ \A L \in Nat : m \subseteq 0 .. L - 1 /\ p + 12 + 4 * n <= L => m4 \subseteq 0 .. L - 1

\* A codeword of 12 bits and four fields of n bits behind it, stored one after
\* the other, are all there, and nothing else has changed.
LEMMA FiveStores ==
    ASSUME NEW m, NEW p \in Nat, NEW n \in Nat, NEW c \in 0 .. pow2[12] - 1,
           NEW v, \A j \in 1 .. 4 : v[j] \in 0 .. pow2[n] - 1,
           NEW m0, m0 = Stored(m, p, 12, c),
           NEW m1, m1 = Stored(m0, p + 12, n, v[1]),
           NEW m2, m2 = Stored(m1, p + 12 + n, n, v[2]),
           NEW m3, m3 = Stored(m2, p + 12 + n * 2, n, v[3]),
           NEW m4, m4 = Stored(m3, p + 12 + n * 3, n, v[4])
    PROVE  Replaced(m, m4, p, n, c, v)
<1> DEFINE a1 == p + 12
           a2 == p + 12 + n
           a3 == p + 12 + n * 2
           a4 == p + 12 + n * 3
<1>1. /\ a1 \in Nat /\ a2 \in Nat /\ a3 \in Nat /\ a4 \in Nat /\ 12 \in Nat
      /\ p + 12 = a1 /\ a1 + n = a2 /\ a2 + n = a3 /\ a3 + n = a4 /\ a4 + n = p + 12 + 4 * n
      /\ p <= a1 /\ a1 <= a2 /\ a2 <= a3 /\ a3 <= a4 /\ p + 12 <= a2 /\ p + 12 <= a3 /\ p + 12 <= a4
  OBVIOUS
<1>2. /\ m1 = Stored(m0, a1, n, v[1]) /\ m2 = Stored(m1, a2, n, v[2])
      /\ m3 = Stored(m2, a3, n, v[3]) /\ m4 = Stored(m3, a4, n, v[4])
  OBVIOUS
<1>3. v[1] \in 0 .. pow2[n] - 1 /\ v[2] \in 0 .. pow2[n] - 1 /\ v[3] \in 0 .. pow2[n] - 1 /\ v[4] \in 0 .. pow2[n] - 1
  OBVIOUS
<1> HIDE DEF a1, a2, a3, a4
\* Each store leaves what does not overlap it.
<1>4. ASSUME NEW k \in Nat, NEW at \in Nat
      PROVE  /\ at + k <= p \/ a1 <= at => Field(m0, k)[at] = Field(m, k)[at]
             /\ at + k <= a1 \/ a2 <= at => Field(m1, k)[at] = Field(m0, k)[at]
             /\ at + k <= a2 \/ a3 <= at => Field(m2, k)[at] = Field(m1, k)[at]
             /\ at + k <= a3 \/ a4 <= at => Field(m3, k)[at] = Field(m2, k)[at]
             /\ at + k <= a4 \/ p + 12 + 4 * n <= at => Field(m4, k)[at] = Field(m3, k)[at]
  <2>1. at + k <= p \/ a1 <= at => Field(m0, k)[at] = Field(m, k)[at]
    BY <1>1, StoredOther
  <2>2. at + k <= a1 \/ a2 <= at => Field(m1, k)[at] = Field(m0, k)[at]
    BY <1>1, <1>2, StoredOther
  <2>3. at + k <= a2 \/ a3 <= at => Field(m2, k)[at] = Field(m1, k)[at]
    BY <1>1, <1>2, StoredOther
  <2>4. at + k <= a3 \/ a4 <= at => Field(m3, k)[at] = Field(m2, k)[at]
    BY <1>1, <1>2, StoredOther
  <2>5. at + k <= a4 \/ p + 12 + 4 * n <= at => Field(m4, k)[at] = Field(m3, k)[at]
    BY <1>1, <1>2, StoredOther
  <2> QED
    BY <2>1, <2>2, <2>3, <2>4, <2>5
<1>5. Field(m4, 12)[p] = c
  <2>1. Field(m0, 12)[p] = c
    BY <1>1, StoredField
  <2> QED
    BY <1>1, <1>4, <2>1
<1>6. Field(m4, n)[a1] = v[1]
  <2>1. Field(m1, n)[a1] = v[1]
    BY <1>1, <1>2, <1>3, StoredField
  <2>2. a1 + n <= a2 /\ a1 + n <= a3 /\ a1 + n <= a4
    BY <1>1
  <2> QED
    BY <1>1, <1>4, <2>1, <2>2
<1>7. Field(m4, n)[a2] = v[2]
  <2>1. Field(m2, n)[a2] = v[2]
    BY <1>1, <1>2, <1>3, StoredField
  <2>2. a2 + n <= a3 /\ a2 + n <= a4
    BY <1>1
  <2> QED
    BY <1>1, <1>4, <2>1, <2>2
<1>8. Field(m4, n)[a3] = v[3]
  <2>1. Field(m3, n)[a3] = v[3]
    BY <1>1, <1>2, <1>3, StoredField
  <2> QED
    BY <1>1, <1>4, <2>1
<1>9. Field(m4, n)[a4] = v[4]
  BY <1>1, <1>2, <1>3, StoredField
<1>10. ASSUME NEW k \in Nat, NEW at \in Nat, p + 12 + 4 * n <= at \/ at + k <= p
       PROVE  Field(m4, k)[at] = Field(m, k)[at]
  <2>1. /\ at + k <= p \/ a1 <= at
        /\ at + k <= a1 \/ a2 <= at
        /\ at + k <= a2 \/ a3 <= at
        /\ at + k <= a3 \/ a4 <= at
        /\ at + k <= a4 \/ p + 12 + 4 * n <= at
    BY <1>1, <1>10
  <2> QED
    BY <1>4, <2>1
<1>11. ASSUME NEW L \in Nat, m \subseteq 0 .. L - 1, p + 12 + 4 * n <= L
       PROVE  m4 \subseteq 0 .. L - 1
  <2>1. p + 12 <= L /\ a1 + n <= L /\ a2 + n <= L /\ a3 + n <= L /\ a4 + n <= L
    BY <1>1, <1>11
  <2>2. m0 \subseteq 0 .. L - 1
    BY <1>1, <1>11, <2>1, StoredWithin
  <2>3. m1 \subseteq 0 .. L - 1
    BY <1>1, <1>2, <2>1, <2>2, StoredWithin
  <2>4. m2 \subseteq 0 .. L - 1
    BY <1>1, <1>2, <2>1, <2>3, StoredWithin
  <2>5. m3 \subseteq 0 .. L - 1
    BY <1>1, <1>2, <2>1, <2>4, StoredWithin
  <2> QED
    BY <1>1, <1>2, <2>1, <2>5, StoredWithin
<1> QED
  BY <1>5, <1>6, <1>7, <1>8, <1>9, <1>10, <1>11 DEF Replaced, a1, a2, a3, a4

Lows(s) == [j \in 1 .. 4 |-> Low(s[j])]

\* Memory m holds the four tags s in bucket i: their low bits, in ascending
\* order, as one codeword, and the other bits of each.
Packs(m, i, s) ==
    /\ s \in [1 .. 4 -> Tags \union {0}]
    /\ Lows(s) \in Ascending
    /\ Field(m, 12)[PackedAt(i)] = idx(Lows(s))
    /\ \A j \in 1 .. 4 : Field(m, Direct)[DirectAt(i, j)] = s[j] \div 16

PackedTag(m, i, j) ==
    16 * Field(m, Direct)[DirectAt(i, j)] + Packed!decode(Field(m, 12)[PackedAt(i)])[j]

\* A tag is below 2^bits_per_tag; its low bits are nibbles.
LEMMA TagBits ==
    ASSUME NEW t \in Tags \union {0}
    PROVE  /\ t \in Nat /\ t = 16 * (t \div 16) + Low(t)
           /\ t \div 16 \in 0 .. pow2[Direct] - 1
           /\ Low(t) \in 0 .. Nibbles - 1
<1>1. t \in Nat
  BY TagsNat
<1>2. t = 16 * (t \div 16) + Low(t) /\ t \div 16 \in Nat /\ Low(t) \in Nat
  BY <1>1 DEF Low
<1>3. Low(t) \in 0 .. Nibbles - 1
  <2>1. t = 0 => Low(t) = 0
    BY DEF Low
  <2>2. t # 0 => Low(t) < Nibbles
    BY TagsAssumption DEF Low
  <2> QED
    BY <1>2, <2>1, <2>2, TagsAssumption
<1>4. pow2[4] = 16
  <2>1. 0 + 1 = 1 /\ 1 + 1 = 2 /\ 2 + 1 = 3 /\ 3 + 1 = 4
    OBVIOUS
  <2>2. /\ pow2[0 + 1] = 2 * pow2[0] /\ pow2[1 + 1] = 2 * pow2[1]
        /\ pow2[2 + 1] = 2 * pow2[2] /\ pow2[3 + 1] = 2 * pow2[3]
    BY Pow2Facts
  <2> QED
    BY <2>1, <2>2, Pow2Facts
<1>5. PackedBits = 4 + Direct /\ Direct \in Nat
  BY TagsAssumption DEF Direct
<1>6. pow2[PackedBits] = 16 * pow2[Direct] /\ pow2[Direct] \in Nat \ {0}
  <2>1. 4 \in Nat
    OBVIOUS
  <2>2. pow2[4 + Direct] = pow2[4] * pow2[Direct]
    BY <1>5, <2>1, Pow2Split
  <2>3. pow2[Direct] \in Nat /\ pow2[Direct] > Direct
    BY <1>5, Pow2Facts
  <2> QED
    BY <1>4, <1>5, <2>2, <2>3
<1>7. t < 16 * pow2[Direct]
  BY <1>1, <1>6, TagsAssumption
<1> DEFINE q == t \div 16
           P == pow2[Direct]
<1>8. t = 16 * q + Low(t) /\ q \in Nat /\ t < 16 * P /\ P \in Nat
  BY <1>2, <1>6, <1>7
<1> HIDE DEF q, P
<1>9. q < P
  BY <1>1, <1>2, <1>8
<1>10. q \in 0 .. P - 1
  BY <1>8, <1>9
<1> QED
  BY <1>1, <1>2, <1>3, <1>10 DEF q, P

LEMMA PackedTags ==
    ASSUME NEW b \in Nat
    PROVE  /\ TableType = "PackedTable" => TagsRead(b) = [j \in 1 .. 4 |-> PackedTag(mem, b, j)]
           /\ TableType' = "PackedTable" => TagsRead(b)' = [j \in 1 .. 4 |-> PackedTag(mem', b, j)]
           /\ Packed!ReadBucket(b) = [j \in 1 .. 4 |-> PackedTag(mem, b, j)]
<1>1. Packed!BucketAt(b) = PackedAt(b) /\ Packed!kDirBitsPerTag = Direct
  BY PackedPosition
<1>2. \A j \in 1 .. 4 : Packed!ReadTag(b, j) = PackedTag(mem, b, j)
  BY <1>1, PackedMemory DEF Packed!ReadTag, PackedTag, DirectAt
<1>3. \A j \in 1 .. 4 : Packed!ReadTag(b, j)' = PackedTag(mem', b, j)
  BY <1>1, PackedMemory DEF Packed!ReadTag, PackedTag, DirectAt
<1>4. "PackedTable" # "SingleTable"
  OBVIOUS
<1>5. Packed!ReadBucket(b) = [j \in 1 .. 4 |-> PackedTag(mem, b, j)]
  BY <1>2 DEF Packed!ReadBucket
<1>6. Packed!ReadBucket(b)' = [j \in 1 .. 4 |-> PackedTag(mem', b, j)]
  BY <1>3 DEF Packed!ReadBucket
<1> QED
  BY <1>4, <1>5, <1>6 DEF TagsRead

\* The bucket is read as the tags that memory holds.
LEMMA PackedRead ==
    ASSUME NEW m, NEW i \in Nat, NEW s, Packs(m, i, s)
    PROVE  [j \in 1 .. 4 |-> PackedTag(m, i, j)] = s
<1>1. s \in [1 .. 4 -> Tags \union {0}]
  BY DEF Packs
<1>2. ASSUME NEW j \in 1 .. 4 PROVE PackedTag(m, i, j) = s[j]
  <2>1. s[j] \in Tags \union {0}
    BY <1>1
  <2>2. s[j] = 16 * (s[j] \div 16) + Low(s[j])
    BY <2>1, TagBits
  <2>3. Packed!decode(Field(m, 12)[PackedAt(i)]) = Lows(s)
    BY Decoded DEF Packs
  <2>4. Lows(s)[j] = Low(s[j])
    BY DEF Lows
  <2>5. Field(m, Direct)[DirectAt(i, j)] = s[j] \div 16
    BY DEF Packs
  <2> QED
    BY <2>2, <2>3, <2>4, <2>5 DEF PackedTag
<1> QED
  BY <1>1, <1>2

\* A bucket written with four tags holds them in some order, and every other
\* bucket holds what it held.
LEMMA PackedWrite ==
    ASSUME NEW b \in Buckets, NEW s \in [1 .. 4 -> Tags \union {0}], Packed!WriteBucket(b, s)
    PROVE  /\ \E z : Packs(mem', b, z) /\ \A x : Times(z, x) = Times(s, x)
           /\ \A c \in Buckets : \A y : c # b /\ Packs(mem, c, y) => Packs(mem', c, y)
           /\ mem \subseteq Packed!Bits => mem' \subseteq Packed!Bits
<1> DEFINE z == Packed!SortTags(s)
           p == PackedAt(b)
           n == Direct
           code == idx(Lows(z))
           v == [j \in 1 .. 4 |-> z[j] \div 16]
           m0 == Stored(mem, p, 12, code)
           m1 == Stored(m0, p + 12, n, v[1])
           m2 == Stored(m1, p + 12 + n, n, v[2])
           m3 == Stored(m2, p + 12 + n * 2, n, v[3])
           m4 == Stored(m3, p + 12 + n * 3, n, v[4])
<1>1. \A c \in Buckets : c \in Nat
  BY DEF Buckets
<1>2. p \in Nat /\ n \in Nat /\ Packed!BucketAt(b) = p /\ Packed!kDirBitsPerTag = n
  BY <1>1, PackedPosition
<1>3. /\ z \in [1 .. 4 -> Tags \union {0}]
      /\ \A x : Times(z, x) = Times(s, x)
      /\ Low(z[1]) <= Low(z[2]) /\ Low(z[2]) <= Low(z[3]) /\ Low(z[3]) <= Low(z[4])
  <2> DEFINE X == Tags \union {0}
  <2>1. X \in SUBSET Nat /\ s \in [1 .. 4 -> X]
    BY TagsNat
  <2> HIDE DEF X
  <2>2. /\ z \in [1 .. 4 -> X]
        /\ \A x : Times(z, x) = Times(s, x)
        /\ Low(z[1]) <= Low(z[2]) /\ Low(z[2]) <= Low(z[3]) /\ Low(z[3]) <= Low(z[4])
    BY <2>1, TagsSorted
  <2> QED
    BY <2>2 DEF X
<1> HIDE DEF z
<1>4. Lows(z) \in Ascending
  <2>1. \A j \in 1 .. 4 : Low(z[j]) \in 0 .. Nibbles - 1
    BY <1>3, TagBits
  <2>2. 1 \in 1 .. 4 /\ 2 \in 1 .. 4 /\ 3 \in 1 .. 4 /\ 4 \in 1 .. 4
    OBVIOUS
  <2> QED
    BY <1>3, <2>1, <2>2 DEF Ascending, Lows
<1>5. code \in 0 .. pow2[12] - 1
  BY <1>4, Decoded, Zenon
<1>6. \A j \in 1 .. 4 : v[j] \in 0 .. pow2[n] - 1
  BY <1>3, TagBits
<1>7. mem' = m4
  <2>1. Packed!encode(Lows(z)) = code
    BY <1>4, Decoded
  <2>2. [j \in 1 .. 4 |-> z[j] % 16] = Lows(z)
    BY DEF Lows, Low
  <2>3. mem' = Packed!DirectBits(Stored(mem, p, 12, code), p + 12, z)
    BY <1>2, <2>1, <2>2, PackedMemory DEF Packed!WriteBucket, z
  <2>4. /\ n * (1 - 1) = 0 /\ n * (2 - 1) = n /\ n * (3 - 1) = n * 2 /\ n * (4 - 1) = n * 3
        /\ p + 12 + 0 = p + 12
    BY <1>2
  <2>5. /\ v[1] = z[1] \div 16 /\ v[2] = z[2] \div 16 /\ v[3] = z[3] \div 16 /\ v[4] = z[4] \div 16
    OBVIOUS
  <2> HIDE DEF v, p, n, code
  <2>6. Packed!DirectBits(Stored(mem, p, 12, code), p + 12, z) = m4
    BY <1>2, <2>4, <2>5, PackedMemory DEF Packed!DirectBits
  <2> QED
    BY <2>3, <2>6
<1> HIDE DEF v, p, n, code, m0, m1, m2, m3, m4
<1>8. /\ Field(m4, 12)[p] = code
      /\ Field(m4, n)[p + 12] = v[1]
      /\ Field(m4, n)[p + 12 + n] = v[2]
      /\ Field(m4, n)[p + 12 + n * 2] = v[3]
      /\ Field(m4, n)[p + 12 + n * 3] = v[4]
      /\ \A k, at \in Nat : p + 12 + 4 * n <= at \/ at + k <= p =>
            Field(m4, k)[at] = Field(mem, k)[at]
      /\ \A L \in Nat : mem \subseteq 0 .. L - 1 /\ p + 12 + 4 * n <= L => m4 \subseteq 0 .. L - 1
  <2>1. m0 = Stored(mem, p, 12, code)
    BY DEF m0
  <2>2. m1 = Stored(m0, p + 12, n, v[1])
    BY DEF m1
  <2>3. m2 = Stored(m1, p + 12 + n, n, v[2])
    BY DEF m2
  <2>4. m3 = Stored(m2, p + 12 + n * 2, n, v[3])
    BY DEF m3
  <2>5. m4 = Stored(m3, p + 12 + n * 3, n, v[4])
    BY DEF m4
  <2>6. Replaced(mem, m4, p, n, code, v)
    BY <1>2, <1>5, <1>6, <2>1, <2>2, <2>3, <2>4, <2>5, FiveStores, Zenon
  <2> QED
    BY <2>6 DEF Replaced
<1>9. Packs(m4, b, z)
  <2>1. ASSUME NEW j \in 1 .. 4 PROVE Field(m4, Direct)[DirectAt(b, j)] = z[j] \div 16
    <3>1. j \in {1, 2, 3, 4}
      OBVIOUS
    <3>2. v[j] = z[j] \div 16
      BY DEF v
    <3>3. DirectAt(b, j) = p + 12 + n * (j - 1)
      BY DEF DirectAt, p, n
    <3>4. Field(m4, n)[DirectAt(b, j)] = v[j]
      <4>1. p + 12 + n * (1 - 1) = p + 12 /\ p + 12 + n * (2 - 1) = p + 12 + n
            /\ n * (3 - 1) = n * 2 /\ n * (4 - 1) = n * 3
        BY <1>2
      <4> QED
        BY <1>8, <3>1, <3>3, <4>1
    <3> QED
      BY <3>2, <3>4 DEF n
  <2> QED
    BY <1>3, <1>4, <1>8, <2>1 DEF Packs, p, code
<1>10. ASSUME NEW c \in Buckets, NEW y, c # b, Packs(mem, c, y) PROVE Packs(m4, c, y)
  <2>1. c \in Nat /\ b \in Nat
    BY <1>1
  <2>2. PackedAt(c) \in Nat /\ 12 \in Nat
    BY <2>1, PackedPosition
  <2>3. p + 12 + 4 * n <= PackedAt(c) \/ PackedAt(c) + 12 + 4 * n <= p
    BY <1>10, <2>1, PackedApart DEF p, n
  <2>4. Field(m4, 12)[PackedAt(c)] = Field(mem, 12)[PackedAt(c)]
    <3>1. p + 12 + 4 * n <= PackedAt(c) \/ PackedAt(c) + 12 <= p
      BY <1>2, <2>2, <2>3
    <3> QED
      BY <1>8, <2>2, <3>1
  <2>5. ASSUME NEW j \in 1 .. 4
        PROVE  Field(m4, n)[DirectAt(c, j)] = Field(mem, n)[DirectAt(c, j)]
    <3> DEFINE q == PackedAt(c)
    <3>1. DirectAt(c, j) = q + 12 + n * (j - 1)
      BY DEF DirectAt, n
    <3>2. j \in {1, 2, 3, 4} /\ q \in Nat
      BY <2>2
    <3> HIDE DEF q
    <3>3. n * (j - 1) \in {0, n, n * 2, n * 3}
      BY <1>2, <3>2
    <3>4. DirectAt(c, j) \in Nat /\ q <= DirectAt(c, j) /\ DirectAt(c, j) + n <= q + 12 + 4 * n
      BY <1>2, <3>1, <3>2, <3>3
    <3>5. p + 12 + 4 * n <= q \/ q + 12 + 4 * n <= p
      BY <2>3 DEF q
    <3> DEFINE d == DirectAt(c, j)
    <3> HIDE DEF d
    <3>6. d \in Nat /\ (p + 12 + 4 * n <= d \/ d + n <= p)
      BY <1>2, <3>2, <3>4, <3>5 DEF d
    <3> QED
      BY <1>2, <1>8, <3>6 DEF d
  <2> QED
    BY <1>10, <2>4, <2>5 DEF Packs, n
<1>11. ASSUME mem \subseteq Packed!Bits PROVE m4 \subseteq Packed!Bits
  <2>1. PICK L \in Nat : Packed!Bits = 0 .. L - 1 /\ p + 12 + 4 * n <= L
    BY PackedEnd DEF p, n
  <2> QED
    BY <1>8, <1>11, <2>1
<1> QED
  BY <1>3, <1>7, <1>9, <1>10, <1>11

------------------------------------------------------------------------------
(* The calls of a PackedTable.                                              *)

\* Every bucket of a PackedTable holds four tags.
PackedOK == \A b \in Buckets : \E s : Packs(mem, b, s)

LEMMA PackedTagsOK ==
    /\ TableType = "PackedTable" /\ PackedOK => TagsOK
    /\ TableType' = "PackedTable" /\ PackedOK' => TagsOK'
<1>1. \A b \in Buckets : b \in Nat
  BY DEF Buckets
<1>2. ASSUME TableType = "PackedTable", PackedOK PROVE TagsOK
  <2> SUFFICES ASSUME NEW b \in Buckets PROVE TagsRead(b) \in [1 .. 4 -> Tags \union {0}]
    BY DEF TagsOK
  <2>1. PICK s : Packs(mem, b, s)
    BY <1>2 DEF PackedOK
  <2>2. TagsRead(b) = s
    BY <1>1, <1>2, <2>1, PackedTags, PackedRead
  <2> QED
    BY <2>1, <2>2 DEF Packs
<1>3. ASSUME TableType' = "PackedTable", PackedOK' PROVE TagsOK'
  <2>1. \A b \in Buckets : \E s : Packs(mem', b, s)
    BY <1>3 DEF PackedOK, Packs
  <2>2. ASSUME NEW b \in Buckets PROVE TagsRead(b)' \in [1 .. 4 -> Tags \union {0}]
    <3>1. PICK s : Packs(mem', b, s)
      BY <2>1
    <3>2. TagsRead(b)' = s
      BY <1>1, <1>3, <3>1, PackedTags, PackedRead
    <3> QED
      BY <3>1, <3>2 DEF Packs
  <2> QED
    BY <2>2 DEF TagsOK
<1> QED
  BY <1>2, <1>3

LEMMA PackedPut ==
    ASSUME TableType = "PackedTable", UNCHANGED TableType, PackedOK,
           mem \subseteq Packed!Bits, NEW i \in Buckets, NEW j \in 1 .. 4,
           NEW u \in Tags \union {0}, Packed!WriteBucket(i, [TagsRead(i) EXCEPT ![j] = u])
    PROVE  /\ PackedOK'
           /\ TagsOK'
           /\ mem' \subseteq Packed!Bits
           /\ Table!Replace(i, TagsRead(i)[j], u)
<1>1. \A b \in Buckets : b \in Nat
  BY DEF Buckets
<1> DEFINE s == [TagsRead(i) EXCEPT ![j] = u]
<1>2. TagsOK
  BY PackedTagsOK
<1>3. s \in [1 .. 4 -> Tags \union {0}]
  BY <1>2 DEF TagsOK
<1> HIDE DEF s
<1>4. Packed!WriteBucket(i, s)
  BY DEF s
<1>5. /\ \E z : Packs(mem', i, z) /\ \A x : Times(z, x) = Times(s, x)
      /\ \A c \in Buckets : \A y : c # i /\ Packs(mem, c, y) => Packs(mem', c, y)
      /\ mem' \subseteq Packed!Bits
  BY <1>3, <1>4, PackedWrite
<1>6. \A b \in Buckets : \E y : Packs(mem', b, y)
  BY <1>5 DEF PackedOK
<1>7. PackedOK'
  BY <1>6 DEF PackedOK, Packs
<1>8. TagsOK'
  BY <1>7, PackedTagsOK
<1>9. ASSUME NEW b \in Buckets, b # i PROVE TagsRead(b)' = TagsRead(b)
  <2>1. PICK y : Packs(mem, b, y)
    BY DEF PackedOK
  <2>2. Packs(mem', b, y)
    BY <1>5, <1>9, <2>1
  <2>3. TagsRead(b) = y /\ TagsRead(b)' = y
    BY <1>1, <2>1, <2>2, PackedTags, PackedRead
  <2> QED
    BY <2>3
<1>10. \A x : Times(TagsRead(i)', x) = Times(s, x)
  <2>1. PICK z : Packs(mem', i, z) /\ \A x : Times(z, x) = Times(s, x)
    BY <1>5
  <2>2. TagsRead(i)' = z
    BY <1>1, <2>1, PackedTags, PackedRead
  <2> QED
    BY <2>1, <2>2
<1>11. Table!Replace(i, TagsRead(i)[j], u)
  BY <1>2, <1>8, <1>9, <1>10, PutStep DEF s
<1> QED
  BY <1>5, <1>7, <1>8, <1>11

LEMMA PackedCallStep ==
    ASSUME PackedOK, mem \subseteq Packed!Bits, PackedCall
    PROVE  /\ TableType' = "PackedTable"
           /\ mem' \subseteq Packed!Bits
           /\ PackedOK'
           /\ CallOK
<1>1. PICK b \in Buckets, t \in Tags :
          /\ TableType = "PackedTable" /\ TableType' = TableType
          /\ \/ \E kickout \in BOOLEAN : Packed!InsertTagToBucket(b, t, kickout)
             \/ Packed!DeleteTagFromBucket(b, t)
  BY DEF PackedCall
<1>2. Packed!ReadBucket(b) = TagsRead(b)
  BY <1>1, Zenon DEF TagsRead
<1>3. TagsOK /\ TagsRead(b) \in [1 .. 4 -> Tags \union {0}]
  BY <1>1, PackedTagsOK DEF TagsOK
\* A write returns TRUE, and puts a tag in place of 0 or 0 in place of the tag.
<1>4. ASSUME NEW j \in 1 .. 4, NEW x \in {0, t}, NEW y \in {0, t}, x # y,
             TagsRead(b)[j] = x, Packed!WriteBucket(b, [TagsRead(b) EXCEPT ![j] = y]),
             Packed!Return(TRUE, 0)
      PROVE  mem' \subseteq Packed!Bits /\ PackedOK' /\ CallOK
  <2>1. /\ PackedOK' /\ TagsOK' /\ mem' \subseteq Packed!Bits
        /\ Table!Replace(b, TagsRead(b)[j], y)
    BY <1>1, <1>4, PackedPut
  <2>2. Table!Replace(b, x, y)
    BY <1>4, <2>1, Zenon
  <2>3. ok' = TRUE /\ oldtag' = 0
    BY <1>4 DEF Packed!Return
  <2>4. (x = 0 /\ y = t) \/ (x = t /\ y = 0)
    BY <1>4
  <2> QED
    BY <2>1, <2>2, <2>3, <2>4, TableSteps DEF CallOK
\* Nothing is written, and FALSE returned.
<1>5. ASSUME UNCHANGED mem, Packed!Return(FALSE, 0)
      PROVE  mem' \subseteq Packed!Bits /\ PackedOK' /\ CallOK
  <2>1. ok' = FALSE /\ oldtag' = 0
    BY <1>5 DEF Packed!Return
  <2>2. Table!Refuse
    BY <1>1, <1>5, <2>1, RefuseStep
  <2>3. PackedOK'
    BY <1>5 DEF PackedOK, Packs
  <2>4. TagsOK'
    BY <1>1, <2>3, PackedTagsOK
  <2> QED
    BY <1>5, <2>1, <2>2, <2>3, <2>4, TableSteps DEF CallOK
\* A tag is kicked out of a full bucket.
<1>6. ASSUME NEW r \in 1 .. 4, ~Packed!Holds(TagsRead(b), 0),
             Packed!WriteBucket(b, [TagsRead(b) EXCEPT ![r] = t]),
             Packed!Return(FALSE, TagsRead(b)[r])
      PROVE  mem' \subseteq Packed!Bits /\ PackedOK' /\ CallOK
  <2>1. /\ PackedOK' /\ TagsOK' /\ mem' \subseteq Packed!Bits
        /\ Table!Replace(b, TagsRead(b)[r], t)
    BY <1>1, <1>6, PackedPut
  <2>2. ok' = FALSE /\ oldtag' = TagsRead(b)[r]
    BY <1>6 DEF Packed!Return
  <2>3. \A k \in 1 .. 4 : TagsRead(b)[k] # 0
    BY <1>6 DEF Packed!Holds
  <2>4. Table!KickOut(b, t)
    BY <1>3, <2>1, <2>2, <2>3, FullStep
  <2>5. oldtag' \in Tags \union {0}
    BY <1>3, <2>2
  <2> QED
    BY <2>1, <2>2, <2>4, <2>5, TableSteps DEF CallOK
<1>7. t # 0
  BY TagsNat
<1>8. ASSUME NEW kickout \in BOOLEAN, Packed!InsertTagToBucket(b, t, kickout)
      PROVE  mem' \subseteq Packed!Bits /\ PackedOK' /\ CallOK
  BY <1>2, <1>4, <1>5, <1>6, <1>7, <1>8 DEF Packed!InsertTagToBucket, Packed!First
<1>9. ASSUME Packed!DeleteTagFromBucket(b, t)
      PROVE  mem' \subseteq Packed!Bits /\ PackedOK' /\ CallOK
  BY <1>2, <1>4, <1>5, <1>7, <1>9 DEF Packed!DeleteTagFromBucket, Packed!First
<1> QED
  BY <1>1, <1>8, <1>9

------------------------------------------------------------------------------
(* The table is empty at first.                                             *)

LEMMA EmptyTags ==
    ASSUME TablesInit, NEW b \in Buckets
    PROVE  /\ TagsRead(b) = [j \in 1 .. 4 |-> 0]
           /\ TableType = "PackedTable" => Packs(mem, b, [j \in 1 .. 4 |-> 0])
<1> DEFINE zero == [j \in 1 .. 4 |-> 0]
<1>1. b \in Nat
  BY DEF Buckets
<1>2. mem = {}
  BY DEF TablesInit, Single!Init, Packed!Init
<1>3. CASE TableType = "SingleTable"
  <2>1. ASSUME NEW j \in 1 .. 4 PROVE SingleTag(mem, b, j - 1) = 0
    <3>1. j - 1 \in 0 .. 3
      OBVIOUS
    <3>2. SingleAt(b, j - 1) \in Nat /\ SingleBits \in Nat
      BY <1>1, <3>1, SinglePosition
    <3> QED
      BY <1>2, <3>2, FieldEmpty DEF SingleTag
  <2> QED
    BY <1>1, <1>3, <2>1, SingleTags
<1>4. CASE TableType = "PackedTable"
  <2>1. PackedAt(b) \in Nat /\ Direct \in Nat /\ 12 \in Nat /\ \A j \in 1 .. 4 : DirectAt(b, j) \in Nat
    BY <1>1, PackedPosition
  <2>2. Field(mem, 12)[PackedAt(b)] = 0
    BY <1>2, <2>1, FieldEmpty
  <2>3. \A j \in 1 .. 4 : Field(mem, Direct)[DirectAt(b, j)] = 0
    BY <1>2, <2>1, FieldEmpty
  <2>4. Lows(zero) = zero /\ \A j \in 1 .. 4 : zero[j] \div 16 = 0
    BY DEF Lows, Low
  <2>5. zero \in Ascending /\ idx(zero) = 0
    BY EmptyCodeword
  <2>6. zero \in [1 .. 4 -> Tags \union {0}]
    OBVIOUS
  <2> HIDE DEF zero
  <2>7. Packs(mem, b, zero)
    BY <2>2, <2>3, <2>4, <2>5, <2>6 DEF Packs
  <2>8. TagsRead(b) = zero
    BY <1>1, <1>4, <2>7, PackedTags, PackedRead
  <2> QED
    BY <2>7, <2>8 DEF zero
<1> QED
  BY <1>3, <1>4 DEF TablesInit

------------------------------------------------------------------------------
(* The inductive invariant.                                                 *)

TablesInv ==
    /\ TablesTypeOK
    /\ TableType = "PackedTable" => PackedOK

LEMMA TagsTyped ==
    /\ (\A b \in Buckets, j \in 1 .. 4 : TagsRead(b)[j] \in Tags \union {0}) <=> TagsOK
    /\ (\A b \in Buckets, j \in 1 .. 4 : TagsRead(b)'[j] \in Tags \union {0}) <=> TagsOK'
<1>1. \A b \in Buckets : b \in Nat
  BY DEF Buckets
<1>2. \A b \in Buckets : /\ TagsRead(b) = [j \in 1 .. 4 |-> TagsRead(b)[j]]
                         /\ TagsRead(b)' = [j \in 1 .. 4 |-> TagsRead(b)'[j]]
  BY DEF TagsRead, Packed!ReadBucket
<1> QED
  BY <1>2 DEF TagsOK

LEMMA InitTables == ASSUME TablesInit PROVE TablesInv
<1>1. /\ TableType \in {"SingleTable", "PackedTable"} /\ mem = {}
      /\ ok \in BOOLEAN /\ oldtag \in Tags \union {0}
  BY DEF TablesInit, Single!Init, Packed!Init
<1>2. \A b \in Buckets, j \in 1 .. 4 : TagsRead(b)[j] \in Tags \union {0}
  BY EmptyTags
<1>3. TableType = "PackedTable" => PackedOK
  BY EmptyTags DEF PackedOK
<1> QED
  BY <1>1, <1>2, <1>3 DEF TablesInv, TablesTypeOK

\* One step keeps the invariant, and is a step of the abstract table.
LEMMA NextTables ==
    ASSUME SingleBits # 2, TablesInv, [TablesNext]_tableVars
    PROVE  TablesInv' /\ [Table!Next]_(Table!vars)
<1>1. TagsOK /\ (TableType = "SingleTable" => mem \subseteq Single!Bits)
      /\ (TableType = "PackedTable" => mem \subseteq Packed!Bits /\ PackedOK)
  BY TagsTyped DEF TablesInv, TablesTypeOK
<1>2. CASE SingleCall
  <2>1. TableType = "SingleTable"
    BY <1>2 DEF SingleCall
  <2>2. TableType' = "SingleTable" /\ mem' \subseteq Single!Bits /\ CallOK
    BY <1>1, <1>2, <2>1, SingleCallStep
  <2>3. "SingleTable" # "PackedTable" /\ Single!Bits' = Single!Bits
    BY DEF Single!Bits, Single!kBytesPerBucket, Single!kPaddingBuckets
  <2>4. \A b \in Buckets, j \in 1 .. 4 : TagsRead(b)'[j] \in Tags \union {0}
    BY <2>2, TagsTyped DEF CallOK
  <2> QED
    BY <2>2, <2>3, <2>4 DEF TablesInv, TablesTypeOK, CallOK
<1>3. CASE PackedCall
  <2>1. TableType = "PackedTable"
    BY <1>3 DEF PackedCall
  <2>2. TableType' = "PackedTable" /\ mem' \subseteq Packed!Bits /\ PackedOK' /\ CallOK
    BY <1>1, <1>3, <2>1, PackedCallStep
  <2>4. \A b \in Buckets, j \in 1 .. 4 : TagsRead(b)'[j] \in Tags \union {0}
    BY <2>2, TagsTyped DEF CallOK
  <2> QED
    BY <2>2, <2>4 DEF TablesInv, TablesTypeOK, CallOK
<1>4. CASE UNCHANGED tableVars
  <2>1. TableType' = TableType /\ mem' = mem /\ ok' = ok /\ oldtag' = oldtag
    BY <1>4 DEF tableVars
  <2>2. \A b : TagsRead(b)' = TagsRead(b)
    BY <2>1 DEF TagsRead, Single!ReadTag, Packed!ReadBucket, Packed!ReadTag
  <2>3. UNCHANGED [b \in Buckets |-> Contents(b)]
    BY <2>2 DEF Contents
  <2>4. PackedOK' <=> PackedOK
    BY <2>1 DEF PackedOK, Packs
  <2>5. TablesInv'
    BY <2>1, <2>2, <2>4 DEF TablesInv, TablesTypeOK
  <2>6. UNCHANGED Table!vars
    BY <2>1, <2>3 DEF Table!vars
  <2> QED
    BY <2>5, <2>6
<1> QED
  BY <1>2, <1>3, <1>4 DEF TablesNext

LEMMA TagsThere ==
    ASSUME TagsOK, NEW b \in Buckets, NEW t \in Tags
    PROVE  Contents(b)[t] > 0 <=> \E j \in 1 .. 4 : TagsRead(b)[j] = t
<1>1. TagsRead(b) \in [1 .. 4 -> Nat]
  <2>1. TagsRead(b) \in [1 .. 4 -> Tags \union {0}]
    BY DEF TagsOK
  <2> QED
    BY <2>1, FourNat
<1>2. Contents(b)[t] = Times(TagsRead(b), t)
  BY <1>1, CountTimes DEF Contents
<1> DEFINE s == TagsRead(b)
<1>3. Times(s, t) > 0 <=> s[1] = t \/ s[2] = t \/ s[3] = t \/ s[4] = t
  BY DEF Times, One
<1>4. (\E j \in 1 .. 4 : s[j] = t) <=> s[1] = t \/ s[2] = t \/ s[3] = t \/ s[4] = t
  <2>1. 1 .. 4 = {1, 2, 3, 4}
    OBVIOUS
  <2> QED
    BY <2>1, Zenon
<1> QED
  BY <1>2, <1>3, <1>4

LEMMA FoundWhatIsThere == ASSUME PackedBits = 13, TablesInv PROVE FindsExactly
<1> SUFFICES ASSUME NEW b1 \in Buckets, NEW b2 \in Buckets, NEW t \in Tags
             PROVE  LET there == Contents(b1)[t] > 0 \/ Contents(b2)[t] > 0
                    IN IF TableType = "SingleTable"
                       THEN Single!FindTagInBuckets(b1, b2, t, t) <=> there
                       ELSE Packed!FindTagInBuckets(b1, b2, t) <=> there
  BY DEF FindsExactly
<1>1. TagsOK
  BY TagsTyped DEF TablesInv, TablesTypeOK
<1>2. b1 \in Nat /\ b2 \in Nat
  BY DEF Buckets
<1>3. \A b \in {b1, b2} : Contents(b)[t] > 0 <=> \E j \in 1 .. 4 : TagsRead(b)[j] = t
  BY <1>1, TagsThere
<1>4. CASE TableType = "SingleTable"
  <2>1. t \in 0 .. pow2[SingleBits] - 1
    BY TagsNat, TagsAssumption
  <2>2. ASSUME NEW b \in {b1, b2}
        PROVE  Single!FindTagInBucket(b, t) <=> \E j \in 1 .. 4 : TagsRead(b)[j] = t
    <3>1. b \in Nat
      BY <1>2
    <3>2. Single!FindTagInBucket(b, t) <=> \E j \in 0 .. 3 : SingleTag(mem, b, j) = t
      BY <2>1, <3>1, SingleFind
    <3>3. TagsRead(b) = [j \in 1 .. 4 |-> SingleTag(mem, b, j - 1)]
      BY <1>4, <3>1, SingleTags
    <3>4. \A j \in 1 .. 4 : j - 1 \in 0 .. 3
      OBVIOUS
    <3>5. \A j \in 0 .. 3 : j + 1 \in 1 .. 4 /\ (j + 1) - 1 = j
      OBVIOUS
    <3> QED
      BY <3>2, <3>3, <3>4, <3>5
  <2> QED
    BY <1>3, <1>4, <2>2 DEF Single!FindTagInBuckets
<1>5. CASE TableType = "PackedTable"
  <2>1. ASSUME NEW b \in {b1, b2}, NEW j \in 1 .. 4
        PROVE  Packed!ShiftedTag(b, j) = TagsRead(b)[j]
    <3>1. b \in Nat
      BY <1>2
    <3>2. TagsRead(b)[j] = Packed!ReadTag(b, j)
      BY <1>5 DEF TagsRead, Packed!ReadBucket
    <3>3. Packed!BucketAt(b) = 8 * Packed!ByteOf(b)
      <4>1. Packed!ByteOf(b) \in Int
        BY <3>1, TagsAssumption DEF Packed!ByteOf, Packed!kBitsPerBucket, Packed!kDirBitsPerTag
      <4> QED
        BY <4>1 DEF Packed!BucketAt
    <3>4. Packed!kDirBitsPerTag = 9
      BY DEF Packed!kDirBitsPerTag
    <3> QED
      BY <3>2, <3>3, <3>4 DEF Packed!ReadTag, Packed!ShiftedTag
  <2> QED
    BY <1>3, <1>5, <2>1 DEF Packed!FindTagInBuckets
<1> QED
  BY <1>4, <1>5 DEF TablesInv, TablesTypeOK

LEMMA TableInit == ASSUME TablesInit PROVE Table!Init
<1>1. ok = TRUE /\ oldtag = 0
  BY DEF TablesInit, Single!Init, Packed!Init
<1> DEFINE zero == [j \in 1 .. 4 |-> 0]
<1>2. ASSUME NEW b \in Buckets
      PROVE  Contents(b) = [t \in Tags \union {0} |-> IF t = 0 THEN 4 ELSE 0]
  <2>1. TagsRead(b) = zero
    BY EmptyTags
  <2>2. zero \in [1 .. 4 -> Nat] /\ zero[1] = 0 /\ zero[2] = 0 /\ zero[3] = 0 /\ zero[4] = 0
    OBVIOUS
  <2> HIDE DEF zero
  <2>3. Contents(b) = [t \in Tags \union {0} |-> Times(zero, t)]
    BY <2>1, <2>2, CountTimes DEF Contents
  <2>4. \A t : Times(zero, t) = IF t = 0 THEN 4 ELSE 0
    BY <2>2 DEF Times, One
  <2> QED
    BY <2>3, <2>4
<1>3. Table!Buckets = Buckets
  BY DEF Table!Buckets, Buckets
<1> QED
  BY <1>1, <1>2, <1>3 DEF Table!Init

------------------------------------------------------------------------------
(* Theorems.                                                                *)

\* Every tag read from a table is one that was written, in whole, and no write
\* leaves the array: for every number of buckets, every set of tags and every
\* width but two bits, where WriteTag leaves the old tag's bits in place.
THEOREM TableTypes == SingleBits # 2 => (TablesSpec => []TablesTypeOK)
<1> SUFFICES ASSUME SingleBits # 2 PROVE TablesSpec => []TablesTypeOK
  OBVIOUS
<1>1. TablesInit => TablesInv
  BY InitTables
<1>2. TablesInv /\ [TablesNext]_tableVars => TablesInv'
  BY NextTables
<1>3. TablesInv => TablesTypeOK
  BY DEF TablesInv
<1> QED
  BY <1>1, <1>2, <1>3, PTL DEF TablesSpec

\* haszero's one subtraction for four lanes, and PackedTable's search with its
\* own shifts, answer as a look at each tag would, if a PackedTable's tags have
\* the 13 bits that those shifts are written for.
THEOREM ExactSearch ==
    SingleBits # 2 /\ PackedBits = 13 => (TablesSpec => []FindsExactly)
<1> SUFFICES ASSUME SingleBits # 2, PackedBits = 13 PROVE TablesSpec => []FindsExactly
  OBVIOUS
<1>1. TablesInit => TablesInv
  BY InitTables
<1>2. TablesInv /\ [TablesNext]_tableVars => TablesInv'
  BY NextTables
<1>3. TablesInv => FindsExactly
  BY FoundWhatIsThere
<1> QED
  BY <1>1, <1>2, <1>3, PTL DEF TablesSpec

\* Both tables implement the abstract one: a call exchanges the one tag it is
\* about, whatever sorting, encoding, packing and masking does to the bytes.
THEOREM TablesRefine == SingleBits # 2 => (TablesSpec => ImplementsTagTable)
<1> SUFFICES ASSUME SingleBits # 2 PROVE TablesSpec => ImplementsTagTable
  OBVIOUS
<1>1. TablesInit => TablesInv /\ Table!Init
  BY InitTables, TableInit
<1>2. TablesInv /\ [TablesNext]_tableVars => TablesInv' /\ [Table!Next]_(Table!vars)
  BY NextTables
<1> QED
  BY <1>1, <1>2, PTL DEF TablesSpec, ImplementsTagTable, Table!Spec
==============================================================================
