-------------------------- MODULE Containers_proofs --------------------------
(***************************************************************************)
(* Proofs about Containers: for every width of a size_t and every number   *)
(* of elements, containers have room for what they are made for, the hash  *)
(* table and the filter agree on fingerprints and indexes, and a block     *)
(* filter finds what was added.                                            *)
(***************************************************************************)
EXTENDS Containers, NatFacts

------------------------------------------------------------------------------
(* Numbers of a size_t.                                                     *)

SizeLimit == pow2[SizeBits]

LEMMA Pow2Small ==
    /\ pow2[1] = 2 /\ pow2[3] = 8 /\ pow2[8] = 256
<1>1. /\ pow2[0 + 1] = 2 * pow2[0] /\ pow2[1 + 1] = 2 * pow2[1] /\ pow2[2 + 1] = 2 * pow2[2]
      /\ pow2[3 + 1] = 2 * pow2[3] /\ pow2[4 + 1] = 2 * pow2[4] /\ pow2[5 + 1] = 2 * pow2[5]
      /\ pow2[6 + 1] = 2 * pow2[6] /\ pow2[7 + 1] = 2 * pow2[7]
  BY Pow2Facts
<1>2. pow2[0] = 1
  BY Pow2Facts
<1> QED
  BY <1>1, <1>2

LEMMA SizeFacts ==
    /\ SizeBits \in Nat /\ SizeBits >= 8
    /\ SizeLimit \in Nat /\ SizeLimit >= 256
    /\ pow2[SizeBits - 1] \in Nat /\ SizeLimit = 2 * pow2[SizeBits - 1]
<1>1. 3 \in Nat /\ LogSizeBits \in Nat /\ 3 <= LogSizeBits
  BY SizeAssumption
<1>2. SizeBits \in Nat /\ SizeBits >= 8
  <2>1. pow2[3] <= pow2[LogSizeBits] /\ pow2[LogSizeBits] \in Nat
    BY <1>1, Pow2Monotone, Pow2Facts
  <2> QED
    BY <2>1, Pow2Small DEF SizeBits
<1>3. SizeLimit \in Nat /\ SizeLimit >= 256
  <2>1. 8 \in Nat /\ pow2[8] <= pow2[SizeBits] /\ pow2[SizeBits] \in Nat
    BY <1>2, Pow2Monotone, Pow2Facts
  <2> QED
    BY <2>1, Pow2Small DEF SizeLimit
<1>4. SizeBits - 1 \in Nat /\ SizeBits = (SizeBits - 1) + 1
  BY <1>2
<1>5. pow2[SizeBits - 1] \in Nat /\ SizeLimit = 2 * pow2[SizeBits - 1]
  BY <1>4, Pow2Facts DEF SizeLimit
<1> QED
  BY <1>2, <1>3, <1>5

LEMMA SizeTFacts ==
    /\ \A x \in Int : SizeT(x) \in 0 .. SizeLimit - 1
    /\ \A x \in 0 .. SizeLimit - 1 : SizeT(x) = x
    /\ \A x \in SizeLimit .. 2 * SizeLimit - 1 : SizeT(x) = x - SizeLimit
    /\ \A x \in 1 .. SizeLimit : SizeT(-x) = SizeLimit - x
<1> DEFINE m == SizeLimit
<1>1. m \in Nat \ {0} /\ \A x : SizeT(x) = x % m
  BY SizeFacts DEF SizeT, SizeLimit
<1> HIDE DEF m
<1>2. \A x \in Int : SizeT(x) \in 0 .. m - 1
  BY <1>1, IntQuotient
<1>3. \A x \in 0 .. m - 1 : SizeT(x) = x
  BY <1>1, Small
<1>4. ASSUME NEW x \in m .. 2 * m - 1 PROVE SizeT(x) = x - m
  <2>1. x - m \in 0 .. m - 1 /\ m * 1 + (x - m) = x /\ 1 \in Int
    BY <1>1
  <2>2. (m * 1 + (x - m)) % m = x - m
    BY <1>1, <2>1, QuotientUnique
  <2> QED
    BY <1>1, <2>1, <2>2
<1>5. ASSUME NEW x \in 1 .. m PROVE SizeT(-x) = m - x
  <2>1. m - x \in 0 .. m - 1 /\ m * (-1) + (m - x) = -x /\ -1 \in Int
    BY <1>1
  <2>2. (m * (-1) + (m - x)) % m = m - x
    BY <1>1, <2>1, QuotientUnique
  <2> QED
    BY <1>1, <2>1, <2>2
<1> QED
  BY <1>2, <1>3, <1>4, <1>5 DEF m

\* The least power of two that is not below x, by its exponent.
IsCeilLog2(h, x) ==
    /\ h \in Nat
    /\ x <= pow2[h]
    /\ h = 0 \/ (h - 1 \in Nat /\ pow2[h] = 2 * pow2[h - 1] /\ pow2[h - 1] < x)

LEMMA CeilLog2Exists ==
    ASSUME NEW x \in Nat
    PROVE  \E h : /\ IsCeilLog2(h, x)
                  /\ \A l \in 0 .. h - 1 : pow2[l] < x
                  /\ \A n2 \in Nat : x <= pow2[n2] => h <= n2
<1> DEFINE T == {h \in Nat : x <= pow2[h]}
<1>1. \A h \in Nat : pow2[h] \in Nat /\ pow2[h] > h
  BY Pow2Facts
<1>2. x \in T
  BY <1>1
<1>3. PICK h \in T : \A l \in T : h <= l
  <2>1. T \in SUBSET Nat /\ T # {}
    BY <1>2
  <2> HIDE DEF T
  <2> QED
    BY <2>1, LeastElement
<1>4. \A l \in 0 .. h - 1 : pow2[l] < x
  <2> SUFFICES ASSUME NEW l \in 0 .. h - 1 PROVE pow2[l] < x
    OBVIOUS
  <2>1. l \in Nat /\ l \notin T
    BY <1>3
  <2> QED
    BY <1>1, <2>1
<1>5. h # 0 => h - 1 \in Nat /\ pow2[h] = 2 * pow2[h - 1] /\ pow2[h - 1] < x
  <2> SUFFICES ASSUME h # 0 PROVE h - 1 \in Nat /\ pow2[h] = 2 * pow2[h - 1] /\ pow2[h - 1] < x
    OBVIOUS
  <2>1. h - 1 \in Nat /\ (h - 1) + 1 = h /\ h - 1 \in 0 .. h - 1
    OBVIOUS
  <2>2. pow2[(h - 1) + 1] = 2 * pow2[h - 1]
    BY <2>1, Pow2Facts
  <2> QED
    BY <1>4, <2>1, <2>2
<1>6. IsCeilLog2(h, x)
  BY <1>5 DEF IsCeilLog2
<1>7. \A n2 \in Nat : x <= pow2[n2] => h <= n2
  BY <1>3
<1> QED
  BY <1>4, <1>6, <1>7

LEMMA CeilLog2Facts ==
    ASSUME NEW x \in 0 .. SizeLimit
    PROVE  CeilLog2(x) \in 0 .. SizeBits /\ IsCeilLog2(CeilLog2(x), x)
<1> DEFINE P(h) == pow2[h] >= x /\ \A l \in 0 .. h - 1 : pow2[l] < x
           c == CHOOSE hp \in 0 .. SizeBits : P(hp)
<1>1. x \in Nat /\ SizeLimit \in Nat /\ SizeBits \in Nat /\ x <= pow2[SizeBits]
  BY SizeFacts DEF SizeLimit
<1>2. PICK h : /\ IsCeilLog2(h, x)
               /\ \A l \in 0 .. h - 1 : pow2[l] < x
               /\ \A n2 \in Nat : x <= pow2[n2] => h <= n2
  BY <1>1, CeilLog2Exists
<1>3. h \in 0 .. SizeBits /\ pow2[h] \in Nat
  BY <1>1, <1>2, Pow2Facts DEF IsCeilLog2
<1>4. P(h)
  BY <1>1, <1>2, <1>3 DEF IsCeilLog2
<1>5. c \in 0 .. SizeBits /\ P(c)
  <2> HIDE DEF P
  <2> QED
    BY <1>3, <1>4
<1> HIDE DEF c
<1>6. c = h
  <2>1. c \in Nat /\ pow2[c] \in Nat
    BY <1>1, <1>5, Pow2Facts
  <2>2. ~(c < h)
    BY <1>1, <1>2, <1>3, <1>5, <2>1
  <2>3. ~(h < c)
    BY <1>1, <1>3, <1>4, <1>5, <2>1
  <2> QED
    BY <1>3, <2>1, <2>2, <2>3
<1>7. CeilLog2(x) = c
  BY DEF CeilLog2, c
<1> QED
  BY <1>2, <1>3, <1>6, <1>7

------------------------------------------------------------------------------
(* upperpower2: the or-shifts fill all bits below the highest.              *)

LEMMA OrShiftsFunction ==
    ASSUME NEW x \in Int
    PROVE  /\ OrShifts(x)[0] = SizeT(x - 1)
           /\ \A k \in Nat : OrShifts(x)[k + 1] =
                  Or(SizeBits, OrShifts(x)[k], OrShifts(x)[k] \div pow2[pow2[k]])
           /\ \A k \in Nat : OrShifts(x)[k] \in 0 .. SizeLimit - 1
<1> DEFINE X == 0 .. SizeLimit - 1
           Shifted(y, k) == Or(SizeBits, y, y \div pow2[pow2[k]])
           step == [p \in X \X Nat |-> Shifted(p[1], p[2])]
           x0 == SizeT(x - 1)
           g == CHOOSE f : f = [k \in Nat |-> IF k = 0 THEN x0 ELSE Shifted(f[k - 1], k - 1)]
<1>1. x0 \in X
  BY SizeTFacts
<1>2. \A y, k : Shifted(y, k) \in X
  BY SizeFacts, OrBits DEF SizeLimit
<1>3. OrShifts(x) = g
  <2>1. OrShifts(x) = CHOOSE f : f = [k \in Nat |->
            IF k = 0 THEN SizeT(x - 1) ELSE Or(SizeBits, f[k - 1], f[k - 1] \div pow2[pow2[k - 1]])]
    BY DEF OrShifts
  <2> QED
    BY <2>1
<1> HIDE DEF X, Shifted, x0
<1>4. IsStep(step, X)
  BY <1>2 DEF IsStep
<1>5. \A y \in X, k \in Nat : step[<<y, k>>] = Shifted(y, k)
  OBVIOUS
<1> HIDE DEF step
<1>6. PICK f \in [Nat -> X] : IsRecursion(f, x0, step)
  BY <1>1, <1>4, RecursionExists
<1>7. \A k \in Nat : k # 0 => step[<<f[k - 1], k - 1>>] = Shifted(f[k - 1], k - 1)
  <2>1. \A k \in Nat : k # 0 => k - 1 \in Nat /\ f[k - 1] \in X
    BY <1>6
  <2> QED
    BY <1>5, <2>1
<1>8. f = [k \in Nat |-> IF k = 0 THEN x0 ELSE Shifted(f[k - 1], k - 1)]
  BY <1>6, <1>7, Zenon DEF IsRecursion
<1>9. g = [k \in Nat |-> IF k = 0 THEN x0 ELSE Shifted(g[k - 1], k - 1)]
  BY <1>8, Zenon
<1> HIDE DEF g
<1>10. g[0] = x0
  BY <1>9
<1>11. ASSUME NEW k \in Nat PROVE g[k + 1] = Shifted(g[k], k)
  <2>1. k + 1 \in Nat /\ k + 1 # 0 /\ (k + 1) - 1 = k
    OBVIOUS
  <2> QED
    BY <1>9, <2>1
<1>12. ASSUME NEW k \in Nat PROVE g[k] \in X
  BY <1>1, <1>2, <1>9
<1> QED
  BY <1>3, <1>10, <1>11, <1>12 DEF X, Shifted, x0

\* After k of them, a bit is one if one of it and the 2^k - 1 bits above was.
LEMMA OrShiftsBits ==
    ASSUME NEW x \in Int
    PROVE  \A k \in Nat : \A j \in 0 .. SizeBits - 1 :
              Bit(OrShifts(x)[k], j) = 1
                 <=> \E i \in 0 .. SizeBits - 1 :
                        Bit(SizeT(x - 1), i) = 1 /\ j <= i /\ i < j + pow2[k]
<1> DEFINE W == SizeBits
           y == SizeT(x - 1)
           f(k) == OrShifts(x)[k]
           One(i) == Bit(y, i) = 1
           Filled(k) == \A j \in 0 .. W - 1 :
                           Bit(f(k), j) = 1 <=> \E i \in 0 .. W - 1 : One(i) /\ j <= i /\ i < j + pow2[k]
           S == {k \in Nat : Filled(k)}
<1>1. W \in Nat
  BY SizeFacts
<1>2. f(0) = y /\ \A k \in Nat : f(k + 1) = Or(W, f(k), f(k) \div pow2[pow2[k]]) /\ f(k) \in 0 .. pow2[W] - 1
  BY OrShiftsFunction DEF SizeLimit
<1> HIDE DEF W, f
<1>3. Filled(0)
  <2>1. pow2[0] = 1
    BY Pow2Facts
  <2>2. \A i, j \in 0 .. W - 1 : (j <= i /\ i < j + 1) <=> i = j
    OBVIOUS
  <2>3. \A j \in 0 .. W - 1 : Bit(f(0), j) = 1 <=> One(j)
    BY <1>2
  <2> HIDE DEF One
  <2> QED
    BY <2>1, <2>2, <2>3
<1> HIDE DEF One, y
<1>4. ASSUME NEW k \in Nat, Filled(k) PROVE Filled(k + 1)
  <2> SUFFICES ASSUME NEW j \in 0 .. W - 1
               PROVE  Bit(f(k + 1), j) = 1
                        <=> \E i \in 0 .. W - 1 : One(i) /\ j <= i /\ i < j + pow2[k + 1]
    OBVIOUS
  <2> DEFINE s == pow2[k]
  <2>1. s \in Nat /\ pow2[k + 1] = 2 * s /\ pow2[pow2[k]] = pow2[s] /\ s > 0
    BY Pow2Facts
  <2>2. f(k) \in Int /\ f(k) \in 0 .. pow2[W] - 1
    <3>1. pow2[W] \in Nat
      BY <1>1, Pow2Facts
    <3> QED
      BY <1>2, <3>1
  <2>3. Bit(f(k + 1), j) = 1 <=> Bit(f(k), j) = 1 \/ Bit(f(k) \div pow2[s], j) = 1
    <3> DEFINE q == f(k) \div pow2[s]
    <3>1. f(k + 1) = Or(W, f(k), q)
      BY <1>2
    <3> HIDE DEF q
    <3>2. Bit(Or(W, f(k), q), j) = 1 <=> Bit(f(k), j) = 1 \/ Bit(q, j) = 1
      BY <1>1, OrBits
    <3> QED
      BY <3>1, <3>2 DEF q
  <2>4. Bit(f(k) \div pow2[s], j) = Bit(f(k), s + j)
    <3> HIDE DEF s
    <3> QED
      BY <2>1, <2>2, BitShifted
  <2>5. Bit(f(k), j) = 1 <=> \E i \in 0 .. W - 1 : One(i) /\ j <= i /\ i < j + s
    BY <1>4
  <2>6. Bit(f(k), s + j) = 1 <=> \E i \in 0 .. W - 1 : One(i) /\ s + j <= i /\ i < (s + j) + s
    <3>1. CASE s + j \in 0 .. W - 1
      BY <1>4, <3>1
    <3>2. CASE s + j \notin 0 .. W - 1
      <4> HIDE DEF s
      <4>1. s + j \in Nat /\ W <= s + j
        BY <1>1, <2>1, <3>2
      <4>2. Bit(f(k), s + j) = 0
        BY <1>1, <2>2, <4>1, NoBitBeyond
      <4>3. ~\E i \in 0 .. W - 1 : s + j <= i
        BY <1>1, <4>1
      <4> QED
        BY <4>2, <4>3
    <3> QED
      BY <3>1, <3>2
  <2> HIDE DEF s, Filled
  <2>7. \A i \in 0 .. W - 1 : (j <= i /\ i < j + 2 * s)
           <=> (j <= i /\ i < j + s) \/ (s + j <= i /\ i < (s + j) + s)
    BY <1>1, <2>1
  <2>8. (\E i \in 0 .. W - 1 : One(i) /\ j <= i /\ i < j + pow2[k + 1])
          <=> Bit(f(k), j) = 1 \/ Bit(f(k), s + j) = 1
    BY <2>1, <2>5, <2>6, <2>7
  <2> QED
    BY <2>3, <2>4, <2>8
<1>5. \A k \in Nat : k \in S
  <2> HIDE DEF Filled
  <2>1. 0 \in S /\ \A k \in Nat : k \in S => k + 1 \in S
    BY <1>3, <1>4
  <2> HIDE DEF S
  <2> QED
    BY <2>1, NatInductionInSet
<1> QED
  BY <1>5 DEF S, Filled, f, One, y, W

LEMMA UpperPower ==
    ASSUME NEW x \in 1 .. SizeLimit - 1
    PROVE  \E h \in 0 .. SizeBits : IsCeilLog2(h, x) /\ upperpower2(x) = SizeT(pow2[h])
<1> DEFINE W == SizeBits
           y == x - 1
           z == OrShifts(x)[LogSizeBits]
<1>1. W \in Nat /\ SizeLimit \in Nat /\ SizeLimit = pow2[W] /\ LogSizeBits \in Nat /\ pow2[LogSizeBits] = W
  BY SizeFacts, SizeAssumption DEF SizeLimit, SizeBits
<1>2. x \in Nat /\ x \in 0 .. SizeLimit /\ x \in Int /\ y \in Nat /\ y \in 0 .. SizeLimit - 1 /\ SizeT(x - 1) = y
  BY <1>1, SizeTFacts
<1>3. PICK h : h \in 0 .. W /\ IsCeilLog2(h, x)
  BY <1>2, CeilLog2Facts
<1>4. z \in 0 .. pow2[W] - 1
  BY <1>1, <1>2, OrShiftsFunction
<1>5. \A j \in 0 .. W - 1 : Bit(z, j) = 1 <=> \E i \in 0 .. W - 1 : Bit(y, i) = 1 /\ j <= i /\ i < j + W
  BY <1>1, <1>2, OrShiftsBits
<1> HIDE DEF W, z
<1>6. h \in Nat /\ pow2[h] \in Nat /\ pow2[h] > 0 /\ y < pow2[h] /\ (h # 0 => h - 1 \in Nat /\ pow2[h - 1] <= y)
      /\ (h # 0 => pow2[h] = 2 * pow2[h - 1] /\ pow2[h - 1] \in Nat \ {0})
  <2>1. h \in Nat /\ pow2[h] \in Nat /\ pow2[h] > 0
    BY <1>3, Pow2Facts DEF IsCeilLog2
  <2>2. h # 0 => h - 1 \in Nat /\ pow2[h - 1] \in Nat \ {0} /\ pow2[h] = 2 * pow2[h - 1] /\ pow2[h - 1] < x
    BY <1>3, Pow2Facts DEF IsCeilLog2
  <2>3. x <= pow2[h]
    BY <1>3 DEF IsCeilLog2
  <2> QED
    BY <1>2, <2>1, <2>2, <2>3
<1>7. \A i \in Nat : h <= i => Bit(y, i) = 0
  <2>1. y \in 0 .. pow2[h] - 1
    BY <1>2, <1>6
  <2> HIDE DEF y
  <2> QED
    BY <1>6, <2>1, NoBitBeyond
<1>8. h # 0 => Bit(y, h - 1) = 1
  <2> SUFFICES ASSUME h # 0 PROVE Bit(y, h - 1) = 1
    OBVIOUS
  <2> DEFINE p == pow2[h - 1]
             r == y - p
  <2>1. p \in Nat \ {0} /\ r \in 0 .. p - 1 /\ 1 \in Int /\ p * 1 + r = y
    BY <1>2, <1>6
  <2> HIDE DEF p, r
  <2>2. (p * 1 + r) \div p = 1
    BY <2>1, QuotientUnique
  <2>3. y \div p = 1
    BY <2>1, <2>2
  <2> QED
    BY <2>3 DEF Bit, p
<1> HIDE DEF y
<1>9. ASSUME NEW j \in 0 .. W - 1 PROVE Bit(z, j) = 1 <=> j < h
  <2>1. ASSUME j < h PROVE Bit(z, j) = 1
    <3>1. h - 1 \in 0 .. W - 1 /\ j <= h - 1 /\ h - 1 < j + W /\ h # 0
      BY <1>1, <1>3, <1>6, <2>1
    <3> QED
      BY <1>5, <1>8, <3>1
  <2>2. ASSUME Bit(z, j) = 1 PROVE j < h
    <3>1. PICK i \in 0 .. W - 1 : Bit(y, i) = 1 /\ j <= i
      BY <1>5, <2>2
    <3>2. i < h
      BY <1>6, <1>7, <3>1
    <3> QED
      BY <1>6, <3>1, <3>2
  <2> QED
    BY <2>1, <2>2
<1> DEFINE m == pow2[h] - 1
<1>10. m \in 0 .. pow2[W] - 1
  <2>1. pow2[h] <= pow2[W]
    BY <1>1, <1>3, <1>6, Pow2Monotone
  <2> QED
    BY <1>1, <1>6, <2>1
<1>11. \A j \in 0 .. W - 1 : Bit(m, j) = IF j < h THEN 1 ELSE 0
  BY <1>6, MaskBits
<1> HIDE DEF m
<1>12. \A j \in 0 .. W - 1 : Bit(z, j) = Bit(m, j)
  <2>1. \A j \in 0 .. W - 1 : Bit(z, j) \in {0, 1}
    <3>1. z \in Int /\ \A j \in 0 .. W - 1 : j \in Nat
      BY <1>1, <1>4
    <3> QED
      BY <3>1, BitType
  <2> QED
    BY <1>9, <1>11, <2>1
<1>13. z = m
  BY <1>1, <1>4, <1>10, <1>12, WordsEqual
<1>14. upperpower2(x) = SizeT(pow2[h])
  <2>1. z + 1 = pow2[h]
    BY <1>6, <1>13 DEF m
  <2> QED
    BY <2>1 DEF upperpower2, z
<1> QED
  BY <1>3, <1>14 DEF W

------------------------------------------------------------------------------
(* Numbers of buckets.                                                      *)

\* The two assertions of reserve_calc leave a power of two that a size_t holds.
LEMMA TableSize ==
    ASSUME NEW m \in 0 .. SizeLimit - 1, ReserveAsserts(m)
    PROVE  LET hp == reserve_calc(m)
           IN  /\ hp \in 0 .. SizeBits - 1 /\ IsCeilLog2(hp, BucketsFor(m))
               /\ hashsize(hp) = pow2[hp] /\ pow2[hp] \in 1 .. SizeLimit - 1
               /\ hashmask(hp) = pow2[hp] - 1
<1> DEFINE B == BucketsFor(m)
           hp == reserve_calc(m)
           s == slot_per_bucket
           t == SizeT(m + s - 1)
<1>1. SizeBits \in Nat /\ SizeLimit \in Nat /\ SizeLimit >= 256 /\ s \in Nat \ {0}
  BY SizeFacts, SizeAssumption
<1>2. t \in 0 .. SizeLimit - 1
  <2>1. m + s - 1 \in Int
    BY <1>1
  <2> QED
    BY <2>1, SizeTFacts
<1>3. B \in 0 .. SizeLimit - 1
  <2>1. B = t \div s
    BY DEF BucketsFor
  <2> HIDE DEF B, t, s
  <2>0. t \in Nat /\ s \in Nat \ {0}
    BY <1>1, <1>2
  <2>2. t \div s \in Nat /\ t = s * (t \div s) + (t % s) /\ t % s \in 0 .. s - 1
    BY <2>0, QuotientRemainder
  <2> DEFINE q == t \div s
             r == t % s
  <2>3. q \in Nat /\ r \in Nat /\ t = s * q + r
    BY <1>1, <2>2
  <2> HIDE DEF q, r
  <2>4. q * 1 <= q * s
    BY <1>1, <2>3, TimesMonotone
  <2>5. q * s = s * q /\ s * q \in Nat
    BY <1>1, <2>3
  <2>6. q <= t
    BY <1>2, <2>3, <2>4, <2>5
  <2> QED
    BY <1>1, <1>2, <2>1, <2>3, <2>6 DEF q
<1> HIDE DEF B
<1>4. hp \in 0 .. SizeBits /\ IsCeilLog2(hp, B)
  <2>1. B \in 0 .. SizeLimit
    BY <1>1, <1>3
  <2> QED
    BY <2>1, CeilLog2Facts DEF reserve_calc, B
<1>5. B <= hashsize(hp)
  BY DEF ReserveAsserts, B
<1> HIDE DEF hp
<1>6. hp \in Nat /\ pow2[hp] \in Nat \ {0}
  BY <1>4, Pow2Facts
<1>7. hp # SizeBits
  <2> SUFFICES ASSUME hp = SizeBits PROVE FALSE
    OBVIOUS
  <2>1. hashsize(hp) = 0
    <3>1. SizeLimit \in SizeLimit .. 2 * SizeLimit - 1 /\ SizeLimit - SizeLimit = 0
      BY <1>1
    <3> QED
      BY <3>1, SizeTFacts DEF hashsize, SizeLimit
  <2>2. pow2[hp - 1] < B /\ pow2[hp - 1] \in Nat
    <3>1. hp # 0 /\ hp - 1 \in Nat
      BY SizeFacts
    <3>2. pow2[hp - 1] < B
      BY <1>4, <3>1 DEF IsCeilLog2
    <3> QED
      BY <3>1, <3>2, Pow2Facts
  <2> QED
    BY <1>3, <1>5, <2>1, <2>2
<1>8. hp \in 0 .. SizeBits - 1 /\ pow2[hp] < SizeLimit
  <2>1. hp \in 0 .. SizeBits - 1
    BY <1>1, <1>4, <1>7
  <2>2. 2 * pow2[hp] <= pow2[SizeBits]
    BY <1>1, <1>6, <2>1, Pow2Monotone
  <2> QED
    BY <1>1, <1>6, <2>1, <2>2 DEF SizeLimit
<1>9. pow2[hp] \in 1 .. SizeLimit - 1 /\ hashsize(hp) = pow2[hp]
  <2>1. pow2[hp] \in 1 .. SizeLimit - 1 /\ pow2[hp] \in 0 .. SizeLimit - 1
    BY <1>1, <1>6, <1>8
  <2> QED
    BY <2>1, SizeTFacts DEF hashsize
<1>10. hashmask(hp) = pow2[hp] - 1
  <2>1. pow2[hp] - 1 \in 0 .. SizeLimit - 1
    BY <1>1, <1>9
  <2> QED
    BY <1>9, <2>1, SizeTFacts DEF hashmask
<1> QED
  BY <1>4, <1>8, <1>9, <1>10 DEF hp, B

\* Rounding up does not wrap: as many buckets as m elements fill, no more.
LEMMA BucketsNeeded ==
    ASSUME NEW m \in 0 .. SizeLimit - 1, slot_per_bucket \in 3 .. 12,
           m <= SizeLimit - slot_per_bucket
    PROVE  /\ BucketsFor(m) \in Nat /\ 3 * BucketsFor(m) < SizeLimit
           /\ m <= BucketsFor(m) * slot_per_bucket
           /\ BucketsFor(m) * slot_per_bucket <= m + slot_per_bucket - 1
<1> DEFINE s == slot_per_bucket
           t == m + s - 1
           q == t \div s
           r == t % s
<1>1. SizeLimit \in Nat /\ s \in 3 .. 12 /\ s \in Nat \ {0} /\ t \in 0 .. SizeLimit - 1 /\ t \in Nat
  BY SizeFacts
<1>2. BucketsFor(m) = q
  <2>1. SizeT(t) = t
    BY <1>1, SizeTFacts
  <2> QED
    BY <2>1 DEF BucketsFor
<1>3. q \in Nat /\ r \in 0 .. s - 1 /\ t = s * q + r
  <2> HIDE DEF s, t
  <2> QED
    BY <1>1, QuotientRemainder
<1> HIDE DEF q, r
<1>4. s * q = q * s /\ q * s \in Nat /\ q * 3 <= q * s
  <2>1. 3 \in Nat /\ 3 <= s
    BY <1>1
  <2> QED
    BY <1>1, <1>3, <2>1, TimesMonotone
<1> DEFINE c == q * s
<1>5. t = c + r /\ c \in Nat /\ q * 3 <= c
  BY <1>3, <1>4
<1> HIDE DEF c
<1>6. 3 * q < SizeLimit /\ m <= c /\ c <= m + s - 1
  BY <1>1, <1>3, <1>5
<1> QED
  BY <1>2, <1>3, <1>6 DEF c

LEMMA TableAsserts ==
    ASSUME NEW m \in 0 .. SizeLimit - 1, slot_per_bucket \in 3 .. 12,
           m <= SizeLimit - slot_per_bucket
    PROVE  ReserveAsserts(m)
<1> DEFINE B == BucketsFor(m)
           c == B * slot_per_bucket
           hp == reserve_calc(m)
<1>1. SizeLimit \in Nat /\ SizeBits \in Nat /\ SizeLimit = pow2[SizeBits]
      /\ SizeLimit = 2 * pow2[SizeBits - 1] /\ pow2[SizeBits - 1] \in Nat /\ SizeBits >= 8
  BY SizeFacts DEF SizeLimit
<1>2. B \in Nat /\ 3 * B < SizeLimit /\ m <= c /\ c <= m + slot_per_bucket - 1
  BY BucketsNeeded
<1>3. c \in Nat
  <2>1. slot_per_bucket \in Nat
    OBVIOUS
  <2> HIDE DEF B
  <2> QED
    BY <1>2, <2>1
<1> HIDE DEF c
<1>4. m <= SizeT(c)
  <2>1. c \in 0 .. SizeLimit - 1
    BY <1>1, <1>2, <1>3
  <2> QED
    BY <1>2, <2>1, SizeTFacts
<1> HIDE DEF B
<1>5. hp \in 0 .. SizeBits /\ IsCeilLog2(hp, B)
  <2>1. B \in 0 .. SizeLimit
    BY <1>1, <1>2
  <2> QED
    BY <2>1, CeilLog2Facts DEF reserve_calc, B
<1> HIDE DEF hp
<1>6. hp # SizeBits
  <2> SUFFICES ASSUME hp = SizeBits PROVE FALSE
    OBVIOUS
  <2>1. pow2[SizeBits - 1] < B
    BY <1>1, <1>5 DEF IsCeilLog2
  <2> QED
    BY <1>1, <1>2, <2>1
<1>7. B <= hashsize(hp)
  <2>1. hp \in Nat /\ hp < SizeBits /\ pow2[hp] \in Nat
    BY <1>1, <1>5, <1>6, Pow2Facts
  <2>2. 2 * pow2[hp] <= SizeLimit
    BY <1>1, <2>1, Pow2Monotone
  <2>3. pow2[hp] \in 0 .. SizeLimit - 1
    BY SizeFacts, <2>1, <2>2
  <2>4. hashsize(hp) = pow2[hp]
    BY <2>3, SizeTFacts DEF hashsize
  <2> QED
    BY <1>5, <2>4 DEF IsCeilLog2
<1> QED
  BY <1>4, <1>7 DEF ReserveAsserts, c, B, hp

\* A table that passes the assertions has room, and is the smallest that has.
LEMMA TableRoom ==
    ASSUME NEW m \in 0 .. SizeLimit - 1, slot_per_bucket \in 3 .. 12, ReserveAsserts(m)
    PROVE  LET nb == hashsize(reserve_calc(m))
           IN  m <= nb * slot_per_bucket /\ (nb = 1 \/ nb * slot_per_bucket < 2 * m)
<1> DEFINE s == slot_per_bucket
           B == BucketsFor(m)
           hp == reserve_calc(m)
           u == pow2[hp]
<1>1. SizeLimit \in Nat /\ SizeLimit >= 256 /\ s \in 3 .. 12 /\ s \in Nat
  BY SizeFacts
<1>2. IsCeilLog2(hp, B) /\ hashsize(hp) = u /\ u \in 1 .. SizeLimit - 1 /\ hp \in 0 .. SizeBits - 1
  BY TableSize
<1>3. m <= SizeLimit - s
  <2> SUFFICES ASSUME m > SizeLimit - s PROVE FALSE
    BY <1>1
  <2>1. m + s - 1 \in SizeLimit .. 2 * SizeLimit - 1 /\ (m + s - 1) - SizeLimit \in 0 .. s - 1
    BY <1>1
  <2>2. SizeT(m + s - 1) = (m + s - 1) - SizeLimit
    <3> DEFINE x == m + s - 1
    <3>1. x \in SizeLimit .. 2 * SizeLimit - 1
      BY <2>1
    <3> HIDE DEF x
    <3>2. SizeT(x) = x - SizeLimit
      BY <3>1, SizeTFacts
    <3> QED
      BY <3>2 DEF x
  <2> DEFINE y == (m + s - 1) - SizeLimit
  <2>3. y \in 0 .. s - 1
    BY <2>1
  <2> HIDE DEF y, s
  <2>4. y \div s = 0
    BY <1>1, <2>3, Small
  <2>5. BucketsFor(m) = 0
    BY <2>2, <2>4 DEF BucketsFor, y, s
  <2>6. 0 * s = 0 /\ SizeT(0) = 0
    <3>1. 0 \in 0 .. SizeLimit - 1 /\ 0 * s = 0
      BY <1>1
    <3> QED
      BY <3>1, SizeTFacts
  <2>7. m <= 0
    BY <2>5, <2>6 DEF ReserveAsserts, s
  <2> QED
    BY <1>1, <2>7
<1>4. B \in Nat /\ m <= B * s /\ B * s <= m + s - 1
  BY <1>3, BucketsNeeded
<1> HIDE DEF u, B, hp, s
<1>5. B <= u /\ u \in Nat
  BY <1>1, <1>2 DEF IsCeilLog2, u
<1>6. m <= u * s
  <2>1. s * B <= s * u /\ s * B = B * s /\ s * u = u * s /\ B * s \in Nat /\ u * s \in Nat
    BY <1>1, <1>4, <1>5, TimesMonotone
  <2> QED
    BY <1>4, <2>1
<1>7. u = 1 \/ u * s < 2 * m
  <2>1. CASE hp = 0
    BY <2>1, Pow2Facts DEF u
  <2>2. CASE hp # 0
    <3> DEFINE v == pow2[hp - 1]
    <3>1. u = 2 * v /\ v < B /\ v \in Nat
      BY <1>2, <2>2, Pow2Facts DEF IsCeilLog2, u
    <3> HIDE DEF v
    <3>2. v + 1 <= B /\ v + 1 \in Nat
      BY <1>4, <3>1
    <3>3. s * (v + 1) <= s * B /\ s * (v + 1) = s * v + s /\ s * B = B * s
          /\ s * v \in Nat /\ B * s \in Nat
      BY <1>1, <1>4, <3>1, <3>2, TimesMonotone
    <3>4. u * s = 2 * (s * v)
      BY <1>1, <3>1
    <3> DEFINE x == s * v
               y == B * s
               z == u * s
    <3>5. x + s <= y /\ y <= m + s - 1 /\ z = 2 * x /\ x \in Nat /\ y \in Nat
      BY <1>4, <3>3, <3>4
    <3> HIDE DEF x, y, z
    <3>6. z < 2 * m
      BY <1>1, <3>5
    <3> QED
      BY <3>6 DEF z
  <2> QED
    BY <2>1, <2>2
<1> QED
  BY <1>2, <1>6, <1>7 DEF s, hp

\* What main asks for exceeds its load of 95% by less than one element.
LEMMA InitSize ==
    ASSUME NEW m \in Nat, 2 * m <= SizeLimit - 1
    PROVE  /\ init_size(m) \in Nat
           /\ m <= init_size(m) /\ init_size(m) <= SizeLimit - 12
           /\ m <= SizeLimit - 12
           /\ 20 * m < 19 * (init_size(m) + 1)
<1> DEFINE q == (20 * m) \div 19
<1>1. q \in Nat /\ 19 * q <= 20 * m /\ 20 * m < 19 * (q + 1)
  OBVIOUS
<1>2. init_size(m) = q
  BY DEF init_size
<1> HIDE DEF q
<1>3. m <= q /\ q <= SizeLimit - 12 /\ m <= SizeLimit - 12
  BY <1>1, SizeFacts
<1> QED
  BY <1>1, <1>2, <1>3

\* The filter has a power of two of buckets.  With one or two slots to a bucket
\* doubling them could wrap to 0; with more than 12 a load above 0.96 could be
\* left, of the 2 * slot_per_bucket - 1 keys that are given one bucket first.
LEMMA FilterSize ==
    ASSUME NEW m \in 0 .. SizeLimit - 1, slot_per_bucket >= 3
    PROVE  /\ \E h \in 0 .. SizeBits - 1 : FilterBuckets(m) = pow2[h]
           /\ FilterBuckets(m) \in 1 .. SizeLimit - 1
           /\ slot_per_bucket <= 12 => 100 * m <= 96 * (FilterBuckets(m) * slot_per_bucket)
<1> DEFINE s == slot_per_bucket
           q == m \div s
           F == FullBuckets(m)
<1>1. SizeLimit \in Nat /\ SizeLimit >= 256 /\ s \in Nat \ {0} /\ s >= 3 /\ m \in Nat
      /\ SizeBits \in Nat /\ SizeLimit = pow2[SizeBits]
  BY SizeFacts, SizeAssumption DEF SizeLimit
<1>2. q \in Nat /\ F = (IF q > 1 THEN q ELSE 1) /\ m < s * q + s /\ s * q <= m /\ s * q \in Nat
  <2>1. F = (IF q > 1 THEN q ELSE 1)
    BY DEF FullBuckets
  <2> HIDE DEF s, F
  <2> DEFINE r == m % s
  <2>2. q \in Nat /\ r \in 0 .. s - 1 /\ m = s * q + r
    BY <1>1, QuotientRemainder
  <2> HIDE DEF q, r
  <2>3. s * q \in Nat
    BY <1>1, <2>2
  <2> DEFINE c == s * q
  <2>4. c \in Nat /\ m = c + r
    BY <2>2, <2>3
  <2> HIDE DEF c
  <2>5. m < c + s /\ c <= m
    BY <1>1, <2>2, <2>4
  <2> QED
    BY <2>1, <2>2, <2>4, <2>5 DEF c
<1> HIDE DEF s, q, F
<1>3. F \in Nat /\ F >= 1 /\ (q >= 1 => F = q) /\ (q = 0 => F = 1)
  BY <1>2
<1>4. 3 * q <= m
  <2>1. q * 3 <= q * s /\ q * s = s * q
    <3>1. 3 \in Nat /\ 3 <= s
      BY <1>1
    <3> QED
      BY <1>1, <1>2, <3>1, TimesMonotone
  <2> QED
    BY <1>1, <1>2, <2>1
<1>5. F \in 1 .. SizeLimit - 1
  BY <1>1, <1>2, <1>3, <1>4
<1>6. PICK h \in 0 .. SizeBits : IsCeilLog2(h, F) /\ upperpower2(F) = SizeT(pow2[h])
  BY <1>5, UpperPower
<1> DEFINE u == pow2[h]
<1>7. h \in Nat /\ u \in Nat /\ u >= 1 /\ F <= u
  BY <1>6, Pow2Facts DEF IsCeilLog2
<1>8. u = 1 \/ \E v \in Nat : v >= 1 /\ u = 2 * v /\ v < F
  <2>1. CASE h = 0
    BY <2>1, Pow2Facts
  <2>2. CASE h # 0
    <3>1. h - 1 \in Nat /\ pow2[h] = 2 * pow2[h - 1] /\ pow2[h - 1] < F
      BY <1>6, <2>2 DEF IsCeilLog2
    <3>2. pow2[h - 1] \in Nat /\ pow2[h - 1] > h - 1
      BY <3>1, Pow2Facts
    <3>3. pow2[h - 1] >= 1
      BY <1>7, <3>1, <3>2
    <3> QED
      BY <3>1, <3>2, <3>3
  <2> QED
    BY <2>1, <2>2
<1>9. upperpower2(F) = u /\ u < SizeLimit
  <2>1. u < SizeLimit
    <3>1. CASE u = 1
      BY <1>1, <3>1
    <3>2. ASSUME NEW v \in Nat, v >= 1, u = 2 * v, v < F PROVE u < SizeLimit
      BY <1>1, <1>2, <1>3, <1>4, <3>2
    <3> QED
      BY <1>8, <3>1, <3>2
  <2>2. u \in 0 .. SizeLimit - 1
    BY <1>1, <1>7, <2>1
  <2>3. SizeT(u) = u
    BY <2>2, SizeTFacts
  <2> QED
    BY <1>6, <2>1, <2>3
<1> DEFINE c == u * s
           full == 100 * m > 96 * c
<1>10. c \in Nat /\ 3 * u <= c /\ s * F <= c /\ s * F \in Nat
  <2>1. s * F <= s * u /\ s * u = u * s /\ u * 3 <= u * s /\ u * s \in Nat /\ s * F \in Nat
    <3>1. 3 \in Nat /\ 3 <= s /\ s \in Nat
      BY <1>1
    <3> HIDE DEF u
    <3>2. s * F <= s * u
      BY <1>3, <1>7, <3>1, TimesMonotone
    <3>3. u * 3 <= u * s
      BY <1>7, <3>1, TimesMonotone
    <3> QED
      BY <1>3, <1>7, <3>1, <3>2, <3>3
  <2> QED
    BY <1>7, <2>1
<1>11. FilterBuckets(m) = IF full THEN SizeT(2 * u) ELSE u
  <2>1. (96 * u) * s = 96 * (u * s)
    BY <1>1, <1>7
  <2> QED
    BY <1>9, <2>1 DEF FilterBuckets, F, s
<1> HIDE DEF u
<1>12. CASE ~full
  <2>1. FilterBuckets(m) = pow2[h] /\ FilterBuckets(m) \in 1 .. SizeLimit - 1
    BY <1>1, <1>7, <1>9, <1>11, <1>12 DEF u
  <2>2. h # SizeBits
    BY <1>1, <1>9 DEF u
  <2>3. h \in 0 .. SizeBits - 1
    BY <1>1, <2>2
  <2>4. 100 * m <= 96 * c
    <3> HIDE DEF c
    <3> QED
      BY <1>1, <1>10, <1>12
  <2> QED
    BY <1>11, <1>12, <2>1, <2>3, <2>4 DEF s
<1>13. CASE full
  <2>1. 2 * u \in 1 .. SizeLimit - 1
    <3> HIDE DEF c
    <3> QED
      BY <1>1, <1>7, <1>10, <1>13
  <2>2. FilterBuckets(m) = 2 * u
    <3>1. 2 * u \in 0 .. SizeLimit - 1
      BY <1>1, <2>1
    <3>2. SizeT(2 * u) = 2 * u
      BY <3>1, SizeTFacts
    <3> QED
      BY <1>11, <1>13, <3>2
  <2>3. 2 * u = pow2[h + 1] /\ h + 1 \in 0 .. SizeBits - 1
    <3>1. 2 * u = pow2[h + 1] /\ h + 1 \in Nat
      BY <1>7, Pow2Facts DEF u
    <3>2. ~(SizeBits <= h + 1)
      <4> SUFFICES ASSUME SizeBits <= h + 1 PROVE FALSE
        OBVIOUS
      <4>1. pow2[SizeBits] <= pow2[h + 1]
        BY <1>1, <3>1, Pow2Monotone
      <4> QED
        BY <1>1, <2>1, <3>1, <4>1
    <3> QED
      BY <1>1, <1>7, <3>1, <3>2
  <2>4. ASSUME s <= 12 PROVE 100 * m <= 96 * (2 * c)
    <3>1. m < s * q + s /\ s * q \in Nat /\ m \in Nat /\ s \in Nat /\ c \in Nat
      BY <1>1, <1>2, <1>10
    <3>2. CASE q >= 2
      <4>1. s * q <= c /\ 2 * s <= s * q
        <5>1. F = q
          BY <1>2, <1>3, <3>2
        <5>2. 2 \in Nat /\ s * 2 <= s * q /\ s * 2 = 2 * s
          BY <1>1, <1>2, <3>2, TimesMonotone
        <5> QED
          BY <1>10, <5>1, <5>2
      <4> DEFINE a == s * q
      <4> HIDE DEF a, c
      <4> QED
        BY <3>1, <4>1 DEF a
    <3>3. CASE q = 1
      <4>1. s * q = s /\ s * F = s
        BY <1>1, <1>3, <3>3
      <4> HIDE DEF c
      <4> QED
        BY <1>10, <2>4, <3>1, <4>1
    <3>4. CASE q = 0
      <4>1. s * q = 0 /\ s * F = s
        BY <1>1, <1>3, <3>4
      <4> HIDE DEF c
      <4> QED
        BY <1>10, <2>4, <3>1, <4>1
    <3> QED
      BY <1>2, <3>2, <3>3, <3>4
  <2>5. (2 * u) * s = 2 * c
    BY <1>1, <1>7
  <2> QED
    BY <2>1, <2>2, <2>3, <2>4, <2>5 DEF s
<1> QED
  BY <1>12, <1>13

\* A block filter has a byte to a key, in two buckets at least.
LEMMA BlockSize ==
    ASSUME NEW m \in 1 .. SizeLimit - 1, NEW k,
           k = IF CeilLog2(m) - LOG_BUCKET_BYTE_SIZE > 1
               THEN CeilLog2(m) - LOG_BUCKET_BYTE_SIZE ELSE 1
    PROVE  /\ k \in Nat \ {0}
           /\ pow2[k + LOG_BUCKET_BYTE_SIZE] >= m
           /\ pow2[k + LOG_BUCKET_BYTE_SIZE] < 2 * m \/ k = 1
<1> DEFINE h == CeilLog2(m)
           d == LOG_BUCKET_BYTE_SIZE
<1>1. m \in Nat /\ m >= 1 /\ d \in Nat /\ SizeBits \in Nat
  BY SizeFacts, BlockAssumption
<1>2. h \in 0 .. SizeBits /\ IsCeilLog2(h, m)
  <2>1. m \in 0 .. SizeLimit
    BY SizeFacts
  <2> QED
    BY <2>1, CeilLog2Facts
<1> HIDE DEF h, d
<1>3. h \in Nat /\ k = IF h - d > 1 THEN h - d ELSE 1
  BY <1>1, <1>2 DEF h, d
<1>4. k \in Nat \ {0} /\ h <= k + d /\ k + d \in Nat
  BY <1>1, <1>3
<1>5. pow2[h] <= pow2[k + d] /\ pow2[h] \in Nat /\ pow2[k + d] \in Nat /\ m <= pow2[h]
  BY <1>2, <1>3, <1>4, Pow2Monotone, Pow2Facts DEF IsCeilLog2
<1>6. k = 1 \/ pow2[k + d] < 2 * m
  <2> SUFFICES ASSUME k # 1 PROVE pow2[k + d] < 2 * m
    OBVIOUS
  <2>1. k + d = h /\ h # 0
    BY <1>1, <1>3
  <2>2. pow2[h] = 2 * pow2[h - 1] /\ pow2[h - 1] < m /\ h - 1 \in Nat
    BY <1>2, <2>1 DEF IsCeilLog2
  <2>3. pow2[h - 1] \in Nat
    BY <2>2, Pow2Facts
  <2> QED
    BY <1>1, <2>1, <2>2, <2>3
<1> QED
  BY <1>1, <1>4, <1>5, <1>6 DEF d

------------------------------------------------------------------------------
(* Fingerprints and indexes.                                                *)

LEMMA FewerBits ==
    ASSUME NEW w \in Nat, NEW x \in 0 .. pow2[w] - 1, NEW y \in 0 .. pow2[w] - 1,
           \A k \in 0 .. w - 1 : Bit(x, k) = 1 => Bit(y, k) = 1
    PROVE  x <= y
<1> DEFINE S == {j \in Nat : j <= w => x % pow2[j] <= y % pow2[j]}
<1>1. x \in Int /\ y \in Int /\ \A j \in Nat : pow2[j] \in Nat \ {0}
  BY Pow2Facts
<1>2. 0 \in S
  <2>1. pow2[0] = 1 /\ x % 1 = 0 /\ y % 1 = 0
    BY <1>1, Pow2Facts
  <2> QED
    BY <2>1
<1>3. ASSUME NEW j \in Nat, j \in S PROVE j + 1 \in S
  <2> SUFFICES ASSUME j + 1 <= w PROVE x % pow2[j + 1] <= y % pow2[j + 1]
    OBVIOUS
  <2>1. x % pow2[j] <= y % pow2[j] /\ j \in 0 .. w - 1
    BY <1>3
  <2>2. /\ x % pow2[j + 1] = pow2[j] * Bit(x, j) + (x % pow2[j])
        /\ y % pow2[j + 1] = pow2[j] * Bit(y, j) + (y % pow2[j])
    BY <1>1, HighestBit
  <2>3. Bit(x, j) \in {0, 1} /\ Bit(y, j) \in {0, 1} /\ (Bit(x, j) = 1 => Bit(y, j) = 1)
    BY <1>1, <2>1, BitType
  <2>4. x % pow2[j] \in 0 .. pow2[j] - 1 /\ y % pow2[j] \in 0 .. pow2[j] - 1 /\ pow2[j] \in Nat
    BY <1>1, IntQuotient
  <2> DEFINE p == pow2[j]
             a == Bit(x, j)
             b == Bit(y, j)
             e == x % p
             f == y % p
  <2>5. e <= f /\ e \in Int /\ f \in Int /\ p \in Nat /\ f >= 0 /\ e < p
    BY <2>1, <2>4
  <2> HIDE DEF p, a, b, e, f
  <2>6. a \in {0, 1} /\ b \in {0, 1} /\ (a = 1 => b = 1)
    BY <2>3 DEF a, b
  <2>7. p * a + e <= p * b + f
    BY <2>5, <2>6
  <2> QED
    BY <2>2, <2>7 DEF p, a, b, e, f
<1> HIDE DEF S
<1>4. w \in S
  BY <1>2, <1>3, NatInductionInSet
<1>5. x % pow2[w] = x /\ y % pow2[w] = y
  BY <1>1, Small
<1> QED
  BY <1>4, <1>5 DEF S

\* A number cut by the mask NumBuckets - 1, whatever the number of buckets.
Cut(nb, x) == And(SizeBits, x, nb - 1)

LEMMA CutBits ==
    ASSUME NEW nb \in 1 .. SizeLimit - 1, NEW x
    PROVE  /\ Cut(nb, x) \in 0 .. nb - 1
           /\ Cut(nb, x) \in 0 .. pow2[SizeBits] - 1
           /\ \A k \in 0 .. SizeBits - 1 :
                 Bit(Cut(nb, x), k) = 1 <=> Bit(x, k) = 1 /\ Bit(nb - 1, k) = 1
<1> DEFINE c == Cut(nb, x)
           m == nb - 1
<1>1. SizeBits \in Nat /\ SizeLimit = pow2[SizeBits] /\ SizeLimit \in Nat
  BY SizeFacts DEF SizeLimit
<1>2. c \in 0 .. pow2[SizeBits] - 1
      /\ \A k \in 0 .. SizeBits - 1 : Bit(c, k) = 1 <=> Bit(x, k) = 1 /\ Bit(m, k) = 1
  BY <1>1, AndBits DEF Cut
<1>3. m \in 0 .. pow2[SizeBits] - 1 /\ m \in Nat
  BY <1>1
<1> HIDE DEF c, m
<1>4. c <= m
  BY <1>1, <1>2, <1>3, FewerBits
<1>5. c \in 0 .. m
  BY <1>1, <1>2, <1>3, <1>4
<1> QED
  BY <1>2, <1>5 DEF c, m

\* The second application of the same exclusive or undoes the first.
LEMMA CutXor ==
    ASSUME NEW nb \in 1 .. SizeLimit - 1, NEW x, NEW p \in Int
    PROVE  /\ Cut(nb, Cut(nb, x)) = Cut(nb, x)
           /\ Cut(nb, Xor(SizeBits, Cut(nb, Xor(SizeBits, Cut(nb, x), p)), p)) = Cut(nb, x)
<1> DEFINE W == SizeBits
           m == nb - 1
           b == Cut(nb, x)
           b2 == Cut(nb, b)
           y == Xor(W, b, p)
           a == Cut(nb, y)
           z == Xor(W, a, p)
           e == Cut(nb, z)
<1>1. W \in Nat
  BY SizeFacts
<1>2. /\ b \in 0 .. pow2[W] - 1 /\ \A k \in 0 .. W - 1 : Bit(b, k) = 1 <=> Bit(x, k) = 1 /\ Bit(m, k) = 1
      /\ b2 \in 0 .. pow2[W] - 1 /\ \A k \in 0 .. W - 1 : Bit(b2, k) = 1 <=> Bit(b, k) = 1 /\ Bit(m, k) = 1
      /\ a \in 0 .. pow2[W] - 1 /\ \A k \in 0 .. W - 1 : Bit(a, k) = 1 <=> Bit(y, k) = 1 /\ Bit(m, k) = 1
      /\ e \in 0 .. pow2[W] - 1 /\ \A k \in 0 .. W - 1 : Bit(e, k) = 1 <=> Bit(z, k) = 1 /\ Bit(m, k) = 1
  BY CutBits
<1>3. /\ \A k \in 0 .. W - 1 : Bit(y, k) = 1 <=> Bit(b, k) # Bit(p, k)
      /\ \A k \in 0 .. W - 1 : Bit(z, k) = 1 <=> Bit(a, k) # Bit(p, k)
  BY <1>1, XorBits
<1>4. b \in Int /\ b2 \in Int /\ a \in Int /\ e \in Int
  BY <1>1, <1>2
<1> HIDE DEF W, m, b, b2, y, a, z, e
<1>5. ASSUME NEW k \in 0 .. W - 1
      PROVE  /\ Bit(b, k) \in {0, 1} /\ Bit(b2, k) \in {0, 1} /\ Bit(a, k) \in {0, 1}
             /\ Bit(e, k) \in {0, 1} /\ Bit(p, k) \in {0, 1}
  <2>1. k \in Nat
    BY <1>1
  <2> QED
    BY <1>4, <2>1, BitType
<1>6. \A k \in 0 .. W - 1 : Bit(b2, k) = Bit(b, k)
  BY <1>2, <1>5
<1>7. \A k \in 0 .. W - 1 : Bit(e, k) = Bit(b, k)
  BY <1>2, <1>3, <1>5
<1>8. b2 = b /\ e = b
  BY <1>1, <1>2, <1>6, <1>7, WordsEqual
<1> QED
  BY <1>8 DEF W, b, b2, y, a, z, e

LEMMA FloorLog2Facts ==
    ASSUME NEW x \in Nat \ {0}
    PROVE  /\ FloorLog2(x) \in Nat
           /\ \A h \in Nat : x = pow2[h] => FloorLog2(x) = h
<1> DEFINE P(h) == pow2[h] <= x /\ x < pow2[h + 1]
           c == CHOOSE hp \in 0 .. x : P(hp)
<1>1. \A h \in Nat : pow2[h] \in Nat /\ pow2[h] > h /\ pow2[h + 1] = 2 * pow2[h] /\ h + 1 \in Nat
  BY Pow2Facts
<1>2. \E h \in 0 .. x : P(h)
  <2>1. x + 1 \in Nat
    OBVIOUS
  <2>2. PICK k : IsCeilLog2(k, x + 1)
    BY <2>1, CeilLog2Exists
  <2>3. k # 0
    BY <2>2, Pow2Facts DEF IsCeilLog2
  <2>4. k - 1 \in Nat /\ pow2[k - 1] < x + 1 /\ x + 1 <= pow2[k] /\ (k - 1) + 1 = k /\ k \in Nat
    BY <2>2, <2>3 DEF IsCeilLog2
  <2> DEFINE h == k - 1
  <2>5. h \in Nat /\ pow2[h] < x + 1 /\ x + 1 <= pow2[h + 1]
    BY <2>4
  <2> HIDE DEF h
  <2>6. pow2[h] \in Nat /\ pow2[h] > h /\ pow2[h + 1] \in Nat
    BY <1>1, <2>5
  <2>7. h \in 0 .. x /\ P(h)
    BY <2>5, <2>6
  <2> QED
    BY <2>7
<1> HIDE DEF P
<1>3. c \in 0 .. x /\ P(c)
  BY <1>2
<1>4. FloorLog2(x) = c
  BY DEF FloorLog2, P
<1> HIDE DEF c
<1>5. ASSUME NEW h \in Nat, x = pow2[h] PROVE c = h
  <2>1. c \in Nat /\ pow2[c] <= pow2[h] /\ pow2[h] < pow2[c + 1]
    BY <1>3, <1>5 DEF P
  <2>2. ~(h < c)
    <3> SUFFICES ASSUME h < c PROVE FALSE
      OBVIOUS
    <3>1. 2 * pow2[h] <= pow2[c]
      BY <2>1, Pow2Monotone
    <3> QED
      BY <1>1, <2>1, <3>1
  <2>3. ~(c < h)
    <3> SUFFICES ASSUME c < h PROVE FALSE
      OBVIOUS
    <3>1. c + 1 <= h /\ c + 1 \in Nat
      BY <2>1
    <3>2. pow2[c + 1] <= pow2[h]
      BY <3>1, Pow2Monotone
    <3> QED
      BY <1>1, <2>1, <3>1, <3>2
  <2> QED
    BY <2>1, <2>2, <2>3
<1> QED
  BY <1>3, <1>4, <1>5

\* AltIndex is an exclusive or with some number, cut.
LEMMA AltIndexForm ==
    ASSUME NEW nb \in 1 .. SizeLimit - 1, NEW key \in AllKeys
    PROVE  \E p \in Int : \A b : AltIndex(nb, b, key) = Cut(nb, Xor(SizeBits, b, p))
<1> DEFINE hp == FloorLog2(nb)
           q == key \div pow2[hp]
           p == Product(q + 1)
<1>1. nb \in Nat \ {0} /\ key \in Int /\ Murmur \in Int
  BY SizeFacts, WidthAssumption DEF AllKeys, SizeLimit
<1>2. hp \in Nat
  BY <1>1, FloorLog2Facts
<1> HIDE DEF hp
<1>3. pow2[hp] \in Nat \ {0}
  BY <1>2, Pow2Facts
<1>4. q \in Int
  BY <1>1, <1>3, IntQuotient
<1> HIDE DEF q
<1>5. (q + 1) * Murmur \in Int
  BY <1>1, <1>4
<1>6. p \in Int
  BY <1>5, SizeTFacts, SizeFacts DEF Product
<1>7. \A b : AltIndex(nb, b, key) = Cut(nb, Xor(SizeBits, b, p))
  BY DEF AltIndex, Cut, hp, q
<1> HIDE DEF p
<1> QED
  BY <1>6, <1>7

\* The filter's indexes are in range, and the alternate one leads back.
LEMMA IndexesInRange ==
    ASSUME NEW nb \in 1 .. SizeLimit - 1, NEW key \in AllKeys
    PROVE  LET Reachable == {And(SizeBits, b, nb - 1) : b \in 0 .. nb - 1}
           IN  /\ IndexHash(nb, key) \in Reachable
               /\ \A b \in Reachable :
                     LET a == AltIndex(nb, b, key)
                     IN a \in Reachable /\ AltIndex(nb, a, key) = b
<1> DEFINE R == {And(SizeBits, b, nb - 1) : b \in 0 .. nb - 1}
<1>1. ASSUME NEW x PROVE Cut(nb, x) \in R
  <2> DEFINE c == Cut(nb, x)
  <2>1. c \in 0 .. nb - 1
    BY CutBits
  <2>2. Cut(nb, c) = c
    <3>1. 0 \in Int
      OBVIOUS
    <3> QED
      BY <3>1, CutXor
  <2> HIDE DEF c
  <2>3. c = And(SizeBits, c, nb - 1)
    BY <2>2 DEF Cut
  <2>4. c \in R
    BY <2>1, <2>3
  <2> QED
    BY <2>4 DEF c
<1>2. IndexHash(nb, key) \in R
  BY <1>1 DEF IndexHash, Cut
<1>3. PICK p \in Int : \A b : AltIndex(nb, b, key) = Cut(nb, Xor(SizeBits, b, p))
  BY AltIndexForm
<1>4. ASSUME NEW b \in R
      PROVE  AltIndex(nb, b, key) \in R /\ AltIndex(nb, AltIndex(nb, b, key), key) = b
  <2>1. PICK x : b = Cut(nb, x)
    BY DEF Cut
  <2>2. Cut(nb, Xor(SizeBits, Cut(nb, Xor(SizeBits, Cut(nb, x), p)), p)) = Cut(nb, x)
    BY <1>3, CutXor
  <2> QED
    BY <1>1, <1>3, <2>1, <2>2
<1> QED
  BY <1>2, <1>4

\* Fingerprints are never 0 and have bits_per_key bits, in table and filter.
LEMMA Fingerprints ==
    ASSUME NEW key \in AllKeys
    PROVE  partial_key(key) \in AllTags /\ TagHash(key) = partial_key(key)
<1> DEFINE p == pow2[bits_per_key]
           fp == key % p
<1>1. bits_per_key \in Nat /\ bits_per_key >= 1 /\ key \in Int
  BY SizeFacts, WidthAssumption DEF AllKeys, SizeLimit
<1>2. p \in Nat /\ p > 1
  BY <1>1, Pow2Facts
<1> HIDE DEF p
<1>3. fp \in 0 .. p - 1
  BY <1>1, <1>2, IntQuotient
<1>4. partial_key(key) = (IF fp = 0 THEN 1 ELSE fp) /\ TagHash(key) = fp + (IF fp = 0 THEN 1 ELSE 0)
  BY DEF partial_key, TagHash, p
<1> HIDE DEF fp
<1>5. AllTags = 1 .. p - 1
  BY DEF AllTags, p
<1> QED
  BY <1>2, <1>3, <1>4, <1>5

\* A table of 2^hp buckets and a filter of as many have the same indexes.
LEMMA SameIndexes ==
    ASSUME NEW hp \in Nat, pow2[hp] \in 1 .. SizeLimit - 1, hashmask(hp) = pow2[hp] - 1,
           NEW key, NEW i
    PROVE  /\ index_hash(hp, key) = IndexHash(pow2[hp], key)
           /\ alt_index(hp, key, i) = AltIndex(pow2[hp], i, key)
<1>1. FloorLog2(pow2[hp]) = hp
  <2>1. pow2[hp] \in Nat \ {0}
    BY Pow2Facts
  <2> QED
    BY <2>1, FloorLog2Facts
<1> QED
  BY <1>1 DEF index_hash, IndexHash, alt_index, AltIndex

------------------------------------------------------------------------------
(* How many buckets the tags of one bucket lead to.                         *)

LEMMA OddFactor ==
    ASSUME NEW c \in Int, c % 2 = 1
    PROVE  \A j \in Nat : \A d \in Int : (c * d) % pow2[j] = 0 => d % pow2[j] = 0
<1> DEFINE S == {j \in Nat : \A d \in Int : (c * d) % pow2[j] = 0 => d % pow2[j] = 0}
<1>1. 0 \in S
  <2>1. pow2[0] = 1 /\ \A d \in Int : d % 1 = 0
    BY Pow2Facts
  <2> QED
    BY <2>1
<1>2. ASSUME NEW j \in Nat, j \in S PROVE j + 1 \in S
  <2> SUFFICES ASSUME NEW d \in Int, (c * d) % pow2[j + 1] = 0 PROVE d % pow2[j + 1] = 0
    OBVIOUS
  <2> DEFINE P == pow2[j]
             q == (c * d) \div (2 * P)
             c2 == c \div 2
             e == d \div 2
             r == d % 2
  <2>1. P \in Nat \ {0} /\ pow2[j + 1] = 2 * P /\ 2 * P \in Nat \ {0} /\ c * d \in Int
    BY Pow2Facts
  <2> HIDE DEF P
  <2>2. q \in Int /\ c * d = (2 * P) * q + 0
    <3> DEFINE a == 2 * P
               x == c * d
    <3>1. a \in Nat \ {0} /\ x \in Int /\ x % a = 0
      BY <1>2, <2>1
    <3> HIDE DEF a, x
    <3>2. x \div a \in Int /\ x = a * (x \div a) + (x % a)
      BY <3>1, IntQuotient
    <3>3. x = a * (x \div a) + 0
      BY <3>1, <3>2
    <3> QED
      BY <3>2, <3>3 DEF a, x
  <2>3. c2 \in Int /\ c = 2 * c2 + 1 /\ e \in Int /\ d = 2 * e + r /\ r \in {0, 1}
    OBVIOUS
  <2> HIDE DEF q, c2, e, r
  <2>4. r = 0
    <3>1. CASE r = 1
      <4>1. c * d = 2 * (c * e) + c
        BY <2>3, <3>1
      <4>2. (2 * P) * q = 2 * (P * q)
        BY <2>1, <2>2
      <4> DEFINE x == c * e
                 y == P * q
      <4>3. x \in Int /\ y \in Int
        BY <2>1, <2>2, <2>3
      <4>4. 2 * x + (2 * c2 + 1) = 2 * y
        BY <2>1, <2>2, <2>3, <4>1, <4>2
      <4> HIDE DEF x, y
      <4> QED
        BY <2>3, <4>3, <4>4
    <3> QED
      BY <2>3, <3>1
  <2>5. d = 2 * e
    BY <2>3, <2>4
  <2>6. c * e = P * q
    <3>1. c * d = 2 * (c * e) /\ (2 * P) * q = 2 * (P * q)
      BY <2>1, <2>2, <2>3, <2>5
    <3>2. c * e \in Int /\ P * q \in Int
      BY <2>1, <2>2, <2>3
    <3> DEFINE x == c * e
               y == P * q
    <3>3. 2 * x = 2 * y /\ x \in Int /\ y \in Int
      BY <2>2, <3>1, <3>2
    <3> HIDE DEF x, y
    <3>4. x = y
      BY <3>3
    <3> QED
      BY <3>4 DEF x, y
  <2>7. (c * e) % P = 0
    <3>1. 0 \in 0 .. P - 1
      BY <2>1
    <3>2. (P * q + 0) % P = 0
      BY <2>1, <2>2, <3>1, QuotientUnique
    <3>3. P * q + 0 = P * q
      BY <2>1, <2>2
    <3> QED
      BY <2>6, <3>2, <3>3
  <2>8. e % P = 0
    BY <1>2, <2>3, <2>7 DEF P
  <2> DEFINE k == e \div P
  <2>9. k \in Int /\ e = P * k
    <3>1. e \div P \in Int /\ e = P * (e \div P) + (e % P)
      BY <2>1, <2>3, IntQuotient
    <3>2. P * (e \div P) + 0 = P * (e \div P)
      BY <2>1, <3>1
    <3> QED
      BY <2>8, <3>1, <3>2
  <2> HIDE DEF k
  <2>10. d = (2 * P) * k + 0
    BY <2>1, <2>5, <2>9
  <2>11. d % (2 * P) = 0
    <3> DEFINE a == 2 * P
    <3>1. a \in Nat \ {0} /\ 0 \in 0 .. a - 1 /\ d = a * k + 0
      BY <2>1, <2>10
    <3> HIDE DEF a
    <3>2. (a * k + 0) % a = 0
      BY <2>9, <3>1, QuotientUnique
    <3> QED
      BY <3>1, <3>2 DEF a
  <2> QED
    BY <2>1, <2>11
<1> HIDE DEF S
<1>3. \A j \in Nat : j \in S
  BY <1>1, <1>2, NatInductionInSet
<1> QED
  BY <1>3 DEF S

\* Numbers less than 2^j apart stay apart when multiplied.
LEMMA ProductsApart ==
    ASSUME NEW c \in Int, c % 2 = 1, NEW j \in Nat, NEW a \in Int, NEW b \in Int,
           a < b, b - a < pow2[j]
    PROVE  (a * c) % pow2[j] # (b * c) % pow2[j]
<1> SUFFICES ASSUME (a * c) % pow2[j] = (b * c) % pow2[j] PROVE FALSE
  OBVIOUS
<1> DEFINE P == pow2[j]
           d == b - a
           x == a * c
           y == b * c
           qx == x \div P
           qy == y \div P
           r == x % P
<1>1. P \in Nat \ {0} /\ x \in Int /\ y \in Int /\ d \in 1 .. P - 1
  BY Pow2Facts
<1> HIDE DEF P
<1>2. c * d = y - x
  OBVIOUS
<1> HIDE DEF x, y
<1>3. qx \in Int /\ qy \in Int /\ x = P * qx + r /\ y = P * qy + r /\ r \in Int
  <2>1. y % P = r
    BY DEF P, x, y
  <2> QED
    BY <1>1, <2>1, IntQuotient
<1> HIDE DEF qx, qy, r
<1>4. y - x = P * (qy - qx) + 0 /\ qy - qx \in Int
  <2>1. P * (qy - qx) = P * qy - P * qx /\ P * qy \in Int /\ P * qx \in Int
    BY <1>1, <1>3
  <2> DEFINE u == P * qx
             v == P * qy
  <2>2. x = u + r /\ y = v + r /\ u \in Int /\ v \in Int
    BY <1>3, <2>1
  <2> HIDE DEF u, v
  <2>3. y - x = v - u
    BY <1>3, <2>2
  <2>4. (v - u) + 0 = v - u
    BY <2>2
  <2> QED
    BY <1>3, <2>1, <2>3, <2>4 DEF u, v
<1>5. (c * d) % P = 0
  <2>1. 0 \in 0 .. P - 1
    BY <1>1
  <2> DEFINE k == qy - qx
  <2>2. k \in Int /\ c * d = P * k + 0
    BY <1>2, <1>4
  <2> HIDE DEF k, d
  <2>3. (P * k + 0) % P = 0
    BY <1>1, <2>1, <2>2, QuotientUnique
  <2> QED
    BY <2>2, <2>3
<1>6. d % P = 0
  <2>1. d \in Int
    OBVIOUS
  <2> HIDE DEF d
  <2> QED
    BY <1>5, <2>1, OddFactor DEF P
<1>7. d % P = d
  <2>1. P \in Nat /\ d \in 0 .. P - 1
    BY <1>1
  <2> HIDE DEF d
  <2> QED
    BY <2>1, Small
<1> QED
  BY <1>1, <1>6, <1>7

\* The products of 1 .. top with an odd number are different modulo 2^j, up to
\* the 2^j that there are.
LEMMA ProductsCounted ==
    ASSUME NEW c \in Int, c % 2 = 1, NEW j \in Nat, NEW top \in Nat, top >= 1
    PROVE  Cardinality({(fp * c) % pow2[j] : fp \in 1 .. top}) =
              IF top <= pow2[j] THEN top ELSE pow2[j]
<1> DEFINE P == pow2[j]
           f(x) == (x * c) % P
           Image(n1) == {f(x) : x \in 1 .. n1}
<1>1. P \in Nat \ {0}
  BY Pow2Facts
<1>2. \A x \in Int : f(x) \in 0 .. P - 1
  <2> SUFFICES ASSUME NEW x \in Int PROVE f(x) \in 0 .. P - 1
    OBVIOUS
  <2>1. x * c \in Int
    OBVIOUS
  <2> HIDE DEF P
  <2> QED
    BY <1>1, <2>1, IntQuotient
<1>3. \A a, b \in Int : a < b /\ b - a < P => f(a) # f(b)
  BY ProductsApart
<1> HIDE DEF f, P
<1>4. ASSUME NEW m \in Nat, m <= P PROVE IsFiniteSet(Image(m)) /\ Cardinality(Image(m)) = m
  <2> DEFINE F == [x \in 1 .. m |-> f(x)]
  <2>1. IsFiniteSet(1 .. m) /\ Cardinality(1 .. m) = m
    <3>1. IsFiniteSet(1 .. m) /\ Cardinality(1 .. m) = IF 1 > m THEN 0 ELSE m - 1 + 1
      <4>1. 1 \in Int /\ m \in Int
        OBVIOUS
      <4> QED
        BY <4>1, FS_Interval
    <3> QED
      BY <3>1
  <2>2. F \in Surjection(1 .. m, Image(m))
    BY DEF Surjection
  <2>3. F \in Injection(1 .. m, Image(m))
    <3>1. F \in [1 .. m -> Image(m)]
      OBVIOUS
    <3>2. \A a, b \in 1 .. m : F[a] = F[b] => a = b
      <4> SUFFICES ASSUME NEW a \in 1 .. m, NEW b \in 1 .. m, f(a) = f(b) PROVE a = b
        OBVIOUS
      <4>1. ~(a < b)
        BY <1>1, <1>3, <1>4
      <4>2. ~(b < a)
        BY <1>1, <1>3, <1>4
      <4> QED
        BY <4>1, <4>2
    <3>3. DOMAIN F = 1 .. m
      OBVIOUS
    <3> HIDE DEF F
    <3>4. IsInjective(F)
      BY <3>2, <3>3, Zenon DEF IsInjective
    <3> QED
      BY <3>1, <3>4 DEF Injection
  <2> HIDE DEF F, Image
  <2> QED
    BY <2>1, <2>2, <2>3, FS_Surjection
<1>5. CASE top <= P
  BY <1>4, <1>5 DEF P, f
<1>6. CASE ~(top <= P)
  <2>1. IsFiniteSet(0 .. P - 1) /\ Cardinality(0 .. P - 1) = P
    <3> DEFINE b == P - 1
    <3>1. 0 \in Int /\ b \in Int /\ b >= 0 /\ b - 0 + 1 = P
      BY <1>1
    <3> HIDE DEF b
    <3>2. IsFiniteSet(0 .. b) /\ Cardinality(0 .. b) = IF 0 > b THEN 0 ELSE b - 0 + 1
      BY <3>1, FS_Interval
    <3> QED
      BY <3>1, <3>2 DEF b
  <2>2. Image(top) \in SUBSET (0 .. P - 1)
    <3>1. \A x \in 1 .. top : f(x) \in 0 .. P - 1
      BY <1>2
    <3> QED
      BY <3>1
  <2>3. Image(P) \in SUBSET Image(top)
    <3>1. \A x \in 1 .. P : x \in 1 .. top
      BY <1>1, <1>6
    <3> QED
      BY <3>1
  <2>4. IsFiniteSet(Image(P)) /\ Cardinality(Image(P)) = P
    BY <1>1, <1>4
  <2> HIDE DEF Image
  <2>5. IsFiniteSet(Image(top)) /\ Cardinality(Image(top)) <= P
    BY <2>1, <2>2, FS_Subset
  <2>6. P <= Cardinality(Image(top)) /\ Cardinality(Image(top)) \in Nat
    BY <2>3, <2>4, <2>5, FS_Subset, FS_CardinalityType
  <2>7. Cardinality(Image(top)) = P
    BY <1>1, <2>5, <2>6
  <2> QED
    BY <1>6, <2>7 DEF Image, f, P
<1> QED
  BY <1>5, <1>6

\* From index 0, the alternate index is the product, cut.
LEMMA AltIndexZero ==
    ASSUME NEW h \in 0 .. SizeBits - 1, NEW tag \in Nat
    PROVE  AltIndex(pow2[h], 0, tag) = ((tag \div pow2[h] + 1) * Murmur) % pow2[h]
<1> DEFINE W == SizeBits
           a == pow2[h]
           b == pow2[W - h]
           x == (tag \div a + 1) * Murmur
           p == SizeT(x)
<1>1. W \in Nat /\ h \in Nat /\ W - h \in Nat /\ h \in 0 .. W /\ h + (W - h) = W
  BY SizeFacts
<1>2. a \in Nat \ {0} /\ b \in Nat \ {0} /\ pow2[W] = a * b
  <2>1. pow2[h + (W - h)] = a * b
    BY <1>1, Pow2Split
  <2> QED
    BY <1>1, <2>1, Pow2Facts
<1>3. Murmur \in Int
  BY SizeFacts, WidthAssumption DEF SizeLimit
<1>4. tag \div a \in Int
  <2>1. tag \in Int
    OBVIOUS
  <2> HIDE DEF a
  <2> QED
    BY <1>2, <2>1, IntQuotient
<1>5. x \in Int
  BY <1>3, <1>4
<1>6. p \in 0 .. pow2[W] - 1 /\ p = x % (a * b)
  BY <1>2, <1>5, SizeTFacts DEF SizeT, SizeLimit
<1>7. FloorLog2(a) = h
  BY <1>1, <1>2, FloorLog2Facts
<1>8. AltIndex(a, 0, tag) = And(W, Xor(W, 0, p), a - 1)
  BY <1>7 DEF AltIndex, Product
<1> HIDE DEF W, a, b, x, p
<1>9. p \in Int /\ pow2[W] \in Nat
  BY <1>1, <1>6, Pow2Facts
<1>10. Xor(W, 0, p) = p
  <2> DEFINE y == Xor(W, 0, p)
  <2>1. y \in 0 .. pow2[W] - 1 /\ \A k \in 0 .. W - 1 : Bit(y, k) = 1 <=> Bit(0, k) # Bit(p, k)
    BY <1>1, XorBits
  <2> HIDE DEF y
  <2>2. \A k \in 0 .. W - 1 : Bit(y, k) = Bit(p, k)
    <3> SUFFICES ASSUME NEW k \in 0 .. W - 1 PROVE Bit(y, k) = Bit(p, k)
      OBVIOUS
    <3>1. k \in Nat /\ y \in Int /\ 0 \in Nat /\ 0 <= k
      BY <1>1, <1>9, <2>1
    <3>2. Bit(0, k) = 0
      <4>1. 0 \in 0 .. pow2[0] - 1
        BY Pow2Facts
      <4> QED
        BY <3>1, <4>1, NoBitBeyond
    <3>3. Bit(y, k) \in {0, 1} /\ Bit(p, k) \in {0, 1}
      BY <1>9, <3>1, BitType
    <3> QED
      BY <2>1, <3>2, <3>3
  <2>3. y = p
    BY <1>1, <1>6, <2>1, <2>2, WordsEqual
  <2> QED
    BY <2>3 DEF y
<1>11. And(W, p, a - 1) = p % a
  BY <1>1, <1>9, Masked DEF a
<1>12. p % a = x % a
  BY <1>2, <1>5, <1>6, QuotientTwice
<1> QED
  BY <1>8, <1>10, <1>11, <1>12 DEF a, x

\* The quotients of the tags are the numbers up to that of the largest.
LEMMA TagQuotients ==
    ASSUME NEW nb \in Nat, nb >= 2, NEW top \in Nat, top >= 1
    PROVE  {t \div nb + 1 : t \in 1 .. top} = 1 .. 1 + (top \div nb)
<1> DEFINE Q == {t \div nb + 1 : t \in 1 .. top}
           R == top \div nb
<1>1. R \in Nat /\ top = nb * R + (top % nb) /\ top % nb \in 0 .. nb - 1
  <2>1. nb \in Nat \ {0}
    OBVIOUS
  <2> QED
    BY <2>1, QuotientRemainder
<1>2. ASSUME NEW t \in 1 .. top PROVE t \div nb + 1 \in 1 .. 1 + R
  <2> DEFINE q == t \div nb
  <2>1. t \in Nat /\ nb \in Nat \ {0}
    OBVIOUS
  <2>2. q \in Nat /\ t = nb * q + (t % nb) /\ t % nb \in 0 .. nb - 1
    BY <2>1, QuotientRemainder
  <2>3. q <= R
    <3> HIDE DEF q, R
    <3>1. ~(R + 1 <= q)
      <4> SUFFICES ASSUME R + 1 <= q PROVE FALSE
        OBVIOUS
      <4>1. nb * (R + 1) <= nb * q
        BY <1>1, <2>2, TimesMonotone
      <4>2. nb * (R + 1) = nb * R + nb /\ nb * R \in Nat /\ nb * q \in Nat
        BY <1>1, <2>2
      <4> QED
        BY <1>1, <2>2, <4>1, <4>2
    <3> QED
      BY <1>1, <2>2, <3>1
  <2> HIDE DEF q, R
  <2> QED
    BY <1>1, <2>2, <2>3 DEF q
<1>3. ASSUME NEW f \in 1 .. 1 + R PROVE f \in Q
  <2>1. CASE f = 1
    <3>1. 1 \in 0 .. nb - 1 /\ nb \in Nat
      OBVIOUS
    <3>2. 1 \div nb = 0 /\ 1 \in 1 .. top
      BY <3>1, Small
    <3>3. 1 \div nb + 1 = 1
      BY <3>2
    <3> QED
      BY <2>1, <3>2, <3>3
  <2>2. CASE f # 1
    <3> DEFINE g == f - 1
               t == nb * g
    <3>1. g \in 1 .. R /\ g \in Nat /\ f = g + 1
      BY <1>1, <2>2
    <3> HIDE DEF g, R
    <3>2. t \in Nat /\ t >= 1 /\ t <= top
      <4>1. nb * g <= nb * R /\ nb * g \in Nat /\ nb * R \in Nat
        BY <1>1, <3>1, TimesMonotone
      <4>2. nb * 1 <= nb * g
        BY <3>1, TimesMonotone
      <4> QED
        BY <1>1, <4>1, <4>2
    <3>3. t \div nb = g
      BY <3>1, ExactQuotient
    <3> HIDE DEF t
    <3>4. t \in 1 .. top /\ f = t \div nb + 1
      BY <3>1, <3>2, <3>3
    <3> QED
      BY <3>4
  <2> QED
    BY <2>1, <2>2
<1>4. Q \subseteq 1 .. 1 + R
  BY <1>2
<1>5. 1 .. 1 + R \subseteq Q
  BY <1>3
<1> QED
  BY <1>4, <1>5

LEMMA LesserOf ==
    ASSUME NEW a \in Int, NEW b \in Int
    PROVE  Min({a, b}) = IF b <= a THEN b ELSE a
<1> DEFINE m == IF b <= a THEN b ELSE a
<1>1. m \in {a, b} /\ \A y \in {a, b} : m =< y
  OBVIOUS
<1>2. \A x \in {a, b} : (\A y \in {a, b} : x =< y) => x = m
  OBVIOUS
<1> HIDE DEF m
<1>3. Min({a, b}) = m
  BY <1>1, <1>2 DEF Min
<1> QED
  BY <1>3 DEF m

\* In a filter of 2^h buckets, the tags of one bucket lead to as many others as
\* their upper bits tell apart.
LEMMA BucketsLedTo ==
    ASSUME NEW h \in 0 .. SizeBits - 1
    PROVE  Cardinality({AltIndex(pow2[h], 0, tag) : tag \in AllTags})
               = Min({pow2[h], 1 + (pow2[bits_per_key] - 1) \div pow2[h]})
<1> DEFINE nb == pow2[h]
           top == pow2[bits_per_key] - 1
           R == 1 + (top \div nb)
           Led == {AltIndex(nb, 0, tag) : tag \in AllTags}
           f(x) == (x * Murmur) % nb
<1>1. h \in Nat /\ nb \in Nat \ {0} /\ Murmur \in Int /\ Murmur % 2 = 1
  BY SizeFacts, Pow2Facts, WidthAssumption DEF SizeLimit
<1>2. top \in Nat /\ top >= 1 /\ AllTags = 1 .. top
  <2>1. bits_per_key \in Nat /\ bits_per_key >= 1
    BY SizeFacts, WidthAssumption
  <2>2. pow2[bits_per_key] \in Nat /\ pow2[bits_per_key] > 1
    BY <2>1, Pow2Facts
  <2> QED
    BY <2>2 DEF AllTags
<1>3. \A tag \in 1 .. top : AltIndex(nb, 0, tag) = f(tag \div nb + 1)
  <2>1. \A tag \in 1 .. top : tag \in Nat
    BY <1>2
  <2> HIDE DEF top
  <2> QED
    BY <2>1, AltIndexZero
<1>4. Led = {f(t \div nb + 1) : t \in 1 .. top}
  BY <1>2, <1>3, Zenon
<1>5. top \div nb \in Nat
  <2> HIDE DEF nb, top
  <2> QED
    BY <1>1, <1>2, QuotientRemainder
<1>6. R \in Nat /\ R >= 1
  BY <1>5
<1>7. Min({nb, R}) = IF R <= nb THEN R ELSE nb
  <2> HIDE DEF nb, R
  <2>1. nb \in Int /\ R \in Int
    BY <1>1, <1>6
  <2> QED
    BY <2>1, LesserOf
<1>8. Cardinality({f(x) : x \in 1 .. R}) = IF R <= nb THEN R ELSE nb
  <2> HIDE DEF R
  <2> QED
    BY <1>1, <1>6, ProductsCounted
<1>9. Led = {f(x) : x \in 1 .. R}
  <2>1. CASE nb >= 2
    <3>1. {t \div nb + 1 : t \in 1 .. top} = 1 .. R
      <4> HIDE DEF nb, top
      <4> QED
        BY <1>1, <1>2, <2>1, TagQuotients
    <3> HIDE DEF f, R, nb, top, Led
    <3> QED
      BY <1>4, <3>1
  <2>2. CASE ~(nb >= 2)
    <3>1. nb = 1
      BY <1>1, <2>2
    <3> DEFINE one == 1
    <3>2. \A x \in Int : (x * Murmur) % 1 = 0
      <4> SUFFICES ASSUME NEW x \in Int PROVE (x * Murmur) % 1 = 0
        OBVIOUS
      <4> DEFINE z == x * Murmur
      <4>1. z \in Int
        BY <1>1
      <4> HIDE DEF z
      <4>2. z % 1 = 0
        BY <4>1
      <4> QED
        BY <4>2 DEF z
    <3>3. \A x \in Int : f(x) = 0
      BY <3>1, <3>2
    <3> HIDE DEF f, nb, top, R, Led
    <3>4. \A t \in 1 .. top : t \div nb + 1 \in Int
      BY <1>1, <1>2
    <3>5. Led = {0}
      <4>1. 1 \in 1 .. top
        BY <1>2
      <4> QED
        BY <1>4, <3>3, <3>4, <4>1
    <3>6. {f(x) : x \in 1 .. R} = {0}
      <4>1. 1 \in 1 .. R /\ \A x \in 1 .. R : x \in Int
        BY <1>6
      <4> QED
        BY <3>3, <4>1
    <3> QED
      BY <3>5, <3>6
  <2> QED
    BY <2>1, <2>2
<1> QED
  BY <1>7, <1>8, <1>9

------------------------------------------------------------------------------
(* The block filter: buckets and positions of a hash value.                 *)

LEMMA WordFacts ==
    /\ WordBits \in Nat /\ PositionBits \in Nat /\ WordBits - PositionBits \in Nat
    /\ pow2[WordBits] \in Nat \ {0} /\ pow2[WordBits - PositionBits] \in Nat \ {0}
    /\ pow2[WordBits] = pow2[WordBits - PositionBits] * WordBits /\ WordBits # 0
    /\ \A l \in Lanes : Rehash[l] \in Nat
<1>1. PositionBits \in Nat /\ WordBits = pow2[PositionBits]
  BY BlockAssumption
<1>2. WordBits \in Nat /\ WordBits > PositionBits
  BY <1>1, Pow2Facts
<1>3. WordBits - PositionBits \in Nat /\ (WordBits - PositionBits) + PositionBits = WordBits
  BY <1>1, <1>2
<1>4. pow2[(WordBits - PositionBits) + PositionBits] = pow2[WordBits - PositionBits] * pow2[PositionBits]
  BY <1>1, <1>3, Pow2Split
<1>5. pow2[WordBits] \in Nat \ {0} /\ pow2[WordBits - PositionBits] \in Nat \ {0}
  BY <1>2, <1>3, Pow2Facts
<1>6. \A l \in Lanes : Rehash[l] \in Nat
  BY BlockAssumption DEF Lanes
<1> QED
  BY <1>1, <1>2, <1>3, <1>4, <1>5, <1>6

\* A factor may be cut before or after the product.
LEMMA ProductCut ==
    ASSUME NEW m \in Nat \ {0}, NEW c \in Int, NEW x \in Int
    PROVE  (c * (x % m)) % m = (c * x) % m
<1> DEFINE q == x \div m
           r == x % m
           y == c * r
           k == c * q
           u == y \div m
           v == y % m
<1>1. q \in Int /\ r \in Int /\ x = m * q + r
  BY IntQuotient
<1>2. y \in Int /\ k \in Int
  BY <1>1
<1>3. u \in Int /\ v \in 0 .. m - 1 /\ y = m * u + v
  <2> HIDE DEF y
  <2> QED
    BY <1>2, IntQuotient
<1>4. c * x = m * (k + u) + v /\ k + u \in Int
  <2> HIDE DEF q, r
  <2>1. c * x = c * (m * q) + c * r /\ c * (m * q) = m * (c * q)
    BY <1>1
  <2>2. c * x = m * k + y
    BY <2>1
  <2> HIDE DEF k, y, u, v
  <2>3. m * (k + u) = m * k + m * u /\ m * k \in Int /\ m * u \in Int
    BY <1>2, <1>3
  <2> QED
    BY <1>2, <1>3, <2>2, <2>3
<1> HIDE DEF u, v, k, q
<1>5. (m * (k + u) + v) % m = v
  BY <1>3, <1>4, QuotientUnique
<1> QED
  BY <1>4, <1>5 DEF v

\* The bucket of a hash value in a filter of 2^k buckets, and its one in lane l.
BucketOf(k, h) == (h % pow2[k]) % pow2[WordBits]
OneOf(k, h, l) ==
    ((Rehash[l] * (h \div pow2[k])) % pow2[WordBits]) \div pow2[WordBits - PositionBits]

LEMMA BucketInRange ==
    ASSUME log_num_buckets \in Nat, NEW h \in Nat
    PROVE  /\ bucket_idx(h) = BucketOf(log_num_buckets, h)
           /\ bucket_idx(h) \in 0 .. pow2[log_num_buckets] - 1
<1> DEFINE k == log_num_buckets
           a == pow2[k]
           w == pow2[WordBits]
           x == h % a
<1>1. a \in Nat \ {0} /\ w \in Nat \ {0} /\ WordBits \in Nat
  BY WordFacts, Pow2Facts
<1>2. x \in 0 .. a - 1
  <2> HIDE DEF a
  <2>1. h \in Int
    OBVIOUS
  <2> QED
    BY <1>1, <2>1, IntQuotient
<1>3. CASE k < WordBits
  <2>1. a <= w
    BY <1>1, <1>3, Pow2Monotone
  <2>2. bucket_idx(h) = x
    BY <1>3 DEF bucket_idx
  <2>3. x % w = x
    <3> HIDE DEF a, w, x
    <3>1. x \in 0 .. w - 1
      BY <1>1, <1>2, <2>1
    <3> QED
      BY <1>1, <3>1, Small
  <2> QED
    BY <1>2, <2>2, <2>3 DEF BucketOf
<1>4. CASE ~(k < WordBits)
  <2> DEFINE b == pow2[k - WordBits]
  <2>1. k - WordBits \in Nat /\ WordBits <= k /\ WordBits + (k - WordBits) = k
    BY <1>1, <1>4
  <2>2. b \in Nat \ {0} /\ a = w * b /\ w <= a
    <3>1. pow2[WordBits + (k - WordBits)] = w * b
      BY <1>1, <2>1, Pow2Split
    <3>2. w <= a
      BY <1>1, <2>1, Pow2Monotone
    <3> QED
      BY <2>1, <3>1, <3>2, Pow2Facts
  <2>3. bucket_idx(h) = h % w
    BY <1>4 DEF bucket_idx, Word
  <2> HIDE DEF b, k
  <2>4. x % w = h % w /\ h % w \in 0 .. a - 1
    <3> HIDE DEF a, w
    <3>1. h \in Int
      OBVIOUS
    <3>2. (h % (w * b)) % w = h % w
      BY <1>1, <2>2, <3>1, QuotientTwice
    <3>3. h % w \in 0 .. w - 1
      BY <1>1, <3>1, IntQuotient
    <3> QED
      BY <1>1, <2>2, <3>2, <3>3
  <2> QED
    BY <2>3, <2>4 DEF BucketOf, k
<1> QED
  BY <1>3, <1>4

LEMMA PositionInRange ==
    ASSUME log_num_buckets \in Nat, NEW h \in Nat, NEW l \in Lanes
    PROVE  /\ MakeMask(MaskHash(h))[l] = OneOf(log_num_buckets, h, l)
           /\ MakeMask(MaskHash(h))[l] \in Positions
<1> DEFINE c == Rehash[l]
           x == h \div pow2[log_num_buckets]
           a == pow2[WordBits - PositionBits]
           w == pow2[WordBits]
           y == c * x
<1>1. /\ WordBits \in Nat \ {0} /\ a \in Nat \ {0} /\ w \in Nat \ {0} /\ w = a * WordBits
      /\ c \in Int
  BY WordFacts
<1>2. x \in Int
  <2>1. pow2[log_num_buckets] \in Nat \ {0} /\ h \in Int
    BY Pow2Facts
  <2> QED
    BY <2>1, IntQuotient
<1>3. MakeMask(MaskHash(h))[l] = ((c * (x % w)) % w) \div a
  BY DEF MakeMask, MaskHash, Word
<1> HIDE DEF c, x, a, w
<1>4. (c * (x % w)) % w = y % w
  BY <1>1, <1>2, ProductCut
<1>5. y \in Int
  BY <1>1, <1>2
<1> HIDE DEF y
<1>6. (y % w) \div a \in Positions
  <2>1. (y % w) \div a = (y \div a) % WordBits
    BY <1>1, <1>5, QuotientTwice
  <2>2. y \div a \in Int
    BY <1>1, <1>5, IntQuotient
  <2>3. (y \div a) % WordBits \in 0 .. WordBits - 1
    BY <1>1, <2>2, IntQuotient
  <2> QED
    BY <2>1, <2>3 DEF Positions
<1> QED
  BY <1>3, <1>4, <1>6 DEF OneOf, a, w, y, c, x

------------------------------------------------------------------------------
(* The inductive invariant.                                                 *)

\* What a container can be asked for, by its kind.
MadeFor ==
    /\ kind \in {"table", "filter"} => n \in 0 .. SizeLimit - 1
    /\ kind = "program" => n \in Nat /\ 2 * n <= SizeLimit - 1
    /\ kind \in {"seeded", "block"} => n \in 1 .. SizeLimit - 1

\* How its constructor ended.
Constructed ==
    /\ at = "new" => added = {}
    /\ at = "aborted" => kind \in {"table", "program"} /\ ~ReserveAsserts(Reserved)
    /\ at = "ready" =>
          /\ kind \in {"table", "program"} =>
                ReserveAsserts(Reserved) /\ num_buckets = hashsize(reserve_calc(Reserved))
          /\ kind = "filter" => num_buckets = FilterBuckets(n)
          /\ kind = "seeded" => num_buckets = n
          /\ kind = "block" => log_num_buckets = IF CeilLog2(n) - LOG_BUCKET_BYTE_SIZE > 1
                                                 THEN CeilLog2(n) - LOG_BUCKET_BYTE_SIZE ELSE 1

\* The keys added to a bucket.
AddedTo(b) == {a \in added : bucket_idx(a) = b}

\* A lane has the ones of the masks of the keys added to its bucket, no others.
BucketsHold ==
    kind = "block" =>
        \A b \in 0 .. pow2[log_num_buckets] - 1 : \A l \in Lanes :
            directory[b][l] = {MakeMask(MaskHash(a))[l] : a \in AddedTo(b)}

ContainersInv ==
    ContainersTypeOK /\ log_num_buckets \in Nat /\ MadeFor /\ Constructed /\ BucketsHold

LEMMA NumbersOfElements ==
    /\ SizeT(-1) = SizeLimit - 1
    /\ SizeLimit \in Nat /\ SizeLimit >= 256
    /\ Sizes \subseteq 0 .. SizeLimit - 1
    /\ SeedCounts \subseteq 1 .. SizeLimit - 1
    /\ BlockSizes \subseteq 1 .. SizeLimit - 1
    /\ HashValues \subseteq Nat
<1>1. SizeT(-1) = SizeLimit - 1 /\ SizeLimit \in Nat /\ SizeLimit >= 256
  <2>1. 1 \in 1 .. SizeLimit
    BY SizeFacts
  <2> QED
    BY <2>1, SizeTFacts, SizeFacts
<1> QED
  BY <1>1, ContainersAssumption

LEMMA ReservedInRange ==
    ASSUME MadeFor, kind \in {"table", "program"}
    PROVE  Reserved \in 0 .. SizeLimit - 1
<1>1. CASE kind = "table"
  BY <1>1 DEF MadeFor, Reserved
<1>2. CASE kind = "program"
  <2>1. n \in Nat /\ 2 * n <= SizeLimit - 1 /\ SizeLimit \in Nat
    BY <1>2, NumbersOfElements DEF MadeFor
  <2>2. init_size(n) \in Nat /\ init_size(n) <= SizeLimit - 12
    BY <2>1, InitSize
  <2>3. Reserved = init_size(n)
    BY <1>2 DEF Reserved
  <2> HIDE DEF Reserved
  <2> QED
    BY <2>1, <2>2, <2>3
<1> QED
  BY <1>1, <1>2

LEMMA ContainersInitially == ContainersInit => ContainersInv
<1> SUFFICES ASSUME ContainersInit PROVE ContainersInv
  OBVIOUS
<1>1. /\ kind \in Kinds /\ at = "new" /\ num_buckets = 0 /\ log_num_buckets = 0 /\ added = {}
      /\ directory = [b \in {0} |-> [l \in Lanes |-> {}]]
  BY DEF ContainersInit, Kinds
<1>2. /\ kind \in {"table", "filter"} => n \in Sizes
      /\ kind = "program" => n \in Sizes /\ 2 * n <= SizeT(-1)
      /\ kind = "seeded" => n \in SeedCounts
      /\ kind = "block" => n \in BlockSizes
  BY DEF ContainersInit
<1>3. MadeFor
  <2>1. \A x \in 0 .. SizeLimit - 1 : x \in Nat
    BY NumbersOfElements
  <2> QED
    BY <1>2, <2>1, NumbersOfElements DEF MadeFor
<1>4. Constructed
  BY <1>1 DEF Constructed
<1>5. pow2[log_num_buckets] = 1 /\ 0 .. pow2[log_num_buckets] - 1 = {0} /\ log_num_buckets \in Nat
  <2>1. pow2[log_num_buckets] = 1
    BY <1>1, Pow2Facts
  <2>2. 0 .. 1 - 1 = {0}
    OBVIOUS
  <2> QED
    BY <1>1, <2>1, <2>2
<1>6. BucketsHold
  BY <1>1, <1>5 DEF BucketsHold, AddedTo
<1>7. ContainersTypeOK
  <2>1. n \in Sizes \union SeedCounts \union BlockSizes
    BY <1>1, <1>2 DEF Kinds
  <2>2. num_buckets \in 0 .. SizeT(-1)
    BY <1>1, NumbersOfElements
  <2>3. directory \in [{0} -> [Lanes -> SUBSET Positions]]
    BY <1>1
  <2> QED
    BY <1>1, <1>5, <2>1, <2>2, <2>3 DEF ContainersTypeOK
<1> QED
  BY <1>3, <1>4, <1>5, <1>6, <1>7 DEF ContainersInv

LEMMA TableConstructed ==
    ASSUME ContainersInv, ConstructTable
    PROVE  ContainersInv'
<1>1. /\ at = "new" /\ kind \in {"table", "program"}
      /\ kind' = kind /\ n' = n /\ added' = added
      /\ log_num_buckets' = log_num_buckets /\ directory' = directory
  BY DEF ConstructTable, blockVars
<1>2. ContainersTypeOK /\ log_num_buckets \in Nat /\ MadeFor /\ Constructed /\ BucketsHold
  BY DEF ContainersInv
<1>3. Reserved' = Reserved /\ Reserved \in 0 .. SizeLimit - 1
  BY <1>1, <1>2, ReservedInRange DEF Reserved
<1> DEFINE m == Reserved
           size == hashsize(reserve_calc(m))
<1>4. \/ ReserveAsserts(m) /\ at' = "ready" /\ num_buckets' = size
      \/ ~ReserveAsserts(m) /\ at' = "aborted" /\ num_buckets' = num_buckets
  BY DEF ConstructTable
<1>5. ReserveAsserts(m) => size \in 1 .. SizeLimit - 1
  <2> SUFFICES ASSUME ReserveAsserts(m) PROVE size \in 1 .. SizeLimit - 1
    OBVIOUS
  <2>1. m \in 0 .. SizeLimit - 1
    BY <1>3
  <2> HIDE DEF m
  <2> QED
    BY <2>1, TableSize
<1>6. num_buckets' \in 0 .. SizeT(-1) /\ (at' = "ready" => num_buckets' > 0)
  <2>1. num_buckets \in 0 .. SizeT(-1)
    BY <1>2 DEF ContainersTypeOK
  <2> HIDE DEF size, m
  <2> QED
    BY <1>4, <1>5, <2>1, NumbersOfElements
<1>7. at' \in {"ready", "aborted"}
  BY <1>4
<1>8. Constructed'
  <2>1. ~ReserveAsserts(m)' <=> ~ReserveAsserts(m)
    BY <1>3
  <2>2. size' = size
    BY <1>3
  <2> HIDE DEF size, m
  <2>3. (at' = "aborted" => ~ReserveAsserts(Reserved)') /\ (at' = "ready" => ReserveAsserts(Reserved)')
    BY <1>4, <2>1 DEF m
  <2>4. at' = "ready" => num_buckets' = hashsize(reserve_calc(Reserved))'
    BY <1>4, <2>2 DEF size, m
  <2> QED
    BY <1>1, <1>7, <2>3, <2>4 DEF Constructed
<1>9. ContainersTypeOK'
  BY <1>1, <1>2, <1>6, <1>7 DEF ContainersTypeOK
<1>10. MadeFor' /\ BucketsHold'
  BY <1>1, <1>2 DEF MadeFor, BucketsHold
<1> QED
  BY <1>1, <1>2, <1>8, <1>9, <1>10 DEF ContainersInv

LEMMA FilterConstructed ==
    ASSUME slot_per_bucket >= 3, ContainersInv, ConstructFilter
    PROVE  ContainersInv'
<1>1. /\ at = "new" /\ at' = "ready" /\ kind \in {"filter", "seeded"}
      /\ kind' = kind /\ n' = n /\ added' = added
      /\ log_num_buckets' = log_num_buckets /\ directory' = directory
      /\ num_buckets' = IF kind = "filter" THEN FilterBuckets(n) ELSE n
  BY DEF ConstructFilter, blockVars
<1>2. ContainersTypeOK /\ log_num_buckets \in Nat /\ MadeFor /\ Constructed /\ BucketsHold
  BY DEF ContainersInv
<1>3. num_buckets' \in 1 .. SizeLimit - 1
  <2>1. CASE kind = "filter"
    <3>1. n \in 0 .. SizeLimit - 1
      BY <1>2, <2>1 DEF MadeFor
    <3> QED
      BY <1>1, <2>1, <3>1, FilterSize
  <2>2. CASE kind = "seeded"
    BY <1>1, <1>2, <2>2 DEF MadeFor
  <2> QED
    BY <1>1, <2>1, <2>2
<1>4. num_buckets' \in 0 .. SizeT(-1) /\ num_buckets' > 0
  BY <1>3, NumbersOfElements
<1>5. ContainersTypeOK'
  BY <1>1, <1>2, <1>4 DEF ContainersTypeOK
<1>6. MadeFor' /\ BucketsHold' /\ Constructed'
  BY <1>1, <1>2 DEF MadeFor, BucketsHold, Constructed
<1> QED
  BY <1>1, <1>2, <1>5, <1>6 DEF ContainersInv

LEMMA BlockConstructed ==
    ASSUME ContainersInv, ConstructBlock
    PROVE  ContainersInv'
<1> DEFINE k == IF CeilLog2(n) - LOG_BUCKET_BYTE_SIZE > 1
                THEN CeilLog2(n) - LOG_BUCKET_BYTE_SIZE ELSE 1
<1>1. /\ at = "new" /\ at' = "ready" /\ kind = "block"
      /\ kind' = kind /\ n' = n /\ added' = added /\ num_buckets' = num_buckets
      /\ log_num_buckets' = k
      /\ directory' = [b \in 0 .. pow2[log_num_buckets'] - 1 |-> [l \in Lanes |-> {}]]
  BY DEF ConstructBlock, Construct
<1>2. ContainersTypeOK /\ MadeFor /\ Constructed
  BY DEF ContainersInv
<1>3. added = {}
  BY <1>1, <1>2 DEF Constructed
<1>4. k \in Nat
  <2>1. n \in 1 .. SizeLimit - 1
    BY <1>1, <1>2 DEF MadeFor
  <2> QED
    BY <2>1, BlockSize
<1>5. Constructed'
  <2>1. k' = k
    BY <1>1
  <2> HIDE DEF k
  <2>2. log_num_buckets' = k'
    BY <1>1, <2>1
  <2> QED
    BY <1>1, <2>2 DEF Constructed, k
<1> HIDE DEF k
<1>6. directory' \in [0 .. pow2[log_num_buckets'] - 1 -> [Lanes -> SUBSET Positions]]
  BY <1>1
<1>7. ContainersTypeOK'
  BY <1>1, <1>2, <1>6 DEF ContainersTypeOK
<1>8. BucketsHold'
  <2>1. \A b : AddedTo(b)' = {}
    BY <1>1, <1>3 DEF AddedTo
  <2>2. ASSUME NEW b \in 0 .. pow2[log_num_buckets'] - 1, NEW l \in Lanes
        PROVE  directory'[b][l] = {}
    BY <1>1
  <2> QED
    BY <2>1, <2>2 DEF BucketsHold
<1>9. MadeFor' /\ log_num_buckets' \in Nat
  BY <1>1, <1>2, <1>4 DEF MadeFor
<1> QED
  BY <1>5, <1>7, <1>8, <1>9 DEF ContainersInv

LEMMA BlockAdded ==
    ASSUME ContainersInv, BlockAdd
    PROVE  ContainersInv'
<1>1. PICK hash \in HashValues : Add(hash) /\ added' = added \union {hash}
  BY DEF BlockAdd
<1>2. /\ at = "ready" /\ kind = "block" /\ kind' = kind /\ n' = n /\ at' = at
      /\ num_buckets' = num_buckets /\ log_num_buckets' = log_num_buckets
  BY <1>1 DEF BlockAdd, Add
<1>3. ContainersTypeOK /\ log_num_buckets \in Nat /\ MadeFor /\ Constructed /\ BucketsHold
  BY DEF ContainersInv
<1> DEFINE Buckets == 0 .. pow2[log_num_buckets] - 1
           B(h) == bucket_idx(h)
           M(h) == MakeMask(MaskHash(h))
<1>4. \A h : B(h)' = B(h) /\ M(h)' = M(h)
  BY <1>2 DEF bucket_idx, MakeMask, MaskHash
<1>5. /\ hash \in Nat /\ hash \in HashValues /\ B(hash) \in Buckets
      /\ \A l \in Lanes : M(hash)[l] \in Positions
  BY <1>1, <1>3, NumbersOfElements, BucketInRange, PositionInRange
<1>6. directory \in [Buckets -> [Lanes -> SUBSET Positions]]
  BY <1>3 DEF ContainersTypeOK
<1>7. directory' = [directory EXCEPT ![B(hash)] = [l \in Lanes |-> @[l] \union {M(hash)[l]}]]
  BY <1>1 DEF Add
<1> HIDE DEF Buckets, B, M
<1>8. directory' \in [Buckets -> [Lanes -> SUBSET Positions]]
  BY <1>5, <1>6, <1>7
<1>9. ContainersTypeOK'
  <2>1. added' \subseteq HashValues
    BY <1>1, <1>3 DEF ContainersTypeOK
  <2>2. directory' \in [0 .. pow2[log_num_buckets'] - 1 -> [Lanes -> SUBSET Positions]]
    BY <1>2, <1>8 DEF Buckets
  <2> QED
    BY <1>2, <1>3, <2>1, <2>2 DEF ContainersTypeOK
<1>10. ASSUME NEW b \in Buckets, NEW l \in Lanes
       PROVE  directory'[b][l] = {M(a)[l] : a \in {a \in added' : B(a) = b}}
  <2>1. directory[b][l] = {M(a)[l] : a \in {a \in added : B(a) = b}}
    BY <1>2, <1>3 DEF BucketsHold, AddedTo, Buckets, B, M
  <2>2. CASE b = B(hash)
    <3>1. directory'[b][l] = directory[b][l] \union {M(hash)[l]}
      BY <1>5, <1>6, <1>7, <2>2
    <3>2. {a \in added' : B(a) = b} = {a \in added : B(a) = b} \union {hash}
      BY <1>1, <2>2
    <3> QED
      BY <2>1, <3>1, <3>2
  <2>3. CASE b # B(hash)
    <3>1. directory'[b] = directory[b]
      BY <1>5, <1>6, <1>7, <2>3
    <3>2. {a \in added' : B(a) = b} = {a \in added : B(a) = b}
      BY <1>1, <2>3
    <3> QED
      BY <2>1, <3>1, <3>2
  <2> QED
    BY <2>2, <2>3
<1>11. BucketsHold'
  <2>1. ASSUME NEW b \in 0 .. pow2[log_num_buckets'] - 1, NEW l \in Lanes
        PROVE  directory'[b][l] = {M(a)'[l] : a \in AddedTo(b)'}
    <3>1. b \in Buckets
      BY <1>2, <2>1 DEF Buckets
    <3>2. AddedTo(b)' = {a \in added' : B(a) = b}
      BY <1>4 DEF AddedTo, B
    <3> QED
      BY <1>4, <1>10, <3>1, <3>2
  <2> QED
    BY <2>1 DEF BucketsHold, M
<1>12. MadeFor' /\ Constructed'
  BY <1>2, <1>3 DEF MadeFor, Constructed, Reserved
<1> QED
  BY <1>2, <1>3, <1>9, <1>11, <1>12 DEF ContainersInv

LEMMA ContainersInductive ==
    ASSUME slot_per_bucket >= 3
    PROVE  ContainersSpec => []ContainersInv
<1>1. ContainersInit => ContainersInv
  BY ContainersInitially
<1>2. ContainersInv /\ [ContainersNext]_containerVars => ContainersInv'
  <2> SUFFICES ASSUME ContainersInv, [ContainersNext]_containerVars PROVE ContainersInv'
    OBVIOUS
  <2>1. CASE ConstructTable
    BY <2>1, TableConstructed
  <2>2. CASE ConstructFilter
    BY <2>2, FilterConstructed
  <2>3. CASE ConstructBlock
    BY <2>3, BlockConstructed
  <2>4. CASE BlockAdd
    BY <2>4, BlockAdded
  <2>5. CASE UNCHANGED containerVars
    BY <2>5 DEF ContainersInv, ContainersTypeOK, MadeFor, Constructed, Reserved, BucketsHold,
                AddedTo, bucket_idx, MakeMask, MaskHash, containerVars, blockVars
  <2> QED
    BY <2>1, <2>2, <2>3, <2>4, <2>5 DEF ContainersNext
<1> QED
  BY <1>1, <1>2, PTL DEF ContainersSpec

------------------------------------------------------------------------------
(* Theorems.                                                                *)

\* Constructors, for every number of elements and of seeds, make a container
\* whose number of buckets fits a size_t and is not 0 unless an assertion fails,
\* and the block filter's bits stay in the buckets and lanes that it has.  With
\* fewer than three slots to a bucket, the doubling of the filter's first
\* constructor could wrap to no bucket at all.
THEOREM ContainerTypes ==
    ASSUME slot_per_bucket >= 3
    PROVE  ContainersSpec => []ContainersTypeOK
<1>1. ContainersInv => ContainersTypeOK
  BY DEF ContainersInv
<1> QED
  BY <1>1, ContainersInductive, PTL

LEMMA RoomIn ==
    ASSUME slot_per_bucket \in 3 .. 12, ContainersInv
    PROVE  RoomForAll
<1> DEFINE s == slot_per_bucket
<1>1. MadeFor /\ Constructed /\ kind \in Kinds
  BY DEF ContainersInv, ContainersTypeOK
<1>2. SizeLimit \in Nat /\ SizeLimit >= 256 /\ s \in 3 .. 12 /\ s >= 3
  BY NumbersOfElements
<1>3. SizeT(-s) = SizeLimit - s
  <2>1. s \in 1 .. SizeLimit
    BY <1>2
  <2> HIDE DEF s
  <2> QED
    BY <2>1, SizeTFacts
<1>4. ASSUME at = "aborted" PROVE n > SizeLimit - s
  <2>1. kind \in {"table", "program"} /\ ~ReserveAsserts(Reserved)
    BY <1>1, <1>4 DEF Constructed
  <2>2. Reserved \in 0 .. SizeLimit - 1
    BY <1>1, <2>1, ReservedInRange
  <2>3. ~(Reserved <= SizeLimit - s)
    BY <1>2, <2>1, <2>2, TableAsserts
  <2>4. CASE kind = "table"
    <3>1. Reserved = n
      BY <2>4 DEF Reserved
    <3> QED
      BY <1>2, <2>2, <2>3, <3>1
  <2>5. CASE kind = "program"
    <3>1. n \in Nat /\ 2 * n <= SizeLimit - 1
      BY <1>1, <2>5 DEF MadeFor
    <3>2. Reserved = init_size(n) /\ init_size(n) <= SizeLimit - 12
      BY <2>5, <3>1, InitSize DEF Reserved
    <3> QED
      BY <1>2, <2>2, <2>3, <3>2
  <2> QED
    BY <2>1, <2>4, <2>5
<1>5. ASSUME at = "ready", kind = "table"
      PROVE  n <= capacity /\ (num_buckets = 1 \/ capacity < 2 * n)
  <2>1. ReserveAsserts(n) /\ num_buckets = hashsize(reserve_calc(n)) /\ n \in 0 .. SizeLimit - 1
    BY <1>1, <1>5 DEF Constructed, MadeFor, Reserved
  <2> QED
    BY <2>1, TableRoom DEF capacity
<1>6. ASSUME at = "ready", kind = "program"
      PROVE  n <= capacity /\ 20 * n < 19 * (capacity + 1)
  <2> DEFINE m == init_size(n)
  <2>1. ReserveAsserts(m) /\ num_buckets = hashsize(reserve_calc(m)) /\ n \in Nat /\ 2 * n <= SizeLimit - 1
    BY <1>1, <1>6 DEF Constructed, MadeFor, Reserved
  <2>2. m \in Nat /\ n <= m /\ m <= SizeLimit - 12 /\ 20 * n < 19 * (m + 1)
    BY <2>1, InitSize
  <2> HIDE DEF m
  <2>3. m \in 0 .. SizeLimit - 1
    BY <1>2, <2>2
  <2>4. m <= capacity /\ num_buckets \in 1 .. SizeLimit - 1
    BY <2>1, <2>3, TableRoom, TableSize DEF capacity
  <2>5. capacity \in Nat
    <3>1. num_buckets \in Nat /\ s \in Nat
      BY <1>2, <2>4
    <3> QED
      BY <3>1 DEF capacity
  <2> HIDE DEF s
  <2> QED
    BY <2>1, <2>2, <2>4, <2>5
<1>7. ASSUME at = "ready", kind = "filter" PROVE 100 * n <= 96 * capacity
  <2>1. num_buckets = FilterBuckets(n) /\ n \in 0 .. SizeLimit - 1
    BY <1>1, <1>7 DEF Constructed, MadeFor
  <2> QED
    BY <1>2, <2>1, FilterSize DEF capacity
<1>8. ASSUME at = "ready", kind = "block"
      PROVE  SizeInBytes >= n /\ (SizeInBytes < 2 * n \/ log_num_buckets = 1)
  <2>1. n \in 1 .. SizeLimit - 1
        /\ log_num_buckets = IF CeilLog2(n) - LOG_BUCKET_BYTE_SIZE > 1
                             THEN CeilLog2(n) - LOG_BUCKET_BYTE_SIZE ELSE 1
    BY <1>1, <1>8 DEF Constructed, MadeFor
  <2> QED
    BY <2>1, BlockSize DEF SizeInBytes
<1> QED
  BY <1>3, <1>4, <1>5, <1>6, <1>7, <1>8 DEF RoomForAll

\* No container is smaller than what it was made for, none needlessly large: for
\* every number of elements, every width of a size_t of 8 bits or more, and
\* buckets of 3 to 12 slots, as rounding up and the doubling of a filter need it
\* (FilterSize).  A table's assertions fail only where rounding up wraps.
THEOREM Room ==
    ASSUME slot_per_bucket \in 3 .. 12
    PROVE  ContainersSpec => []RoomForAll
<1>1. ContainersInv => RoomForAll
  BY RoomIn
<1>2. slot_per_bucket >= 3
  OBVIOUS
<1> QED
  BY <1>1, <1>2, ContainersInductive, PTL

LEMMA HashesAgreeIn ==
    ASSUME slot_per_bucket >= 3, ContainersInv
    PROVE  HashesAgree
<1> SUFFICES ASSUME at = "ready", kind \in {"program", "filter", "seeded"} PROVE HashesAgree
  BY DEF HashesAgree
<1> DEFINE nb == num_buckets
           Reachable == {And(SizeBits, b, nb - 1) : b \in 0 .. nb - 1}
           hp == reserve_calc(Reserved)
<1>1. MadeFor /\ Constructed /\ ContainersTypeOK
  BY DEF ContainersInv
<1>2. nb \in 1 .. SizeLimit - 1
  <2>1. nb \in 0 .. SizeLimit - 1 /\ nb > 0
    BY <1>1, NumbersOfElements DEF ContainersTypeOK
  <2> QED
    BY <2>1
<1>3. kind = "program" =>
         /\ hp \in Nat /\ nb = pow2[hp] /\ pow2[hp] \in 1 .. SizeLimit - 1
         /\ hashmask(hp) = pow2[hp] - 1
  <2> SUFFICES ASSUME kind = "program"
               PROVE  /\ hp \in Nat /\ nb = pow2[hp] /\ pow2[hp] \in 1 .. SizeLimit - 1
                      /\ hashmask(hp) = pow2[hp] - 1
    OBVIOUS
  <2>1. ReserveAsserts(Reserved) /\ nb = hashsize(hp) /\ Reserved \in 0 .. SizeLimit - 1
    BY <1>1, ReservedInRange DEF Constructed
  <2>2. /\ hp \in 0 .. SizeBits - 1 /\ hashsize(hp) = pow2[hp] /\ pow2[hp] \in 1 .. SizeLimit - 1
        /\ hashmask(hp) = pow2[hp] - 1
    BY <2>1, TableSize
  <2> HIDE DEF hp
  <2>3. hp \in Nat
    BY <2>2, SizeFacts
  <2> QED
    BY <2>1, <2>2, <2>3
<1> HIDE DEF hp
<1>4. ASSUME NEW key \in AllKeys
      PROVE  LET i1 == IndexHash(nb, key)
             IN  /\ partial_key(key) \in AllTags
                 /\ TagHash(key) = partial_key(key)
                 /\ i1 \in Reachable
                 /\ \A b \in Reachable :
                       LET a == AltIndex(nb, b, key)
                       IN a \in Reachable /\ AltIndex(nb, a, key) = b
                 /\ kind = "program" => /\ index_hash(hp, key) = i1
                                        /\ alt_index(hp, key, i1) = AltIndex(nb, i1, key)
  <2>1. partial_key(key) \in AllTags /\ TagHash(key) = partial_key(key)
    BY Fingerprints
  <2>2. /\ IndexHash(nb, key) \in Reachable
        /\ \A b \in Reachable :
              LET a == AltIndex(nb, b, key)
              IN a \in Reachable /\ AltIndex(nb, a, key) = b
    BY <1>2, IndexesInRange
  <2>3. kind = "program" => \A i : /\ index_hash(hp, key) = IndexHash(nb, key)
                                   /\ alt_index(hp, key, i) = AltIndex(nb, i, key)
    <3> HIDE DEF nb
    <3> QED
      BY <1>3, SameIndexes
  <2> HIDE DEF Reachable, nb
  <2> QED
    BY <2>1, <2>2, <2>3
<1>5. ASSUME kind = "filter"
      PROVE  Cardinality({AltIndex(nb, 0, tag) : tag \in AllTags})
                 = Min({nb, 1 + (pow2[bits_per_key] - 1) \div nb})
  <2>1. nb = FilterBuckets(n) /\ n \in 0 .. SizeLimit - 1
    BY <1>1, <1>5 DEF Constructed, MadeFor
  <2>2. PICK h \in 0 .. SizeBits - 1 : nb = pow2[h]
    BY <2>1, FilterSize
  <2> HIDE DEF nb
  <2> QED
    BY <2>2, BucketsLedTo
<1> QED
  BY <1>4, <1>5 DEF HashesAgree, hp, nb, Reachable

\* What the table's and the filter's modules assume of fingerprints and indexes
\* holds for every key and any number of buckets, not only a power of two, and
\* table and filter agree; and how far the tags of one bucket spread.  The width
\* of a fingerprint and the odd factor are any that WidthAssumption allows.
THEOREM Hashes ==
    ASSUME slot_per_bucket >= 3
    PROVE  ContainersSpec => []HashesAgree
<1>1. ContainersInv => HashesAgree
  BY HashesAgreeIn
<1> QED
  BY <1>1, ContainersInductive, PTL

LEMMA CoveredIn ==
    ASSUME ContainersInv
    PROVE  BlockFindsCovered
<1> SUFFICES ASSUME at = "ready", kind = "block" PROVE BlockFindsCovered
  BY DEF BlockFindsCovered
<1> DEFINE k == log_num_buckets
           Bucket(h) == (h % pow2[k]) % pow2[WordBits]
           One(h, l) == ((Rehash[l] * (h \div pow2[k])) % pow2[WordBits])
                            \div pow2[WordBits - PositionBits]
           M(h) == MakeMask(MaskHash(h))
           B(h) == bucket_idx(h)
<1>1. k \in Nat /\ BucketsHold /\ added \subseteq HashValues /\ HashValues \subseteq Nat
  BY NumbersOfElements DEF ContainersInv, ContainersTypeOK
<1>2. ASSUME NEW h \in HashValues
      PROVE  /\ B(h) = Bucket(h) /\ B(h) \in 0 .. pow2[k] - 1
             /\ \A l \in Lanes : M(h)[l] = One(h, l)
  BY <1>1, BucketInRange, PositionInRange DEF BucketOf, OneOf
<1>3. ASSUME NEW h \in HashValues
      PROVE  Find(h) <=> \A l \in Lanes : \E a \in added : B(a) = B(h) /\ M(a)[l] = M(h)[l]
  <2>1. \A l \in Lanes : directory[B(h)][l] = {M(a)[l] : a \in {a \in added : B(a) = B(h)}}
    BY <1>1, <1>2 DEF BucketsHold, AddedTo
  <2>2. Find(h) <=> \A l \in Lanes : M(h)[l] \in directory[B(h)][l]
    BY DEF Find
  <2> HIDE DEF B, M
  <2> QED
    BY <2>1, <2>2
<1> HIDE DEF B, M, Bucket, One
<1>4. ASSUME NEW h \in HashValues
      PROVE  /\ Find(h) <=> \A l \in Lanes : \E a \in added :
                                Bucket(a) = Bucket(h) /\ One(a, l) = One(h, l)
             /\ h \in added => Find(h)
  <2>1. \A a \in added : a \in HashValues
    BY <1>1
  <2>2. Find(h) <=> \A l \in Lanes : \E a \in added :
                        Bucket(a) = Bucket(h) /\ One(a, l) = One(h, l)
    BY <1>2, <1>3, <2>1
  <2> QED
    BY <2>2
<1> QED
  BY <1>4 DEF BlockFindsCovered, Bucket, One, k

\* A block filter finds every hash value added to it, and one that was not just
\* when the keys added to its bucket cover its ones, for all sizes of the filter,
\* also those of more buckets than a 32-bit mask reaches.  (The hypothesis is the
\* type invariant's, about the other kinds of container.)
THEOREM BlockCovered ==
    ASSUME slot_per_bucket >= 3
    PROVE  ContainersSpec => []BlockFindsCovered
<1>1. ContainersInv => BlockFindsCovered
  BY CoveredIn
<1> QED
  BY <1>1, ContainersInductive, PTL
==============================================================================
