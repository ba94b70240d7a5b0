-------------------------------- MODULE NatFacts --------------------------------
(***************************************************************************)
(* What the proofs share: induction over the natural numbers with the      *)
(* property given as a set, functions defined by recursion, products and   *)
(* quotients, and the machine words of Words, whose bits are those of the  *)
(* sets they are made from.                                                *)
(***************************************************************************)
EXTENDS Words, FiniteSetTheorems, TLAPS

\* Every set of natural numbers that is not empty has a least element: the
\* intervals that end in its elements are well-founded by inclusion.
LEMMA LeastElement ==
    ASSUME NEW T \in SUBSET Nat, T # {}
    PROVE  \E n \in T : \A m \in T : n <= m
<1> DEFINE Intervals == {0 .. n : n \in T}
<1>1. \A n \in T : 0 .. n \in SUBSET Nat /\ IsFiniteSet(0 .. n)
  BY FS_Interval
<1>2. Intervals \subseteq FiniteSubsetsOf(Nat) /\ Intervals # {}
  BY <1>1 DEF FiniteSubsetsOf
<1>3. PICK B \in Intervals :
          \A C \in Intervals : <<C, B>> \notin StrictSubsetOrdering(Nat)
  BY <1>2, FS_StrictSubsetOrderingWellFounded, WFMin
<1>4. PICK n \in T : B = 0 .. n
  BY <1>3
<1>5. ASSUME NEW m \in T, m < n PROVE FALSE
  <2>1. 0 .. m \in Intervals /\ 0 .. m \subseteq Nat /\ 0 .. n \subseteq Nat
    OBVIOUS
  <2>2. (0 .. m) \subseteq (0 .. n) /\ n \notin 0 .. m /\ n \in 0 .. n
    BY <1>5
  <2> QED
    BY <1>3, <1>4, <2>1, <2>2 DEF StrictSubsetOrdering
<1> QED
  BY <1>5

LEMMA NatInductionInSet ==
    ASSUME NEW S, 0 \in S, \A n \in Nat : n \in S => n + 1 \in S
    PROVE  \A n \in Nat : n \in S
<1> SUFFICES ASSUME Nat \ S # {} PROVE FALSE
  OBVIOUS
<1>1. PICK n \in Nat \ S : \A m \in Nat \ S : n <= m
  BY LeastElement
<1>2. n - 1 \in Nat /\ n - 1 \notin Nat \ S
  BY <1>1
<1> QED
  BY <1>1, <1>2

------------------------------------------------------------------------------
(* Products and quotients.                                                  *)

LEMMA TimesMonotone ==
    ASSUME NEW a \in Nat, NEW m \in Nat, NEW n \in Nat, m <= n
    PROVE  a * m \in Nat /\ a * n \in Nat /\ a * m <= a * n
<1>1. n - m \in Nat /\ a * (n - m) \in Nat /\ a * m \in Nat /\ a * n \in Nat
  OBVIOUS
<1>2. a * n = a * m + a * (n - m)
  OBVIOUS
<1> QED
  BY <1>1, <1>2

LEMMA ExactQuotient ==
    ASSUME NEW a \in Nat \ {0}, NEW n \in Nat
    PROVE  (a * n) \div a = n
OBVIOUS

LEMMA QuotientRemainder ==
    ASSUME NEW a \in Nat \ {0}, NEW n \in Nat
    PROVE  n \div a \in Nat /\ n % a \in 0 .. a - 1 /\ n = a * (n \div a) + (n % a)
OBVIOUS

------------------------------------------------------------------------------
(* Recursion: a function whose value at n + 1 is given by a step function   *)
(* of its value at n, and n.                                                *)

IsStep(step, X) == step \in [X \X Nat -> X]

\* f[n] == IF n = 0 THEN x0 ELSE step(f[n - 1], n - 1)
IsRecursion(f, x0, step) ==
    f = [n \in Nat |-> IF n = 0 THEN x0 ELSE step[<<f[n - 1], n - 1>>]]

\* h holds the first values, up to the n-th.
IsPrefix(h, X, x0, step, n) ==
    /\ h \in [0 .. n -> X]
    /\ h[0] = x0
    /\ \A j \in 1 .. n : h[j] = step[<<h[j - 1], j - 1>>]

LEMMA PrefixesExist ==
    ASSUME NEW X, NEW x0 \in X, NEW step, IsStep(step, X)
    PROVE  \A n \in Nat : \E h : IsPrefix(h, X, x0, step, n)
<1> DEFINE S == {n \in Nat : \E h : IsPrefix(h, X, x0, step, n)}
<1>1. 0 \in S
  <2>1. IsPrefix([j \in 0 .. 0 |-> x0], X, x0, step, 0)
    BY DEF IsPrefix
  <2> QED
    BY <2>1
<1>2. ASSUME NEW n \in Nat, n \in S PROVE n + 1 \in S
  <2>1. PICK h : IsPrefix(h, X, x0, step, n)
    BY <1>2
  <2> DEFINE x == step[<<h[n], n>>]
             g == [j \in 0 .. n + 1 |-> IF j = n + 1 THEN x ELSE h[j]]
  <2>2. h[n] \in X /\ x \in X
    BY <2>1 DEF IsPrefix, IsStep
  <2>3. g \in [0 .. n + 1 -> X] /\ g[0] = x0
    BY <2>1, <2>2 DEF IsPrefix
  <2>4. ASSUME NEW j \in 1 .. n + 1 PROVE g[j] = step[<<g[j - 1], j - 1>>]
    <3>1. CASE j = n + 1
      <4>1. g[j] = x /\ j - 1 = n /\ g[n] = h[n]
        BY <3>1
      <4> QED
        BY <4>1, Zenon
    <3>2. CASE j # n + 1
      <4>1. j \in 1 .. n /\ g[j] = h[j] /\ g[j - 1] = h[j - 1]
        BY <3>2
      <4> QED
        BY <2>1, <4>1 DEF IsPrefix
    <3> QED
      BY <3>1, <3>2
  <2> HIDE DEF g
  <2>5. IsPrefix(g, X, x0, step, n + 1)
    BY <2>3, <2>4 DEF IsPrefix
  <2> QED
    BY <2>5
<1> HIDE DEF S
<1>3. \A n \in Nat : n \in S
  BY <1>1, <1>2, NatInductionInSet
<1> QED
  BY <1>3 DEF S

LEMMA PrefixesAgree ==
    ASSUME NEW X, NEW x0 \in X, NEW step, IsStep(step, X),
           NEW m \in Nat, NEW n \in Nat, NEW g, NEW h,
           IsPrefix(g, X, x0, step, m), IsPrefix(h, X, x0, step, n)
    PROVE  \A j \in 0 .. m : j <= n => g[j] = h[j]
<1> DEFINE S == {j \in Nat : j <= m /\ j <= n => g[j] = h[j]}
<1>1. 0 \in S
  BY DEF IsPrefix
<1>2. ASSUME NEW j \in Nat, j \in S PROVE j + 1 \in S
  <2> SUFFICES ASSUME j + 1 <= m, j + 1 <= n PROVE g[j + 1] = h[j + 1]
    OBVIOUS
  <2>1. g[j] = h[j]
    BY <1>2
  <2>2. j + 1 \in 1 .. m /\ j + 1 \in 1 .. n /\ (j + 1) - 1 = j
    OBVIOUS
  <2> QED
    BY <2>1, <2>2 DEF IsPrefix
<1> HIDE DEF S
<1>3. \A j \in Nat : j \in S
  BY <1>1, <1>2, NatInductionInSet
<1> QED
  BY <1>3 DEF S

LEMMA RecursionExists ==
    ASSUME NEW X, NEW x0 \in X, NEW step, IsStep(step, X)
    PROVE  \E f \in [Nat -> X] : IsRecursion(f, x0, step)
<1> DEFINE H(n) == CHOOSE h : IsPrefix(h, X, x0, step, n)
           f == [n \in Nat |-> H(n)[n]]
<1>1. \A n \in Nat : IsPrefix(H(n), X, x0, step, n)
  BY PrefixesExist
<1> HIDE DEF H
<1>2. f[0] = x0 /\ f \in [Nat -> X]
  BY <1>1 DEF IsPrefix
<1>3. ASSUME NEW n \in Nat, n # 0 PROVE f[n] = step[<<f[n - 1], n - 1>>]
  <2>1. n - 1 \in Nat /\ n \in 1 .. n /\ n - 1 \in 0 .. n - 1 /\ n - 1 <= n
    BY <1>3
  <2>2. IsPrefix(H(n), X, x0, step, n) /\ IsPrefix(H(n - 1), X, x0, step, n - 1)
    BY <1>1, <2>1
  <2>3. H(n - 1)[n - 1] = H(n)[n - 1]
    <3> DEFINE m == n - 1
    <3>1. m \in Nat /\ m \in 0 .. m /\ m <= n
      BY <2>1
    <3>2. IsPrefix(H(n), X, x0, step, n) /\ IsPrefix(H(m), X, x0, step, m)
      BY <2>2
    <3> HIDE DEF m
    <3>3. \A j \in 0 .. m : j <= n => H(m)[j] = H(n)[j]
      BY <3>1, <3>2, PrefixesAgree
    <3>4. H(m)[m] = H(n)[m]
      BY <3>1, <3>3
    <3> QED
      BY <3>4 DEF m
  <2>4. H(n)[n] = step[<<H(n)[n - 1], n - 1>>]
    BY <2>1, <2>2 DEF IsPrefix
  <2> QED
    BY <2>1, <2>3, <2>4
<1>4. f = [n \in Nat |-> IF n = 0 THEN x0 ELSE step[<<f[n - 1], n - 1>>]]
  <2> DEFINE g == [n \in Nat |-> IF n = 0 THEN x0 ELSE step[<<f[n - 1], n - 1>>]]
  <2>1. ASSUME NEW n \in Nat PROVE f[n] = g[n]
    <3>1. g[n] = IF n = 0 THEN x0 ELSE step[<<f[n - 1], n - 1>>]
      OBVIOUS
    <3> HIDE DEF f, g
    <3> QED
      BY <1>2, <1>3, <3>1
  <2>2. f = [n \in Nat |-> f[n]] /\ g = [n \in Nat |-> g[n]]
    OBVIOUS
  <2> HIDE DEF f, g
  <2>3. f = g
    BY <2>1, <2>2
  <2> QED
    BY <2>3 DEF g
<1> QED
  BY <1>2, <1>4 DEF IsRecursion

------------------------------------------------------------------------------
(* Powers.                                                                  *)

\* The equation a recursive definition of the powers of a stands for has a
\* solution, and every solution is a function into Nat.
LEMMA PowerFunction ==
    ASSUME NEW a \in Nat
    PROVE  \E f : f = [n \in Nat |-> IF n = 0 THEN 1 ELSE a * f[n - 1]]
<1> DEFINE step == [p \in Nat \X Nat |-> a * p[1]]
<1>1. IsStep(step, Nat)
  <2>1. \A m \in Nat : a * m \in Nat
    OBVIOUS
  <2> QED
    BY <2>1 DEF IsStep
<1>2. \A x \in Nat, m \in Nat : step[<<x, m>>] = a * x
  OBVIOUS
<1> HIDE DEF step
<1>3. PICK f \in [Nat -> Nat] : IsRecursion(f, 1, step)
  BY <1>1, RecursionExists
<1>4. \A n \in Nat : n # 0 => step[<<f[n - 1], n - 1>>] = a * f[n - 1]
  <2>1. \A n \in Nat : n # 0 => n - 1 \in Nat /\ f[n - 1] \in Nat
    BY <1>3
  <2> QED
    BY <1>2, <2>1
<1>5. f = [n \in Nat |-> IF n = 0 THEN 1 ELSE a * f[n - 1]]
  BY <1>3, <1>4, Zenon DEF IsRecursion
<1> QED
  BY <1>5

LEMMA PowerValues ==
    ASSUME NEW a \in Nat, NEW f,
           f = [n \in Nat |-> IF n = 0 THEN 1 ELSE a * f[n - 1]]
    PROVE  /\ f \in [Nat -> Nat]
           /\ f[0] = 1
           /\ \A n \in Nat : f[n + 1] = a * f[n]
<1>1. f[0] = 1
  OBVIOUS
<1>2. ASSUME NEW n \in Nat PROVE f[n + 1] = a * f[n]
  <2>1. n + 1 \in Nat /\ n + 1 # 0 /\ (n + 1) - 1 = n
    OBVIOUS
  <2> QED
    BY <2>1
<1> DEFINE S == {n \in Nat : f[n] \in Nat}
<1>3. 0 \in S
  BY <1>1
<1>4. ASSUME NEW n \in Nat, n \in S PROVE n + 1 \in S
  BY <1>2, <1>4
<1>5. \A n \in Nat : n \in S
  <2> HIDE DEF S
  <2> QED
    BY <1>3, <1>4, NatInductionInSet
<1>6. f \in [Nat -> Nat]
  BY <1>5
<1> QED
  BY <1>1, <1>2, <1>6
------------------------------------------------------------------------------
(* Powers of two.                                                           *)

LEMMA Pow2Facts ==
    /\ pow2 \in [Nat -> Nat]
    /\ pow2[0] = 1
    /\ \A n \in Nat : pow2[n + 1] = 2 * pow2[n]
    /\ \A n \in Nat : pow2[n] \in Nat /\ pow2[n] > n
<1>1. \E f : f = [n \in Nat |-> IF n = 0 THEN 1 ELSE 2 * f[n - 1]]
  BY PowerFunction
<1>2. pow2 = [n \in Nat |-> IF n = 0 THEN 1 ELSE 2 * pow2[n - 1]]
  BY <1>1 DEF pow2
<1>3. /\ pow2 \in [Nat -> Nat] /\ pow2[0] = 1
      /\ \A n \in Nat : pow2[n + 1] = 2 * pow2[n]
  <2> DEFINE two == 2
  <2>1. two \in Nat /\ pow2 = [n \in Nat |-> IF n = 0 THEN 1 ELSE two * pow2[n - 1]]
    BY <1>2
  <2> HIDE DEF two
  <2>2. /\ pow2 \in [Nat -> Nat] /\ pow2[0] = 1
        /\ \A n \in Nat : pow2[n + 1] = two * pow2[n]
    BY <2>1, PowerValues, Zenon
  <2> QED
    BY <2>2 DEF two
<1> DEFINE S == {n \in Nat : pow2[n] > n}
<1>4. 0 \in S
  BY <1>3
<1>5. ASSUME NEW n \in Nat, n \in S PROVE n + 1 \in S
  BY <1>3, <1>5
<1>6. \A n \in Nat : n \in S
  <2> HIDE DEF S
  <2> QED
    BY <1>4, <1>5, NatInductionInSet
<1> QED
  BY <1>3, <1>6

LEMMA Pow2Split ==
    ASSUME NEW m \in Nat, NEW n \in Nat
    PROVE  pow2[m + n] = pow2[m] * pow2[n]
<1> DEFINE S == {k \in Nat : pow2[m + k] = pow2[m] * pow2[k]}
<1>1. 0 \in S
  BY Pow2Facts
<1>2. ASSUME NEW k \in Nat, k \in S PROVE k + 1 \in S
  <2>1. m + k \in Nat /\ m + (k + 1) = (m + k) + 1
    OBVIOUS
  <2>2. pow2[m + (k + 1)] = 2 * pow2[m + k] /\ pow2[k + 1] = 2 * pow2[k]
    BY <2>1, Pow2Facts
  <2>3. pow2[m] \in Nat /\ pow2[k] \in Nat /\ pow2[m + k] = pow2[m] * pow2[k]
    BY <1>2, Pow2Facts
  <2>4. pow2[m + (k + 1)] = pow2[m] * pow2[k + 1]
    <3> DEFINE a == pow2[m]  b == pow2[k]
    <3> HIDE DEF a, b
    <3>1. a \in Nat /\ b \in Nat /\ pow2[m + (k + 1)] = 2 * (a * b) /\ pow2[k + 1] = 2 * b
      BY <2>2, <2>3 DEF a, b
    <3>2. 2 * (a * b) = a * (2 * b)
      BY <3>1
    <3> QED
      BY <3>1, <3>2 DEF a
  <2> QED
    BY <2>4
<1> HIDE DEF S
<1>3. \A k \in Nat : k \in S
  BY <1>1, <1>2, NatInductionInSet
<1> QED
  BY <1>3 DEF S

LEMMA Pow2Monotone ==
    ASSUME NEW m \in Nat, NEW n \in Nat
    PROVE  /\ m <= n => pow2[m] <= pow2[n]
           /\ m < n => 2 * pow2[m] <= pow2[n]
<1>1. ASSUME NEW k \in Nat, NEW l \in Nat, k <= l PROVE pow2[k] <= pow2[l]
  <2>1. l - k \in Nat /\ k + (l - k) = l
    BY <1>1
  <2>2. pow2[l] = pow2[k] * pow2[l - k]
    BY <2>1, Pow2Split
  <2>3. pow2[k] \in Nat /\ pow2[l - k] \in Nat /\ 1 <= pow2[l - k]
    BY <2>1, Pow2Facts
  <2>4. pow2[k] * 1 <= pow2[k] * pow2[l - k]
    BY <2>3, TimesMonotone
  <2> QED
    BY <2>2, <2>3, <2>4
<1>2. ASSUME m < n PROVE 2 * pow2[m] <= pow2[n]
  <2>1. pow2[m + 1] <= pow2[n]
    BY <1>1, <1>2
  <2> QED
    BY <2>1, Pow2Facts
<1> QED
  BY <1>1, <1>2

------------------------------------------------------------------------------
(* Quotients and remainders.                                                *)

LEMMA QuotientUnique ==
    ASSUME NEW a \in Nat \ {0}, NEW q \in Int, NEW r \in 0 .. a - 1
    PROVE  (a * q + r) \div a = q /\ (a * q + r) % a = r
OBVIOUS

LEMMA IntQuotient ==
    ASSUME NEW a \in Nat \ {0}, NEW x \in Int
    PROVE  x \div a \in Int /\ x % a \in 0 .. a - 1 /\ x = a * (x \div a) + (x % a)
OBVIOUS

\* Dividing by a and then by b.
LEMMA QuotientTwice ==
    ASSUME NEW a \in Nat \ {0}, NEW b \in Nat \ {0}, NEW x \in Int
    PROVE  /\ (x \div a) \div b = x \div (a * b)
           /\ (x % (a * b)) % a = x % a
           /\ (x % (a * b)) \div a = (x \div a) % b
           /\ x % (a * b) = a * ((x \div a) % b) + (x % a)
<1> DEFINE q == x \div a
           r == x % a
           p == q \div b
           s == q % b
<1>1. q \in Int /\ r \in 0 .. a - 1 /\ x = a * q + r
  BY IntQuotient
<1>2. p \in Int /\ s \in 0 .. b - 1 /\ q = b * p + s
  BY <1>1, IntQuotient
<1>3. a * b \in Nat \ {0}
  OBVIOUS
<1> HIDE DEF q, r, p, s
<1>4. a * s + r \in 0 .. a * b - 1
  <2>1. a * s <= a * (b - 1) /\ a * s \in Nat
    BY <1>2, TimesMonotone
  <2>2. a * (b - 1) = a * b - a
    OBVIOUS
  <2> QED
    BY <1>1, <1>3, <2>1, <2>2
<1>5. x = (a * b) * p + (a * s + r)
  <2>1. a * (b * p + s) = (a * b) * p + a * s
    BY <1>2
  <2> QED
    BY <1>1, <1>2, <2>1
<1>6. x \div (a * b) = p /\ x % (a * b) = a * s + r
  <2> DEFINE c == a * b
             t == a * s + r
  <2>1. c \in Nat \ {0} /\ t \in 0 .. c - 1 /\ x = c * p + t
    BY <1>3, <1>4, <1>5
  <2> HIDE DEF c, t
  <2>2. (c * p + t) \div c = p /\ (c * p + t) % c = t
    BY <1>2, <2>1, QuotientUnique
  <2>3. x \div c = p /\ x % c = t
    BY <2>1, <2>2
  <2> QED
    BY <2>3 DEF c, t
<1>7. (a * s + r) \div a = s /\ (a * s + r) % a = r
  BY <1>1, <1>2, QuotientUnique
<1> QED
  BY <1>6, <1>7 DEF q, r, p, s

------------------------------------------------------------------------------
(* Bits.                                                                    *)

LEMMA BitType ==
    ASSUME NEW x \in Int, NEW k \in Nat
    PROVE  Bit(x, k) \in {0, 1} /\ x \div pow2[k] \in Int
<1>1. pow2[k] \in Nat \ {0}
  BY Pow2Facts
<1>2. x \div pow2[k] \in Int
  BY <1>1, IntQuotient
<1> QED
  BY <1>2 DEF Bit

\* The bits of a shifted word, and of one cut to n bits.
LEMMA BitShifted ==
    ASSUME NEW x \in Int, NEW s \in Nat, NEW k \in Nat
    PROVE  Bit(x \div pow2[s], k) = Bit(x, s + k)
<1>1. pow2[s] \in Nat \ {0} /\ pow2[k] \in Nat \ {0}
  BY Pow2Facts
<1>3. pow2[s + k] = pow2[s] * pow2[k]
  BY Pow2Split
<1>2. (x \div pow2[s]) \div pow2[k] = x \div (pow2[s] * pow2[k])
  BY <1>1, QuotientTwice
<1> QED
  BY <1>2, <1>3 DEF Bit

LEMMA BitCut ==
    ASSUME NEW x \in Int, NEW n \in Nat, NEW k \in Nat, k < n
    PROVE  Bit(x % pow2[n], k) = Bit(x, k)
<1> DEFINE a == pow2[k]
           b == pow2[n - k - 1]
<1>1. n - k - 1 \in Nat /\ n - k \in Nat /\ n = k + (n - k) /\ n - k = (n - k - 1) + 1
  OBVIOUS
<1>2. a \in Nat \ {0} /\ b \in Nat \ {0}
  BY <1>1, Pow2Facts
<1>3. pow2[n] = a * (2 * b)
  <2>1. pow2[n] = a * pow2[n - k]
    BY <1>1, Pow2Split
  <2>2. pow2[n - k] = 2 * b
    BY <1>1, Pow2Facts
  <2> QED
    BY <2>1, <2>2
<1> HIDE DEF a, b
<1>4. 2 * b \in Nat \ {0} /\ x \div a \in Int
  <2>1. 2 * b \in Nat \ {0}
    BY <1>2
  <2> QED
    BY <1>2, <2>1, IntQuotient
<1>5. (x % (a * (2 * b))) \div a = (x \div a) % (2 * b)
  BY <1>2, <1>4, QuotientTwice
<1>6. ((x \div a) % (2 * b)) % 2 = (x \div a) % 2
  <2> DEFINE z == x \div a
  <2> HIDE DEF z
  <2>1. z \in Int
    BY <1>4 DEF z
  <2>2. 2 \in Nat \ {0}
    OBVIOUS
  <2>3. (z % (2 * b)) % 2 = z % 2
    BY <1>2, <2>1, <2>2, QuotientTwice
  <2> QED
    BY <2>3 DEF z
<1> QED
  BY <1>3, <1>5, <1>6 DEF Bit, a

\* A word of n + 1 bits is its highest bit and the rest.
LEMMA HighestBit ==
    ASSUME NEW x \in Int, NEW n \in Nat
    PROVE  x % pow2[n + 1] = pow2[n] * Bit(x, n) + (x % pow2[n])
<1>1. pow2[n] \in Nat \ {0} /\ pow2[n + 1] = pow2[n] * 2
  BY Pow2Facts
<1>2. x % (pow2[n] * 2) = pow2[n] * ((x \div pow2[n]) % 2) + (x % pow2[n])
  <2> DEFINE a == pow2[n]
  <2>1. a \in Nat \ {0} /\ 2 \in Nat \ {0}
    BY <1>1
  <2> HIDE DEF a
  <2>2. x % (a * 2) = a * ((x \div a) % 2) + (x % a)
    BY <2>1, QuotientTwice
  <2> QED
    BY <2>2 DEF a
<1> QED
  BY <1>1, <1>2 DEF Bit

LEMMA Small ==
    ASSUME NEW a \in Nat, NEW x \in 0 .. a - 1
    PROVE  x % a = x /\ x \div a = 0
OBVIOUS

LEMMA NoBitBeyond ==
    ASSUME NEW n \in Nat, NEW x \in 0 .. pow2[n] - 1, NEW k \in Nat, n <= k
    PROVE  Bit(x, k) = 0
<1>1. pow2[n] <= pow2[k] /\ pow2[n] \in Nat /\ pow2[k] \in Nat
  BY Pow2Facts, Pow2Monotone
<1>2. x \in 0 .. pow2[k] - 1
  BY <1>1
<1>3. x \div pow2[k] = 0
  BY <1>1, <1>2, Small
<1> QED
  BY <1>3 DEF Bit

\* Words with the same bits are the same.
LEMMA BitsDetermine ==
    ASSUME NEW n \in Nat, NEW x \in Int, NEW y \in Int,
           \A k \in 0 .. n - 1 : Bit(x, k) = Bit(y, k)
    PROVE  x % pow2[n] = y % pow2[n]
<1> DEFINE S == {m \in Nat : m <= n => x % pow2[m] = y % pow2[m]}
<1>1. 0 \in S
  BY Pow2Facts
<1>2. ASSUME NEW m \in Nat, m \in S PROVE m + 1 \in S
  <2> SUFFICES ASSUME m + 1 <= n PROVE x % pow2[m + 1] = y % pow2[m + 1]
    OBVIOUS
  <2>1. x % pow2[m] = y % pow2[m] /\ Bit(x, m) = Bit(y, m)
    BY <1>2
  <2> QED
    BY <2>1, HighestBit
<1> HIDE DEF S
<1>3. \A m \in Nat : m \in S
  BY <1>1, <1>2, NatInductionInSet
<1> QED
  BY <1>3 DEF S

LEMMA WordsEqual ==
    ASSUME NEW n \in Nat, NEW x \in 0 .. pow2[n] - 1, NEW y \in 0 .. pow2[n] - 1,
           \A k \in 0 .. n - 1 : Bit(x, k) = Bit(y, k)
    PROVE  x = y
<1>1. pow2[n] \in Nat
  BY Pow2Facts
<1>2. x % pow2[n] = y % pow2[n]
  BY <1>1, BitsDetermine
<1> QED
  BY <1>1, <1>2, Small

------------------------------------------------------------------------------
(* Numbers made from sets of positions.                                     *)

\* What the recursive definition in Number stands for.
Weight(S, n) == IF n \in S THEN pow2[n] ELSE 0

LEMMA NumberFunction ==
    ASSUME NEW S \in SUBSET Nat
    PROVE  \E v \in [Nat -> Nat] :
              /\ v[0] = 0
              /\ \A n \in Nat : v[n + 1] = v[n] + Weight(S, n)
              /\ \A w \in Nat : Number(w, S) = v[w]
<1> DEFINE X == [SUBSET Nat -> Nat]
           Added(g, m) == [T \in SUBSET Nat |-> g[T] + Weight(T, m)]
           step == [p \in X \X Nat |-> Added(p[1], p[2])]
           zero == [T \in SUBSET Nat |-> 0]
<1>1. \A T, n : n \in Nat => Weight(T, n) \in Nat
  BY Pow2Facts DEF Weight
<1>2. \A g \in X, m \in Nat : Added(g, m) \in X /\ step[<<g, m>>] = Added(g, m)
  <2>1. ASSUME NEW g \in X, NEW m \in Nat PROVE Added(g, m) \in X
    <3>1. \A T \in SUBSET Nat : g[T] + Weight(T, m) \in Nat
      <4>1. \A T \in SUBSET Nat : g[T] \in Nat /\ Weight(T, m) \in Nat
        BY <1>1
      <4> QED
        BY <4>1
    <3> QED
      BY <3>1
  <2> HIDE DEF X, Added
  <2> QED
    BY <2>1
<1>3. IsStep(step, X) /\ zero \in X
  <2>1. zero \in X
    OBVIOUS
  <2> HIDE DEF X, Added, zero
  <2>2. IsStep(step, X)
    BY <1>2 DEF IsStep
  <2> QED
    BY <2>1, <2>2
<1> HIDE DEF step, X, Added, zero
<1>4. PICK f \in [Nat -> X] : IsRecursion(f, zero, step)
  BY <1>3, RecursionExists
<1>5. \A n \in Nat : n # 0 => step[<<f[n - 1], n - 1>>] = Added(f[n - 1], n - 1)
  <2>1. \A n \in Nat : n # 0 => n - 1 \in Nat /\ f[n - 1] \in X
    BY <1>4
  <2> QED
    BY <1>2, <2>1
<1>6. f = [n \in Nat |-> IF n = 0 THEN zero ELSE Added(f[n - 1], n - 1)]
  BY <1>4, <1>5, Zenon DEF IsRecursion
<1>7. f = [n \in Nat |->
             [T \in SUBSET Nat |->
                 IF n = 0 THEN 0 ELSE f[n - 1][T] + IF n - 1 \in T THEN pow2[n - 1] ELSE 0]]
  <2>1. \A n \in Nat : (IF n = 0 THEN zero ELSE Added(f[n - 1], n - 1))
                     = [T \in SUBSET Nat |->
                          IF n = 0 THEN 0 ELSE f[n - 1][T] + IF n - 1 \in T THEN pow2[n - 1] ELSE 0]
    BY DEF zero, Added, Weight
  <2> QED
    BY <1>6, <2>1, Zenon
<1>8. number = [n \in Nat |->
             [T \in SUBSET Nat |->
                 IF n = 0 THEN 0 ELSE number[n - 1][T] + IF n - 1 \in T THEN pow2[n - 1] ELSE 0]]
  BY <1>7, Zenon DEF number
<1> DEFINE v == [n \in Nat |-> number[n][S]]
<1>9. \A n \in Nat : number[n][S] = IF n = 0 THEN 0 ELSE number[n - 1][S] + Weight(S, n - 1)
  <2>1. \A n \in Nat : number[n] = [T \in SUBSET Nat |->
              IF n = 0 THEN 0 ELSE number[n - 1][T] + IF n - 1 \in T THEN pow2[n - 1] ELSE 0]
    BY <1>8, Zenon
  <2>2. \A n \in Nat : number[n][S] =
              IF n = 0 THEN 0 ELSE number[n - 1][S] + IF n - 1 \in S THEN pow2[n - 1] ELSE 0
    BY <2>1, Zenon
  <2> QED
    BY <2>2 DEF Weight
<1>10. v[0] = 0 /\ \A n \in Nat : v[n + 1] = v[n] + Weight(S, n)
  <2>1. \A n \in Nat : n + 1 \in Nat /\ n + 1 # 0 /\ (n + 1) - 1 = n
    OBVIOUS
  <2> QED
    BY <1>9, <2>1
<1>11. \A w \in Nat : Number(w, S) = v[w]
  BY DEF Number
<1>12. DOMAIN v = Nat /\ v = [n \in Nat |-> v[n]]
  OBVIOUS
<1> HIDE DEF v
<1> DEFINE T == {n \in Nat : v[n] \in Nat}
<1>13. \A n \in Nat : n \in T
  <2>1. 0 \in T /\ \A n \in Nat : n \in T => n + 1 \in T
    BY <1>1, <1>10
  <2> HIDE DEF T
  <2> QED
    BY <2>1, NatInductionInSet
<1>14. v \in [Nat -> Nat]
  BY <1>12, <1>13
<1> QED
  BY <1>10, <1>11, <1>14

LEMMA NumberBits ==
    ASSUME NEW w \in Nat, NEW S \in SUBSET Nat
    PROVE  /\ Number(w, S) \in 0 .. pow2[w] - 1
           /\ \A k \in 0 .. w - 1 : Bit(Number(w, S), k) = 1 <=> k \in S
<1>1. PICK v \in [Nat -> Nat] :
          /\ v[0] = 0
          /\ \A n \in Nat : v[n + 1] = v[n] + Weight(S, n)
          /\ Number(w, S) = v[w]
  BY NumberFunction
<1>2. \A n \in Nat : pow2[n] \in Nat \ {0} /\ Weight(S, n) \in {0, pow2[n]}
  BY Pow2Facts DEF Weight
<1> DEFINE T == {n \in Nat : v[n] < pow2[n]}
<1>3. \A n \in Nat : n \in T
  <2>1. 0 \in T
    BY <1>1, Pow2Facts
  <2>2. ASSUME NEW n \in Nat, n \in T PROVE n + 1 \in T
    BY <1>1, <1>2, <2>2, Pow2Facts
  <2> HIDE DEF T
  <2> QED
    BY <2>1, <2>2, NatInductionInSet
<1>4. ASSUME NEW n \in Nat
      PROVE  v[n + 1] % pow2[n] = v[n] /\ v[n + 1] \div pow2[n] = IF n \in S THEN 1 ELSE 0
  <2> DEFINE a == pow2[n]
             r == v[n]
             q == IF n \in S THEN 1 ELSE 0
  <2>1. a \in Nat \ {0} /\ r \in 0 .. a - 1 /\ q \in {0, 1} /\ v[n + 1] = a * q + r
    BY <1>1, <1>2, <1>3 DEF Weight
  <2> HIDE DEF a, r, q
  <2>3. q \in Int
    BY <2>1
  <2>2. (a * q + r) % a = r /\ (a * q + r) \div a = q
    BY <2>1, <2>3, QuotientUnique
  <2> QED
    BY <2>1, <2>2 DEF a, r, q
\* The sum up to a later position has the same low bits.
<1>5. ASSUME NEW k \in Nat, NEW d \in Nat PROVE v[k + d] % pow2[k] = v[k]
  <2> DEFINE U == {e \in Nat : v[k + e] % pow2[k] = v[k]}
  <2>1. 0 \in U
    <3>1. v[k] \in 0 .. pow2[k] - 1
      BY <1>1, <1>2, <1>3
    <3> QED
      BY <1>2, <3>1, Small
  <2>2. ASSUME NEW e \in Nat, e \in U PROVE e + 1 \in U
    <3> DEFINE a == pow2[k]
               b == pow2[e]
               x == v[k + (e + 1)]
    <3>1. k + e \in Nat /\ k + (e + 1) = (k + e) + 1 /\ k + (e + 1) \in Nat
      OBVIOUS
    <3>2. a \in Nat \ {0} /\ b \in Nat \ {0} /\ x \in Int
      BY <1>1, <1>2, <3>1
    <3>6. pow2[k + e] = a * b
      BY Pow2Split
    <3>3. x % pow2[k + e] = v[k + e]
      BY <1>4, <3>1
    <3> HIDE DEF a, b, x
    <3>4. (x % (a * b)) % a = x % a
      BY <3>2, QuotientTwice
    <3>5. v[k + e] % a = v[k]
      BY <2>2 DEF a
    <3> QED
      BY <3>2, <3>3, <3>4, <3>5, <3>6 DEF a, x
  <2> HIDE DEF U
  <2>3. d \in U
    BY <2>1, <2>2, NatInductionInSet
  <2> QED
    BY <2>3 DEF U
<1>6. ASSUME NEW k \in 0 .. w - 1 PROVE Bit(v[w], k) = 1 <=> k \in S
  <2>1. w - (k + 1) \in Nat /\ w = (k + 1) + (w - (k + 1)) /\ k + 1 \in Nat /\ k \in Nat
    OBVIOUS
  <2>2. v[w] % pow2[k + 1] = v[k + 1]
    BY <1>5, <2>1
  <2>3. Bit(v[k + 1], k) = Bit(v[w], k)
    <3>1. v[w] \in Int
      BY <1>1
    <3> QED
      BY <2>1, <2>2, <3>1, BitCut
  <2>4. v[k + 1] \div pow2[k] = IF k \in S THEN 1 ELSE 0
    BY <1>4, <2>1
  <2> QED
    BY <2>3, <2>4 DEF Bit
<1> QED
  BY <1>1, <1>2, <1>3, <1>6

------------------------------------------------------------------------------
(* Bitwise operators.                                                       *)

LEMMA AndBits ==
    ASSUME NEW w \in Nat, NEW x, NEW y
    PROVE  /\ And(w, x, y) \in 0 .. pow2[w] - 1
           /\ \A k \in 0 .. w - 1 :
                 Bit(And(w, x, y), k) = 1 <=> Bit(x, k) = 1 /\ Bit(y, k) = 1
BY NumberBits DEF And

LEMMA OrBits ==
    ASSUME NEW w \in Nat, NEW x, NEW y
    PROVE  /\ Or(w, x, y) \in 0 .. pow2[w] - 1
           /\ \A k \in 0 .. w - 1 :
                 Bit(Or(w, x, y), k) = 1 <=> Bit(x, k) = 1 \/ Bit(y, k) = 1
BY NumberBits DEF Or

LEMMA XorBits ==
    ASSUME NEW w \in Nat, NEW x, NEW y
    PROVE  /\ Xor(w, x, y) \in 0 .. pow2[w] - 1
           /\ \A k \in 0 .. w - 1 : Bit(Xor(w, x, y), k) = 1 <=> Bit(x, k) # Bit(y, k)
BY NumberBits DEF Xor

\* Equality of words is tested by an exclusive or.
LEMMA XorZero ==
    ASSUME NEW w \in Nat, NEW x \in 0 .. pow2[w] - 1, NEW y \in 0 .. pow2[w] - 1
    PROVE  Xor(w, x, y) = 0 <=> x = y
<1>0. pow2[w] \in Nat \ {0} /\ Xor(w, x, y) \in 0 .. pow2[w] - 1 /\ 0 \in 0 .. pow2[w] - 1
  BY Pow2Facts, XorBits
<1>1. ASSUME NEW k \in 0 .. w - 1 PROVE Bit(0, k) = 0
  <2>1. pow2[k] \in Nat /\ 0 \in 0 .. pow2[k] - 1
    BY Pow2Facts
  <2>2. 0 \div pow2[k] = 0
    BY <2>1, Small
  <2> QED
    BY <2>2 DEF Bit
<1>2. \A k \in 0 .. w - 1 : Bit(Xor(w, x, y), k) \in {0, 1}
  BY <1>0, BitType
<1>3. ASSUME Xor(w, x, y) = 0 PROVE x = y
  <2>1. \A k \in 0 .. w - 1 : Bit(x, k) = Bit(y, k)
    BY <1>1, <1>3, XorBits
  <2> QED
    BY <2>1, WordsEqual
<1>4. ASSUME x = y PROVE Xor(w, x, y) = 0
  <2>1. \A k \in 0 .. w - 1 : Bit(Xor(w, x, y), k) # 1
    BY <1>4, XorBits
  <2>2. \A k \in 0 .. w - 1 : Bit(Xor(w, x, y), k) = Bit(0, k)
    BY <1>1, <1>2, <2>1
  <2> QED
    BY <1>0, <2>2, WordsEqual
<1> QED
  BY <1>3, <1>4

\* The ones of a mask, and what masking does.
LEMMA MaskBits ==
    ASSUME NEW n \in Nat, NEW k \in Nat
    PROVE  Bit(pow2[n] - 1, k) = IF k < n THEN 1 ELSE 0
<1>1. CASE n <= k
  <2>1. pow2[n] - 1 \in 0 .. pow2[n] - 1
    BY Pow2Facts
  <2> QED
    BY <1>1, <2>1, NoBitBeyond
<1>2. CASE k < n
  <2> DEFINE a == pow2[k]
             b == pow2[n - k - 1]
             q == 2 * b - 1
             r == a - 1
  <2>1. n - k - 1 \in Nat /\ n - k \in Nat /\ n = k + (n - k) /\ n - k = (n - k - 1) + 1
    BY <1>2
  <2>2. a \in Nat \ {0} /\ b \in Nat \ {0}
    BY <2>1, Pow2Facts
  <2>3. pow2[n] = a * (2 * b)
    <3>1. pow2[n] = a * pow2[n - k]
      BY <2>1, Pow2Split
    <3>2. pow2[n - k] = 2 * b
      BY <2>1, Pow2Facts
    <3> QED
      BY <3>1, <3>2
  <2> HIDE DEF a, b
  <2>4. q \in Int /\ r \in 0 .. a - 1 /\ pow2[n] - 1 = a * q + r
    <3>1. a * (2 * b) - 1 = a * (2 * b - 1) + (a - 1)
      BY <2>2
    <3> QED
      BY <2>2, <2>3, <3>1
  <2>5. q % 2 = 1
    BY <2>2
  <2> HIDE DEF q, r
  <2>6. (pow2[n] - 1) \div a = q
    BY <2>2, <2>4, QuotientUnique
  <2> QED
    BY <1>2, <2>5, <2>6 DEF Bit, a
<1> QED
  BY <1>1, <1>2

LEMMA Masked ==
    ASSUME NEW w \in Nat, NEW n \in 0 .. w, NEW x \in Int
    PROVE  And(w, x, pow2[n] - 1) = x % pow2[n]
<1> DEFINE y == And(w, x, pow2[n] - 1)
           z == x % pow2[n]
<1>0. n \in Nat /\ n <= w
  OBVIOUS
<1>1. pow2[n] \in Nat \ {0} /\ pow2[w] \in Nat \ {0} /\ pow2[n] <= pow2[w]
  <2>1. pow2[n] <= pow2[w]
    BY <1>0, Pow2Monotone
  <2> QED
    BY <1>0, <2>1, Pow2Facts
<1>2. z \in 0 .. pow2[n] - 1 /\ z \in 0 .. pow2[w] - 1
  <2>1. z \in 0 .. pow2[n] - 1
    BY <1>1, IntQuotient
  <2> QED
    BY <1>1, <2>1
<1>3. y \in 0 .. pow2[w] - 1
  BY AndBits
<1>4. ASSUME NEW k \in 0 .. w - 1 PROVE Bit(y, k) = Bit(z, k)
  <2>1. Bit(y, k) \in {0, 1} /\ Bit(z, k) \in {0, 1} /\ Bit(x, k) \in {0, 1}
    <3>1. y \in Int /\ z \in Int
      BY <1>2, <1>3
    <3> HIDE DEF y, z
    <3> QED
      BY <3>1, BitType
  <2>2. Bit(y, k) = 1 <=> Bit(x, k) = 1 /\ Bit(pow2[n] - 1, k) = 1
    BY AndBits
  <2>3. CASE k < n
    BY <1>0, <2>1, <2>2, <2>3, BitCut, MaskBits
  <2>4. CASE n <= k
    <3>1. Bit(z, k) = 0
      BY <1>0, <1>2, <2>4, NoBitBeyond
    <3> QED
      BY <1>0, <2>1, <2>2, <2>4, <3>1, MaskBits
  <2> QED
    BY <2>3, <2>4
<1> HIDE DEF y, z
<1>5. y = z
  BY <1>2, <1>3, <1>4, WordsEqual
<1> QED
  BY <1>5 DEF y, z
==============================================================================
