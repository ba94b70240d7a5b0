------------------------------- MODULE Words --------------------------------
(***************************************************************************)
(* Machine words as numbers: powers of two, the bits of a word, and the    *)
(* bitwise operators on words of w bits.  The bits below w that are one    *)
(* are a set; the operators are those of sets.                             *)
(***************************************************************************)
EXTENDS Integers

\* 1 << n
pow2[n \in Nat] == IF n = 0 THEN 1 ELSE 2 * pow2[n - 1]

\* Bit k of the number v.
Bit(v, k) == (v \div pow2[k]) % 2

\* The number of w bits that has its ones at the positions in S.
number[w \in Nat] ==
    [S \in SUBSET Nat |->
        IF w = 0 THEN 0 ELSE number[w - 1][S] + IF w - 1 \in S THEN pow2[w - 1] ELSE 0]

Number(w, S) == number[w][S]

\* x & y, x | y, x ^ y
And(w, x, y) == Number(w, {k \in 0 .. w - 1 : Bit(x, k) = 1 /\ Bit(y, k) = 1})
Or(w, x, y)  == Number(w, {k \in 0 .. w - 1 : Bit(x, k) = 1 \/ Bit(y, k) = 1})
Xor(w, x, y) == Number(w, {k \in 0 .. w - 1 : Bit(x, k) # Bit(y, k)})

==============================================================================
