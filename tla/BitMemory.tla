----------------------------- MODULE BitMemory ------------------------------
(***************************************************************************)
(* The bytes of a tag table, as the set of the positions of their ones:    *)
(* bit b is bit b % 8 of byte b \div 8, as in the little-endian words that *)
(* the tables load, shift and mask.                                        *)
(***************************************************************************)
EXTENDS Words

\* What n bits of memory m hold, by the position of the first.
Field(m, n) == [at \in Nat |-> Number(n, {b - at : b \in m \cap (at .. at + n - 1)})]

\* m with the n bits from `at` on cleared by a mask and value v put there.
Stored(m, at, n, v) ==
    LET there == at .. at + n - 1
    IN (m \ there) \union {b \in there : Bit(v, b - at) = 1}

==============================================================================
