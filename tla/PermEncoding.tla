---------------------------- MODULE PermEncoding ----------------------------
(***************************************************************************)
(* PermEncoding (permencoding.h): the low bits of four tags, in ascending  *)
(* order, are stored as their index in the order in which gen_tables       *)
(* visits all such quadruples.                                             *)
(***************************************************************************)
EXTENDS Integers, FiniteSets

CONSTANT Nibbles   \* low bits are in 0 .. Nibbles - 1; 16 in the code

\* The quadruples that gen_tables visits: no nibble is below the one before.
Ascending ==
    {q \in [1 .. 4 -> 0 .. Nibbles - 1] : q[1] <= q[2] /\ q[2] <= q[3] /\ q[3] <= q[4]}

\* gen_tables comes to r before q: the recursion varies the last nibble fastest.
Earlier(r, q) == \E k \in 1 .. 4 : r[k] < q[k] /\ \A j \in 1 .. k - 1 : r[j] = q[j]

\* idx when gen_tables comes to q.
idx(q) == Cardinality({r \in Ascending : Earlier(r, q)})

\* The entries of enc_table that gen_tables does not write stay 0.
enc_table == [q \in [1 .. 4 -> 0 .. Nibbles - 1] |-> IF q \in Ascending THEN idx(q) ELSE 0]

dec_table == [c \in 0 .. Cardinality(Ascending) - 1 |-> CHOOSE q \in Ascending : idx(q) = c]

==============================================================================
