---------------------------- MODULE MCFilterClient ----------------------------
(***************************************************************************)
(* Instances of FilterClient.  An item is <<h, m, t>>: its IndexHash, what *)
(* its alternate index xors with, and its tag under seed 0; seed 1 permutes*)
(* the tags.  A tag t takes a bucket to its alternate by xor with t % 2.   *)
(***************************************************************************)
EXTENDS FilterClient

MCItems == {<<0, 1, 1>>, <<0, 0, 2>>, <<1, 1, 2>>, <<1, 0, 3>>}
\* Every vector of seeds, and the empty one.
MCSeedVectors == [TagBuckets -> FilterSeeds] \union {<<>>}
ZeroSeeds == {[b \in TagBuckets |-> 0]}
FirstConstructor == {<<>>}
MCFilterHash == [x \in Items |-> [sd \in FilterSeeds |-> 1 + ((x[3] + sd - 1) % 3)]]
MCFilterIndex == [x \in Items |-> x[1]]
MCAltIndexOfItem == [x \in Items |-> [b \in TagBuckets |-> (b + x[2]) % 2]]
MCAltIndexOfTag == [t \in Tags |-> [b \in TagBuckets |-> (b + t) % 2]]
==============================================================================
