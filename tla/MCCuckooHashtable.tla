-------------------------- MODULE MCCuckooHashtable --------------------------
(***************************************************************************)
(* Instances of CuckooHashtable.  A key is a tuple <<h, m, n>>: h is its   *)
(* index_hash, m the value alt_index xors with, n tells keys of one class  *)
(* apart.  The keys of an instance span the ways buckets can be linked, so *)
(* the order of insertions that TLC chooses also chooses the hash graph.   *)
(***************************************************************************)
EXTENDS CuckooHashtable

Bit(a, n) == (a \div 2 ^ n) % 2
Xor(a, b) == ((Bit(a, 0) + Bit(b, 0)) % 2) + 2 * ((Bit(a, 1) + Bit(b, 1)) % 2)

MCNoKey == <<0, 0, 0>>
MCHashIndex == [k \in Keys |-> k[1] % BucketCount]
MCAltIndex == [k \in Keys \union {NoKey} |->
                 [b \in BucketIndex |-> Xor(b, k[2]) % BucketCount]]
MCPartialKey == [k \in Keys |-> [s \in Seeds |-> 1 + ((k[1] + k[2] + k[3]) % 3)]]

\* Four buckets linked in a ring and across it.
RingKeys == {<<0, 1, 1>>, <<0, 1, 2>>, <<0, 1, 3>>, <<1, 2, 1>>, <<1, 2, 2>>,
             <<3, 1, 1>>, <<0, 0, 1>>}

\* Two full buckets and one more that only the last slot of the second leads to.
WideKeys == {<<0, 1, n>> : n \in 1 .. 4} \union
            {<<1, 1, 1>>, <<1, 1, 2>>, <<1, 2, 1>>}

OnlyNoKey == {MCNoKey}
ZeroKey == {<<0, 0, 1>>}  \* memory that is a key: zeros are the key 0
NoPartialOnly == {0}
==============================================================================
