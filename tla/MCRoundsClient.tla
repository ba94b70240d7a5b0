---------------------------- MODULE MCRoundsClient ----------------------------
(***************************************************************************)
(* Instances of RoundsClient.  A key is <<h, m, f0, f1>>: its index_hash,  *)
(* what alt_index xors with, and its fingerprints under even and under odd *)
(* seeds.                                                                  *)
(***************************************************************************)
EXTENDS RoundsClient

MCNoKey == <<0, 0, 0, 0>>
MCKeys == {<<0, 1, 1, 1>>, <<0, 1, 1, 2>>, <<1, 1, 2, 1>>, <<0, 0, 1, 2>>,
           <<1, 0, 2, 1>>}
MCHashIndex == [k \in Keys |-> k[1]]
MCAltIndex == [k \in Keys \union {NoKey} |->
                 [b \in BucketIndex |-> (b + k[2]) % 2]]
MCPartialKey == [k \in Keys |-> [sd \in Seeds |-> k[3 + (sd % 2)]]]

OnlyNoKey == {MCNoKey}
ZeroMemory == {0}
==============================================================================
