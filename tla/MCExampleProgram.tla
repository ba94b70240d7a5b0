--------------------------- MODULE MCExampleProgram ---------------------------
(***************************************************************************)
(* Instances of ExampleProgram.  A key is <<side, h, m, f0, f1>>: the      *)
(* vector it may be drawn into (0 for r, 1 for s, 2 for both), its         *)
(* index_hash, what alt_index xors with, and its fingerprints under seeds  *)
(* 0 and 1.  Under seed 2 and later the sides have different fingerprints, *)
(* so every run of rounds ends, and takes up to three of them.             *)
(***************************************************************************)
EXTENDS ExampleProgram

MCNoKey == <<0, 0, 0, 0, 0>>
Side(side, hs, ms, fs) ==
    {<<side, h, m, f0, f1>> : h \in hs, m \in ms, f0 \in fs, f1 \in fs}

MCHashIndex == [k \in Keys |-> k[2]]
MCAltIndex == [k \in Keys \union {NoKey} |->
                 [b \in BucketIndex |-> (b + k[3]) % 2]]
MCPartialKey == [k \in Keys |->
                   [sd \in Seeds |-> IF sd < 2 THEN k[4 + sd] ELSE 3 + k[1]]]

\* Injective vectors of a length.
Vectors(S, len) ==
    {v \in [1 .. len -> S] : \A a, b \in 1 .. len : v[a] = v[b] => a = b}

RUniverse == Side(0, {0, 1}, {0, 1}, {1}) \union Side(0, {0}, {1}, {1, 2})

\* Vectors that overfill bucket 0: with a key that has to move, with keys that
\* cannot; and a vector with the same key twice.
Movable(f) == <<0, 0, 1, f, 1>>
Fixed(f)   == <<0, 0, 0, 1, f>>
CrowdedR == {<<Movable(1), Movable(2), Fixed(1)>>,
             <<Movable(2), Movable(1), Fixed(1)>>,
             <<Fixed(1), Fixed(2), <<0, 0, 0, 2, 1>>>>,
             <<Movable(1), Movable(1)>>}

SUniverse == Side(1, {0, 1}, {0, 1}, {1, 2})
Shared == <<2, 0, 1, 1, 1>>  \* a key r and s may have in common
ProgramR == Vectors(RUniverse, 2) \union CrowdedR
            \union {<<Shared, Movable(1)>>, <<Fixed(1), Movable(1), Shared>>}
ProgramS == Vectors(SUniverse, 2) \union {<<<<1, 0, 1, 1, 2>>, Shared>>}
ProgramKeys == RUniverse \union SUniverse \union
               {Fixed(1), Fixed(2), <<0, 0, 0, 2, 1>>, Shared}

NoGarbageKeys == {MCNoKey}
ZeroMemory == {0}
StaleMemory == {NoPartial}
ShortR == Vectors(RUniverse, 1)
ShortS == Vectors(SUniverse, 1)
==============================================================================
