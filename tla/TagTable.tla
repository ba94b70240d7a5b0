------------------------------ MODULE TagTable ------------------------------
(***************************************************************************)
(* What a filter expects of its table, whichever TableType it is           *)
(* instantiated with: each bucket is a bag of four tags, 0 for no tag.     *)
(***************************************************************************)
EXTENDS Integers

CONSTANTS NumBuckets, Tags

VARIABLES
    contents,   \* contents[b][t]: how often tag t is in bucket b
    ok,         \* what the last call returned
    oldtag      \* the tag the last call kicked out, 0 if none

vars == <<contents, ok, oldtag>>

Buckets == 0 .. NumBuckets - 1

Init ==
    /\ contents = [b \in Buckets |-> [t \in Tags \union {0} |-> IF t = 0 THEN 4 ELSE 0]]
    /\ ok = TRUE
    /\ oldtag = 0

\* One tag t of bucket b gives way to tag u.
Replace(b, t, u) ==
    LET less == [contents[b] EXCEPT ![t] = @ - 1]
    IN /\ contents[b][t] > 0
       /\ contents' = [contents EXCEPT ![b] = [less EXCEPT ![u] = @ + 1]]

Insert(b, t) == ok' /\ oldtag' = 0 /\ Replace(b, 0, t)

Delete(b, t) == ok' /\ oldtag' = 0 /\ Replace(b, t, 0)

\* A full bucket, and a caller that allows a tag to be kicked out.
KickOut(b, t) ==
    /\ ~ok' /\ oldtag' \in Tags
    /\ contents[b][0] = 0
    /\ Replace(b, oldtag', t)

\* A full bucket and a caller that does not, a slot in use, a tag not there.
Refuse == ~ok' /\ oldtag' = 0 /\ UNCHANGED contents

Next ==
    \/ Refuse
    \/ \E b \in Buckets, t \in Tags : Insert(b, t) \/ Delete(b, t) \/ KickOut(b, t)

Spec == Init /\ [][Next]_vars

==============================================================================
