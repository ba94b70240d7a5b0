----------------------------- MODULE RoundsClient -----------------------------
(***************************************************************************)
(* Any client of the table that inserts first and looks up fingerprints    *)
(* afterwards, in rounds, whichever keys it looks up in each of them.      *)
(* History variables: streak[b] counts the rounds, from the first one on   *)
(* and without a gap, in which a lookup hit bucket b; caught holds the     *)
(* buckets whose streak was that of the round when it was rehashed.        *)
(***************************************************************************)
EXTENDS LookupRounds

VARIABLES streak, caught

clientVars == <<roundVars, streak, caught>>

ClientTypeOK ==
    /\ RoundsTypeOK
    /\ streak \in [BucketIndex -> 0 .. MaxRounds]
    /\ caught \subseteq BucketIndex

ClientInit ==
    /\ RoundsInit
    /\ streak = [b \in BucketIndex |-> 0]
    /\ caught = {}

ClientInsert ==
    /\ num_lookup_rds = 0
    /\ Next
    /\ UNCHANGED <<rounds, streak, caught>>

ClientStartLookup ==
    /\ pc = "idle"
    /\ num_lookup_rds < MaxRounds
    /\ StartLookup
    /\ caught' = {}
    /\ UNCHANGED streak

ClientLookup(k) ==
    /\ pc = "idle"
    /\ Lookup(k)
    /\ streak' = [b \in BucketIndex |->
                    IF b \in Home(k) /\ FpHit(b, k) /\ streak[b] + 1 = num_lookup_rds
                    THEN num_lookup_rds ELSE streak[b]]
    /\ UNCHANGED caught

ClientRehash ==
    /\ pc = "idle"
    /\ RehashBuckets
    /\ caught' = {b \in BucketIndex : streak[b] = num_lookup_rds}
    /\ UNCHANGED streak

ClientNext ==
    \/ ClientInsert \/ ClientStartLookup \/ ClientRehash
    \/ \E k \in Keys : ClientLookup(k)

ClientSpec == ClientInit /\ [][ClientNext]_clientVars

------------------------------------------------------------------------------
(* Properties.                                                              *)

\* Fingerprints of a bucket change with its seed only: a bucket that was never
\* hit answers for all of its keys, however often its neighbours are rehashed.
UntouchedInSync == \A b \in BucketIndex : seeds[b] = 0 => InSync(b)

\* A seed counts hits but is capped by the rounds: it is never ahead of the
\* rounds, even if both buckets of a key are one and one lookup raises it
\* twice, and never behind the rounds its bucket was hit in without a gap.
SeedsBetween ==
    \A b \in BucketIndex : streak[b] <= seeds[b] /\ seeds[b] <= num_lookup_rds

\* The rehash of a round brings every bucket into step that was hit in every
\* round so far, and no lookup undoes that before the next round.
StreakSynced == \A b \in caught : InSync(b)

\* What the comment of rehash_buckets says of its test, "incremented if false
\* pos. during lookup for fp's": that the seeds a lookup raised since the last
\* rehash are those equal to the number of the round, so that a rehash brings
\* every bucket into step with its seed.
RehashSyncs ==
    [][ClientRehash => \A b \in BucketIndex : InSync(b)']_clientVars

==============================================================================
