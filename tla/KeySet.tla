-------------------------------- MODULE KeySet --------------------------------
(***************************************************************************)
(* What cuckoo_hashtable promises to the caller of insert: a set of keys   *)
(* that an insert extends, leaves alone because the key is there, or       *)
(* leaves alone because no place was found ("table full", an exception).   *)
(* Nothing but an insert changes the set, and nothing removes from it.     *)
(***************************************************************************)
CONSTANTS Keys, NoKey

VARIABLES members,  \* the keys inserted so far
          outcome   \* <<status, key>> of the last insert that ended

vars == <<members, outcome>>

Init == members = {} /\ outcome = <<"none", NoKey>>

InsertOk(k) ==
    /\ k \notin members
    /\ members' = members \union {k}
    /\ outcome' = <<"ok", k>>

InsertDuplicate(k) ==
    /\ k \in members
    /\ outcome' = <<"failure_key_duplicated", k>>
    /\ UNCHANGED members

InsertFull(k) ==
    /\ k \notin members
    /\ outcome' = <<"failure_table_full", k>>
    /\ UNCHANGED members

Next == \E k \in Keys : InsertOk(k) \/ InsertDuplicate(k) \/ InsertFull(k)

Spec == Init /\ [][Next]_vars

==============================================================================
