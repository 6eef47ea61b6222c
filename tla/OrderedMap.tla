----------------------------- MODULE OrderedMap -----------------------------
(***************************************************************************)
(* What a Torna tree promises its callers: a finite map from keys to       *)
(* values.  TornaTree implements it; splits, borrows, merges, compaction   *)
(* and root changes are invisible here.                                    *)
(***************************************************************************)
EXTENDS Functions, FiniteSets

CONSTANTS Key, Val

VARIABLE dict     \* the map: a function from the stored keys to their values

(* Insert, InsertFast and the batch inserts add entries under absent keys  *)
(* and disturb no stored one.                                              *)
Puts(old, new) ==
    /\ DOMAIN old \subseteq DOMAIN new
    /\ Restrict(new, DOMAIN old) = old

(* UpdateFast changes the value of one stored key. *)
Updates(old, new) ==
    /\ DOMAIN new = DOMAIN old
    /\ Cardinality({k \in DOMAIN old : new[k] # old[k]}) = 1

(* Delete and DeleteFast remove one stored key. *)
Removes(old, new) ==
    \E k \in DOMAIN old : new = Restrict(old, DOMAIN old \ {k})

Init == dict = [k \in {} |-> 0]

Next ==
    LET old == dict
        new == dict'
    IN  /\ DOMAIN new \subseteq Key
        /\ Puts(old, new) \/ Updates(old, new) \/ Removes(old, new)

Spec == Init /\ [][Next]_dict
=============================================================================
