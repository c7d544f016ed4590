----------------------------- MODULE KeyValueMap -----------------------------
(***************************************************************************)
(* What ds::HashMap promises its callers: a finite map from keys to values *)
(* where Insert adds a key that is absent (and refuses one that is         *)
(* present) and Delete removes a key.                                      *)
(***************************************************************************)
EXTENDS Functions

CONSTANTS Keys, Vals

VARIABLE map

Init == map = [k \in {} |-> CHOOSE v \in Vals : TRUE]

Put(k, v) ==
    /\ k \notin DOMAIN map
    /\ map' = [x \in DOMAIN map \cup {k} |-> IF x = k THEN v ELSE map[x]]

Erase(k) ==
    /\ k \in DOMAIN map
    /\ map' = Restrict(map, DOMAIN map \ {k})

Next == \E k \in Keys : Erase(k) \/ \E v \in Vals : Put(k, v)

Spec == Init /\ [][Next]_map
=============================================================================
