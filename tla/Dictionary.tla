----------------------------- MODULE Dictionary ------------------------------
(***************************************************************************)
(* What ds::RbTree promises its callers, by its interface comments: a map  *)
(* from keys to values.  Insert adds an absent key (false if present),     *)
(* Read gives a key's value (false if absent), Update changes the value of *)
(* a present key, Delete removes a present key.  res is the result of the  *)
(* last call.                                                              *)
(***************************************************************************)
EXTENDS Functions

CONSTANTS Keys, Vals

VARIABLES map, res

Init == map = [k \in {} |-> CHOOSE v \in Vals : TRUE] /\ res = FALSE

Present(k) == k \in DOMAIN map

Insert(k, v) ==
    /\ map' = IF Present(k) THEN map
              ELSE [x \in DOMAIN map \cup {k} |-> IF x = k THEN v ELSE map[x]]
    /\ res' = ~Present(k)

Read(k) ==
    /\ res' = IF Present(k) THEN map[k] ELSE FALSE
    /\ UNCHANGED map

Update(k, v) ==
    /\ map' = IF Present(k) THEN [map EXCEPT ![k] = v] ELSE map
    /\ res' = Present(k)

Delete(k) ==
    /\ map' = Restrict(map, DOMAIN map \ {k})
    /\ res' = Present(k)

Next ==
    \E k \in Keys : \/ Read(k) \/ Delete(k)
                    \/ \E v \in Vals : Insert(k, v) \/ Update(k, v)

Spec == Init /\ [][Next]_<<map, res>>
=============================================================================
