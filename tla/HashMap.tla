------------------------------- MODULE HashMap -------------------------------
(***************************************************************************)
(* ds::HashMap of src/ds/hash_map.h: open addressing with linear probing,  *)
(* tombstones (DELETED) left by Delete, and a Rehash into capacity 2c+1    *)
(* once num_entries_ exceeds capacity_ / inv_load_factor (= 3).            *)
(*                                                                         *)
(* A slot holds EMPTY, DELETED or a [key, val] record.  The metadata byte  *)
(* H2(hash) only filters key comparisons, so a slot is matched by its key; *)
(* H1 gives each key its home slot before the modulo.                      *)
(***************************************************************************)
EXTENDS Integers, FiniteSets, TLC

CONSTANTS
    Keys, Vals,
    H1,       \* Keys -> Nat: hash >> 7 of each key
    MaxCap,   \* largest capacity_ the model lets Rehash reach
    MaxCopyCap, \* largest capacity_ of the second map
    EMPTY, DELETED,
    NullOpt,  \* the empty ds::Optional Lookup returns
    NoCopy    \* the second map before its construction or after ~HashMap

VARIABLES
    slot, capacity, numEntries,  \* the map: map_/mdata_, capacity_, num_entries_
    copy,      \* a second map copied from it, as a table value, or NoCopy
    copyWant   \* ghost: the key -> value map the copy's callers have made

tabVars == <<slot, capacity, numEntries>>
copyVars == <<copy, copyWant>>
vars == <<tabVars, copyVars>>

(* A table as a value: mdata_ and map_ (slot), capacity_ and num_entries_. *)
Tab == [slot |-> slot, cap |-> capacity, n |-> numEntries]

Filled(x) == x \notin {EMPTY, DELETED}

(* Find: probe from the home slot while the slot is not EMPTY; -1 when    *)
(* the key is absent.  After capacity probes the code would keep cycling; *)
(* that case is reported as -1 here and excluded by EmptySlotExists.      *)
RECURSIVE FindFrom(_, _, _, _, _)
FindFrom(s, c, k, i, n) ==
    IF n = c \/ s[i] = EMPTY THEN -1
    ELSE IF Filled(s[i]) /\ s[i].key = k THEN i
    ELSE FindFrom(s, c, k, (i + 1) % c, n + 1)
FindIn(t, k) == FindFrom(t.slot, t.cap, k, H1[k] % t.cap, 0)
Find(k) == FindIn(Tab, k)

Contains(k) == Find(k) # -1

(* Lookup: the value in the slot Find returns, NullOpt when Find        *)
(* returns -1.                                                            *)
LookupIn(t, k) == IF FindIn(t, k) = -1 THEN NullOpt ELSE t.slot[FindIn(t, k)].val
Lookup(k) == LookupIn(Tab, k)

(* The map a table represents: every key Find reaches, with its value.    *)
AbsMapOf(t) == [k \in {x \in Keys : FindIn(t, x) # -1} |-> LookupIn(t, k)]

(* Insert's probe: stop at the first EMPTY or DELETED slot, or at a slot  *)
(* that already holds k.                                                  *)
RECURSIVE ProbeFrom(_, _, _, _)
ProbeFrom(s, c, k, i) ==
    IF ~Filled(s[i]) THEN [ind |-> i, found |-> FALSE]
    ELSE IF s[i].key = k THEN [ind |-> i, found |-> TRUE]
    ELSE ProbeFrom(s, c, k, (i + 1) % c)

(* Rehash's placement loop: first EMPTY slot from the home slot.          *)
RECURSIVE FreeFrom(_, _, _)
FreeFrom(s, c, i) == IF s[i] = EMPTY THEN i ELSE FreeFrom(s, c, (i + 1) % c)

(* Rehash: copy the filled slots 0 .. oc-1, in index order, into an       *)
(* all-EMPTY table of capacity nc.                                        *)
RECURSIVE Reinsert(_, _, _, _, _)
Reinsert(old, oc, new, nc, i) ==
    IF i = oc THEN new
    ELSE IF ~Filled(old[i]) THEN Reinsert(old, oc, new, nc, i + 1)
    ELSE LET j == FreeFrom(new, nc, H1[old[i].key] % nc)
         IN  Reinsert(old, oc, [new EXCEPT ![j] = old[i]], nc, i + 1)

(* Faulty variants, each a plausible slip in the code; the properties of  *)
(* run hashmap_checked must reject each of them.                          *)
RehashToEvenCapacity(s, c) ==
    LET nc == (c + 1) * 2
    IN  [cap |-> nc, slot |-> Reinsert(s, c, [i \in 0 .. nc - 1 |-> EMPTY], nc, 0)]
RehashSkippingSlotZero(s, c) ==
    LET nc == (c + 1) * 2 - 1
    IN  [cap |-> nc, slot |-> Reinsert(s, c, [i \in 0 .. nc - 1 |-> EMPTY], nc, 1)]

Rehash(s, c) ==
    LET nc == (c + 1) * 2 - 1
    IN  [cap |-> nc, slot |-> Reinsert(s, c, [i \in 0 .. nc - 1 |-> EMPTY], nc, 0)]

Init ==
    /\ capacity = 1
    /\ slot = [i \in 0 .. 0 |-> EMPTY]
    /\ numEntries = 0
    /\ copy = NoCopy
    /\ copyWant = [k \in {} |-> NullOpt]

(* Insert's probe, placement, ++num_entries_ and the load-factor test     *)
(* (num_entries_ > capacity_ / inv_load_factor, integer division).        *)
InsertOpWithoutLoadFactor(t, k, v) ==
    LET p  == ProbeFrom(t.slot, t.cap, k, H1[k] % t.cap)
        s1 == [t.slot EXCEPT ![p.ind] = [key |-> k, val |-> v]]
        r  == IF t.n + 1 > t.cap THEN Rehash(s1, t.cap)
              ELSE [cap |-> t.cap, slot |-> s1]
    IN  [found |-> p.found, t |-> [slot |-> r.slot, cap |-> r.cap, n |-> t.n + 1]]

InsertOp(t, k, v) ==
    LET p  == ProbeFrom(t.slot, t.cap, k, H1[k] % t.cap)
        s1 == [t.slot EXCEPT ![p.ind] = [key |-> k, val |-> v]]
        r  == IF t.n + 1 > t.cap \div 3 THEN Rehash(s1, t.cap)
              ELSE [cap |-> t.cap, slot |-> s1]
    IN  [found |-> p.found, t |-> [slot |-> r.slot, cap |-> r.cap, n |-> t.n + 1]]

(* Delete: a tombstone in the slot Find returns; num_entries_ is kept.    *)
DeleteOpClearingSlot(t, k) == [t EXCEPT !.slot[FindIn(t, k)] = EMPTY]

DeleteOp(t, k) == [t EXCEPT !.slot[FindIn(t, k)] = DELETED]

(* The copy constructor and the copying half of operator=: a new mdata_  *)
(* and map_ of rhs.capacity_, every metadata byte copied (tombstones      *)
(* included), key and value copied for the filled slots, num_entries_     *)
(* taken from rhs.                                                        *)
CopyFilledOnly(t) ==
    [t EXCEPT !.slot = [i \in DOMAIN t.slot |->
                           IF Filled(t.slot[i]) THEN t.slot[i] ELSE EMPTY]]

CopyOf(t) == [slot |-> [i \in 0 .. t.cap - 1 |-> t.slot[i]], cap |-> t.cap, n |-> t.n]

SetTab(t) == slot' = t.slot /\ capacity' = t.cap /\ numEntries' = t.n

(* Insert(key, val) when it returns true.  A probe that meets the key     *)
(* returns false and changes nothing.                                     *)
Insert(k, v) ==
    LET x == InsertOp(Tab, k, v)
    IN  /\ ~x.found
        /\ x.t.cap <= MaxCap
        /\ SetTab(x.t)
        /\ UNCHANGED copyVars

(* Delete(key) when the key is found: leave a tombstone.                  *)
Delete(k) ==
    /\ Find(k) # -1
    /\ SetTab(DeleteOp(Tab, k))
    /\ UNCHANGED copyVars

(* Callers that test Contains before inserting (Ext2Mount::Pin,           *)
(* VFS::Open) never Insert a key the map holds.                           *)
CheckedInsert(k, v) == ~Contains(k) /\ Insert(k, v)

(* HashMap(const HashMap &rhs): a second map built from this one, as      *)
(* ACPI::ParseRoot's return copies its local table into the Optional.     *)
CopyConstruct ==
    /\ copy = NoCopy
    /\ capacity <= MaxCopyCap
    /\ copy' = CopyOf(Tab)
    /\ copyWant' = AbsMapOf(Tab)
    /\ UNCHANGED tabVars

(* copy = *this (operator=): the rhs differs from the lhs, so the         *)
(* self-assignment test fails; the old arrays are freed (the entries'     *)
(* destructors run first) and the rhs is copied as above.                 *)
CopyAssign ==
    /\ copy # NoCopy
    /\ capacity <= MaxCopyCap
    /\ copy' = CopyOf(Tab)
    /\ copyWant' = AbsMapOf(Tab)
    /\ UNCHANGED tabVars

(* ~HashMap on the copy: its arrays go back to the heap.  The loop that   *)
(* runs the entries' destructors reads mdata_ after Free(mdata_); KHeap's *)
(* Free writes only chunk headers, so the bytes it reads are unchanged.   *)
DestroyCopy ==
    /\ copy # NoCopy
    /\ copy' = NoCopy
    /\ copyWant' = [k \in {} |-> NullOpt]
    /\ UNCHANGED tabVars

(* Insert and Delete on the copy, by a caller that tests Contains first. *)
CopyInsert(k, v) ==
    /\ copy # NoCopy
    /\ FindIn(copy, k) = -1
    /\ LET x == InsertOp(copy, k, v)
       IN  /\ x.t.cap <= MaxCopyCap
           /\ copy' = x.t
    /\ copyWant' = copyWant @@ (k :> v)
    /\ UNCHANGED tabVars

CopyDelete(k) ==
    /\ copy # NoCopy
    /\ FindIn(copy, k) # -1
    /\ copy' = DeleteOp(copy, k)
    /\ copyWant' = [x \in DOMAIN copyWant \ {k} |-> copyWant[x]]
    /\ UNCHANGED tabVars

Next == \E k \in Keys : Delete(k) \/ \E v \in Vals : Insert(k, v)

CopyNext ==
    \/ CopyConstruct \/ CopyAssign \/ DestroyCopy
    \/ \E k \in Keys : CopyDelete(k) \/ \E v \in Vals : CopyInsert(k, v)

NextChecked ==
    \/ \E k \in Keys : Delete(k) \/ \E v \in Vals : CheckedInsert(k, v)
    \/ CopyNext

Spec == Init /\ [][Next]_vars
SpecChecked == Init /\ [][NextChecked]_vars

-----------------------------------------------------------------------------
(* Properties, checked by the configurations of this module.             *)

(* Model-checking instance of HashMap, its invariants and its refinement  *)
(* of KeyValueMap.                                                        *)

CONSTANTS k1, k2, k3

(* k1 and k2 share a home slot in every capacity; k3 sits next to them.   *)
MCH1 == (k1 :> 0 @@ k2 :> 0 @@ k3 :> 1)

TypeOK ==
    /\ capacity \in {1, 3, 7, 15, 31} /\ capacity <= MaxCap
    /\ slot \in [0 .. capacity - 1 -> {EMPTY, DELETED} \cup [key : Keys, val : Vals]]
    /\ numEntries \in Nat
    /\ copy = NoCopy \/ copy.slot \in [0 .. copy.cap - 1 ->
                              {EMPTY, DELETED} \cup [key : Keys, val : Vals]]

AbsMap == AbsMapOf(Tab)

KVM == INSTANCE KeyValueMap WITH map <- AbsMap

(* Under callers that test Contains before Insert, Insert, Delete and     *)
(* Rehash together behave as a map: the table refines KeyValueMap.        *)
ImplementsKeyValueMap == KVM!Spec

(* Every filled slot lies on its key's probe path: no EMPTY slot between  *)
(* the key's home slot and the slot, so Find reaches it.  Delete must     *)
(* leave a tombstone and Rehash must re-place every entry for this.       *)
ProbeChainsIntact ==
    \A i \in 0 .. capacity - 1 :
        Filled(slot[i]) =>
            LET h == H1[slot[i].key] % capacity
            IN  \A d \in 0 .. ((i - h) % capacity) - 1 :
                    slot[(h + d) % capacity] # EMPTY

(* The table always has an EMPTY slot, so Find's probe (which only stops  *)
(* on EMPTY or on the key) terminates for an absent key.  Holds because  *)
(* num_entries_ counts every insert and Rehash drops tombstones.          *)
EmptySlotExists == \E i \in 0 .. capacity - 1 : slot[i] = EMPTY

(* A copy made by the copy constructor or operator= answers Lookup as the *)
(* source did when it was copied, and keeps answering as the Inserts and  *)
(* Deletes made on it since say.  The source may hold tombstones on the   *)
(* probe paths of its keys that the copy needs, and the copy's own Rehash *)
(* follows the num_entries_ it copied: breaking this takes a Delete on    *)
(* the source, a copy, and a Lookup or an operation on the copy after.    *)
CopyAgrees ==
    copy # NoCopy =>
        \A k \in Keys :
            LookupIn(copy, k) = IF k \in DOMAIN copyWant THEN copyWant[k] ELSE NullOpt
=============================================================================
