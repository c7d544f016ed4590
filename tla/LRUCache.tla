------------------------------- MODULE LRUCache -------------------------------
(***************************************************************************)
(* ds::LRUCache of src/ds/cache.h: a doubly linked list of heap-allocated  *)
(* LinkedListEntry nodes (mru_ at the front, lru_ at the back) and the     *)
(* HashMap entries_ from key to node.                                      *)
(*                                                                         *)
(* Nodes come from a pool: allocation picks any free node (the kernel heap *)
(* may hand back the chunk it just took back), and a freed node keeps the  *)
(* fields it had, so dangling pointers read and write it.  entries_ is a   *)
(* map from key to node; every caller does a Lookup that misses before it  *)
(* calls Insert, and under that discipline HashMap behaves as a map        *)
(* (run hashmap_checked).  MemCritical() is the buddy allocator's state,   *)
(* an input here.                                                          *)
(*                                                                         *)
(* The operations are pure operators on a cache record c with the fields   *)
(* of the class and two more: evicted, the (key, val) pairs handed to      *)
(* eviction_handler_ by the operation, in order, for an owner to act on;   *)
(* and ok, FALSE when the operation dereferences a null lru_ (the kernel   *)
(* faults: no step) or takes a node that is not free (not an allocation).  *)
(***************************************************************************)
EXTENDS Integers, Sequences, FiniteSets, Functions, TLC

CONSTANTS Keys, Vals, Nodes, NIL

VARIABLES node, mru, lru, entries, numEntries

vars == <<node, mru, lru, entries, numEntries>>

Cache == [node |-> node, mru |-> mru, lru |-> lru, entries |-> entries,
          num |-> numEntries, evicted |-> <<>>, ok |-> TRUE]

(* x->prev_ = v and x->next_ = v, done only when x is not nullptr.        *)
SetPrev(nd, x, v) == IF x # NIL THEN [nd EXCEPT ![x].prev = v] ELSE nd
SetNext(nd, x, v) == IF x # NIL THEN [nd EXCEPT ![x].next = v] ELSE nd

(* One iteration of Evict's loop on the entry e = lru_: lru_ moves to     *)
(* e->prev_ and its next_ is cleared, the key is deleted from entries_,   *)
(* the handler receives (key_, val_), and e is freed.                     *)
EvictEntry(c, e) ==
    [c EXCEPT !.node    = [SetNext(c.node, c.node[e].prev, NIL)
                              EXCEPT ![e].alloc = FALSE],
              !.lru     = c.node[e].prev,
              !.entries = Restrict(c.entries, DOMAIN c.entries \ {c.node[e].key}),
              !.num     = c.num - 1,
              !.evicted = Append(c.evicted, [key |-> c.node[e].key,
                                             val |-> c.node[e].val])]

(* Evict(n): for (i = 0; i < n && num_entries_; ++i).                     *)
RECURSIVE EvictLoop(_, _)
EvictLoop(c, n) ==
    IF n = 0 \/ c.num = 0 THEN c
    ELSE IF c.lru = NIL THEN [c EXCEPT !.ok = FALSE]
    ELSE EvictLoop(EvictEntry(c, c.lru), n - 1)

(* The tail of Insert once the new node n is linked in front of mru_:     *)
(* entries_.Insert fails for a present key (the node stays linked to the  *)
(* old mru_); otherwise n becomes mru_ (and lru_ if there was none).      *)
InsertCommit(c, k, n) ==
    IF k \in DOMAIN c.entries THEN c
    ELSE [c EXCEPT !.entries = @ @@ (k :> n), !.mru = n,
                   !.lru = IF @ = NIL THEN n ELSE @, !.num = @ + 1]

InsertLinked(c, k, v, n) ==
    IF c.node[n].alloc THEN [c EXCEPT !.ok = FALSE]
    ELSE InsertCommit([c EXCEPT !.node =
             SetPrev([c.node EXCEPT ![n] = [key |-> k, val |-> v, prev |-> NIL,
                                           next |-> c.mru, alloc |-> TRUE]],
                     c.mru, n)], k, n)

(* Insert(key, val) with MemCritical() = critical, the allocator handing  *)
(* back node n.                                                           *)
InsertOp(c, k, v, critical, n) ==
    InsertLinked(IF critical THEN EvictLoop(c, 1) ELSE c, k, v, n)

(* Lookup's relinking of the hit entry e, one statement at a time, each   *)
(* reading the fields as the previous one left them.                      *)
MoveFront3(c, e, nd) == [c EXCEPT !.node = SetPrev(nd, nd[e].next, e)]
MoveFront2(c, e, nd) ==
    MoveFront3([c EXCEPT !.mru = e], e,
               IF c.mru # e THEN [nd EXCEPT ![e].next = c.mru] ELSE nd)
MoveFront1(c, e, nd) ==
    MoveFront2([c EXCEPT !.lru = IF c.num > 1 /\ c.lru = e THEN nd[e].prev ELSE @],
               e, [nd EXCEPT ![e].prev = NIL])
UnlinkNext(nd, e) == SetPrev(nd, nd[e].next, nd[e].prev)

LookupOp(c, k) ==
    IF k \notin DOMAIN c.entries THEN c
    ELSE MoveFront1(c, c.entries[k],
                    UnlinkNext(SetNext(c.node, c.node[c.entries[k]].prev,
                                       c.node[c.entries[k]].next),
                               c.entries[k]))

(* The value Lookup returns: val_ of the entry, or NIL on a miss.         *)
LookupVal(c, k) == IF k \in DOMAIN c.entries THEN c.node[c.entries[k]].val ELSE NIL

SetCache(c) ==
    /\ c.ok
    /\ node' = c.node /\ mru' = c.mru /\ lru' = c.lru
    /\ entries' = c.entries /\ numEntries' = c.num

Init ==
    /\ node = [n \in Nodes |-> [key |-> NIL, val |-> NIL, prev |-> NIL,
                                next |-> NIL, alloc |-> FALSE]]
    /\ mru = NIL /\ lru = NIL
    /\ entries = [k \in {} |-> NIL]
    /\ numEntries = 0

(* A caller that missed on Lookup inserts (key, val).                     *)
Insert(k, v, critical, n) ==
    /\ k \notin DOMAIN entries
    /\ SetCache(InsertOp(Cache, k, v, critical, n))

(* A Lookup that hits moves the entry to the front; a miss changes        *)
(* nothing.                                                               *)
Lookup(k) == k \in DOMAIN entries /\ SetCache(LookupOp(Cache, k))

(* Evict(1) and Flush (= Evict(num_entries_)) as called by the owners.    *)
Evict(n) == numEntries > 0 /\ SetCache(EvictLoop(Cache, n))

Flush == Evict(numEntries)

Next ==
    \/ \E k \in Keys, v \in Vals, crit \in BOOLEAN, n \in Nodes : Insert(k, v, crit, n)
    \/ \E k \in Keys : Lookup(k)
    \/ Evict(1)
    \/ Flush

Spec == Init /\ [][Next]_vars
-----------------------------------------------------------------------------
(* Properties, checked by the configurations of this module.            *)

Link == Nodes \cup {NIL}

TypeOK ==
    /\ node \in [Nodes -> [key : Keys \cup {NIL}, val : Vals \cup {NIL},
                           prev : Link, next : Link, alloc : BOOLEAN]]
    /\ mru \in Link /\ lru \in Link
    /\ DOMAIN entries \subseteq Keys /\ \A k \in DOMAIN entries : entries[k] \in Nodes
    /\ numEntries \in Int

(* The nodes reached from mru_ along next_, in order.                     *)
RECURSIVE Chain(_, _)
Chain(e, seen) ==
    IF e = NIL \/ e \in Range(seen) THEN seen ELSE Chain(node[e].next, Append(seen, e))
List == Chain(mru, <<>>)

(* The list from mru_ holds exactly the nodes entries_ maps to, each     *)
(* allocated and holding its key, without repetition; prev_ mirrors       *)
(* next_; lru_ is its last node; num_entries_ is its length.  Evicting    *)
(* the last entry leaves mru_ pointing at the freed node, which the next *)
(* Insert links behind the new node.                                      *)
ListWellFormed ==
    LET L == List IN
    /\ Range(L) = Range(entries)
    /\ \A i \in 1 .. Len(L) : node[L[i]].alloc /\ entries[node[L[i]].key] = L[i]
    /\ \A i \in 1 .. Len(L) : node[L[i]].prev = IF i = 1 THEN NIL ELSE L[i - 1]
    /\ L # <<>> => node[L[Len(L)]].next = NIL
    /\ lru = IF L = <<>> THEN NIL ELSE L[Len(L)]
    /\ numEntries = Len(L)
=============================================================================
