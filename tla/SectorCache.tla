------------------------------ MODULE SectorCache ------------------------------
(***************************************************************************)
(* The sector cache of SATAPort (src/sys/sata_port.cpp): CacheReadWrite in *)
(* front of DiskReadWrite, disk_cache_ an LRUCache from LBA to             *)
(* CachedSector* whose eviction handler is HandleEviction, and the         *)
(* destructor's Flush.                                                     *)
(*                                                                         *)
(* A CachedSector and its sector_ buffer are allocated together before the *)
(* Insert and freed together by HandleEviction, so they are one object of  *)
(* SObjs: [data, dirty, alloc].  Allocation takes any free object or node  *)
(* (the heap reuses what was freed); a freed object keeps its fields.      *)
(* One call of CacheReadWrite is one step: the kernel is single-threaded   *)
(* and the command completes before DiskReadWrite returns.  What varies    *)
(* inside a call is chosen up front: for the k-th Insert of the call, ch[k]*)
(* gives MemCritical(), the LRU node and the CachedSector object.          *)
(* diskErr stands for the port's error bits, which OpFailed reads and no   *)
(* code clears: once set, every command fails.                            *)
(***************************************************************************)
EXTENDS Integers, Sequences, FiniteSets, Functions, TLC

CONSTANTS
    LBAs,        \* 0 .. max_lba_
    Data,        \* sector contents
    SObjs,       \* heap objects that can hold a CachedSector
    Nodes,       \* heap objects that can hold an LRU LinkedListEntry
    NIL,
    MaxSectors,  \* bound on num_sectors of a request
    Critical     \* the values MemCritical() takes: {FALSE} or BOOLEAN

VARIABLES
    node, mru, lru, entries, numEntries,   \* disk_cache_
    sobj,     \* CachedSector objects: SObjs -> [data, dirty, alloc]
    disk,     \* the sectors on the disk
    diskErr,  \* the port's error bits are set
    result,   \* the buffer the last Read filled, NIL if it returned false
    req,      \* the call being served: [op, a, n, buf]
    alive     \* the port is not destroyed

lruVars == <<node, mru, lru, entries, numEntries>>
vars == <<lruVars, sobj, disk, diskErr, result, req, alive>>

L == INSTANCE LRUCache WITH Keys <- LBAs, Vals <- SObjs

Choices(n) == [1 .. n -> [crit : Critical, node : Nodes, obj : SObjs]]

(* The state one call works on: disk_cache_'s record, the objects, the    *)
(* disk and the caller's buffer; ins counts the Inserts done, i and hit   *)
(* are the loop index and cached_block, failed a DiskReadWrite failure.   *)
Start(buf) ==
    [node |-> node, mru |-> mru, lru |-> lru, entries |-> entries,
     num |-> numEntries, evicted |-> <<>>, ok |-> TRUE,
     sobj |-> sobj, disk |-> disk, buf |-> buf, ins |-> 1, i |-> 0,
     hit |-> NIL, failed |-> FALSE]

(* HandleEviction(sector_no, cache_entry): write a dirty sector back      *)
(* (DiskReadWrite's result is ignored: with the error bits set the write  *)
(* is dropped), then free the object.                                     *)
HandleEviction(s, key, o) ==
    [s EXCEPT !.disk = IF s.sobj[o].dirty /\ ~diskErr
                       THEN [@ EXCEPT ![key] = s.sobj[o].data] ELSE @,
              !.sobj[o].alloc = FALSE]

(* Run the handler on each eviction the last cache operation made.        *)
RECURSIVE HandleAll(_)
HandleAll(s) ==
    IF s.evicted = <<>> THEN s
    ELSE HandleAll([HandleEviction(s, Head(s.evicted).key, Head(s.evicted).val)
                       EXCEPT !.evicted = Tail(@)])

(* The inner loop: Lookup a + i, a + i + 1, ... until one hits.           *)
RECURSIVE Scan(_, _, _, _)
Scan(s, a, i, n) ==
    IF i >= n THEN [s EXCEPT !.i = n, !.hit = NIL]
    ELSE IF a + i \in DOMAIN s.entries
         THEN [L!LookupOp(s, a + i) EXCEPT !.i = i, !.hit = L!LookupVal(s, a + i)]
         ELSE Scan(s, a, i + 1, n)

(* Faulty variants of ReadUncached: the DMA is never issued; the DMA      *)
(* lands at the start of the buffer instead of at slot f.                 *)
ReadUncachedDropped(s, a, f, w) == s
ReadUncachedAtBufferStart(s, a, f, w) ==
    IF s.i > f /\ ~w
    THEN IF diskErr THEN [s EXCEPT !.failed = TRUE]
         ELSE [s EXCEPT !.buf = [x \in DOMAIN @ |->
                                   IF x < s.i - f THEN s.disk[a + f + x] ELSE @[x]]]
    ELSE s

(* A read of the uncached run f .. i-1 DMAs it from the disk into the     *)
(* buffer; a write leaves the disk alone.                                 *)
ReadUncached(s, a, f, w) ==
    IF s.i > f /\ ~w
    THEN IF diskErr THEN [s EXCEPT !.failed = TRUE]
         ELSE [s EXCEPT !.buf = [x \in DOMAIN @ |->
                                   IF f <= x /\ x < s.i THEN s.disk[a + x] ELSE @[x]]]
    ELSE s

(* Copy buffer slot x into a new CachedSector and Insert it at a + x.     *)
InsertSector(s, a, x, w, c) ==
    IF s.sobj[c.obj].alloc THEN [s EXCEPT !.ok = FALSE]
    ELSE HandleAll(L!InsertOp([s EXCEPT !.sobj[c.obj] = [data |-> s.buf[x],
                                                         dirty |-> w,
                                                         alloc |-> TRUE],
                                        !.ins = @ + 1],
                              a + x, c.obj, c.crit, c.node))

RECURSIVE InsertAll(_, _, _, _, _)
InsertAll(s, a, x, w, ch) ==
    IF x >= s.i THEN s ELSE InsertAll(InsertSector(s, a, x, w, ch[s.ins]), a, x + 1, w, ch)

(* Faulty variant of ApplyHit: a write hit does not set dirty_.           *)
ApplyHitLeavingClean(s, w) ==
    IF s.hit = NIL THEN s
    ELSE IF w THEN [s EXCEPT !.sobj[s.hit].data = s.buf[s.i]]
    ELSE [s EXCEPT !.buf[s.i] = s.sobj[s.hit].data]

(* The hit, through the cached_block pointer taken before the Inserts.    *)
ApplyHit(s, w) ==
    IF s.hit = NIL THEN s
    ELSE IF w THEN [s EXCEPT !.sobj[s.hit].dirty = TRUE,
                             !.sobj[s.hit].data = s.buf[s.i]]
    ELSE [s EXCEPT !.buf[s.i] = s.sobj[s.hit].data]

(* The outer loop of CacheReadWrite, one uncached run and one hit a turn. *)
RECURSIVE Outer(_, _, _, _, _, _), Segment(_, _, _, _, _, _)
Segment(s, a, f, n, w, ch) ==
    IF s.failed THEN s
    ELSE Outer(ApplyHit(InsertAll(s, a, f, w, ch), w), a, s.i + 1, n, w, ch)
Outer(s, a, i, n, w, ch) ==
    IF i >= n \/ ~s.ok THEN s
    ELSE Segment(ReadUncached(Scan(s, a, i, n), a, i, w), a, i, n, w, ch)

(* Install a call's outcome.                                              *)
Commit(s) ==
    /\ s.ok
    /\ node' = s.node /\ mru' = s.mru /\ lru' = s.lru
    /\ entries' = s.entries /\ numEntries' = s.num
    /\ sobj' = s.sobj /\ disk' = s.disk

CacheReadWrite(a, n, buf, w, ch) ==
    LET s == Outer(Start(buf), a, 0, n, w, ch)
    IN  /\ alive
        /\ Commit(s)
        /\ result' = IF w THEN result ELSE IF s.failed THEN NIL ELSE s.buf
        /\ req' = IF w THEN [op |-> "write", a |-> a, n |-> n, buf |-> buf]
                 ELSE [op |-> "read", a |-> a, n |-> n, buf |-> NIL]
        /\ UNCHANGED <<diskErr, alive>>

Requests == {r \in [a : LBAs, n : 1 .. MaxSectors] : r.a + r.n - 1 \in LBAs}

Read(a, n, ch) == CacheReadWrite(a, n, [x \in 0 .. n - 1 |-> NIL], FALSE, ch)

Write(a, n, buf, ch) == CacheReadWrite(a, n, buf, TRUE, ch)

(* ~SATAPort: disk_cache_.Flush() runs the handler on every entry.         *)
Destroy ==
    /\ alive
    /\ Commit(HandleAll(L!EvictLoop(Start(<<>>), numEntries)))
    /\ alive' = FALSE
    /\ req' = [op |-> "close", a |-> NIL, n |-> NIL, buf |-> NIL]
    /\ UNCHANGED <<diskErr, result>>

(* The controller reports an error; nothing clears it.                    *)
DiskError ==
    /\ ~diskErr /\ diskErr' = TRUE
    /\ UNCHANGED <<lruVars, sobj, disk, result, req, alive>>

Init ==
    /\ L!Init
    /\ sobj = [o \in SObjs |-> [data |-> NIL, dirty |-> FALSE, alloc |-> FALSE]]
    /\ disk \in [LBAs -> Data]
    /\ diskErr = FALSE
    /\ result = NIL
    /\ req = NIL
    /\ alive = TRUE

Next ==
    \/ \E r \in Requests : \E ch \in Choices(r.n) : Read(r.a, r.n, ch)
    \/ \E r \in Requests : \E ch \in Choices(r.n), buf \in [0 .. r.n - 1 -> Data] :
          Write(r.a, r.n, buf, ch)
    \/ Destroy

(* With a controller that can fail.                                       *)
NextFaulty == Next \/ DiskError

Spec == Init /\ [][Next]_vars
SpecFaulty == Init /\ [][NextFaulty]_vars
-----------------------------------------------------------------------------
(* Properties, checked by the configurations of this module.            *)

Link == Nodes \cup {NIL}

(* Heap objects of one kind are interchangeable.                          *)
HeapSymmetry == Permutations(Nodes) \cup Permutations(SObjs)

TypeOK ==
    /\ node \in [Nodes -> [key : LBAs \cup {NIL}, val : SObjs \cup {NIL},
                           prev : Link, next : Link, alloc : BOOLEAN]]
    /\ mru \in Link /\ lru \in Link
    /\ DOMAIN entries \subseteq LBAs /\ \A k \in DOMAIN entries : entries[k] \in Nodes
    /\ numEntries \in Int
    /\ sobj \in [SObjs -> [data : Data \cup {NIL}, dirty : BOOLEAN, alloc : BOOLEAN]]
    /\ disk \in [LBAs -> Data]
    /\ diskErr \in BOOLEAN /\ alive \in BOOLEAN
    /\ result \in {NIL} \cup UNION {[0 .. n - 1 -> Data] : n \in 1 .. MaxSectors}

(* What a Read would return for each sector: the cached copy when the     *)
(* sector is in disk_cache_, else the disk.                               *)
AbsContents ==
    [s \in LBAs |-> IF s \in DOMAIN entries THEN sobj[node[entries[s]].val].data
                    ELSE disk[s]]

BD == INSTANCE BlockDevice WITH contents <- AbsContents

(* Reads through CacheReadWrite return the data of the latest Write of    *)
(* each sector, whether it sits dirty in disk_cache_, was written back by *)
(* HandleEviction, or never left the disk, and the destructor's Flush     *)
(* writes every dirty sector back: the cached port implements a plain     *)
(* block device.                                                          *)
ImplementsBlockDevice == BD!Spec

(* A sector in disk_cache_ that is not dirty holds what the disk holds:   *)
(* every path that changes a cached copy (a write hit, a write miss)      *)
(* marks it dirty, and a read miss copies it from the disk.               *)
CleanSectorsMatchDisk ==
    \A s \in DOMAIN entries :
        ~sobj[node[entries[s]].val].dirty => sobj[node[entries[s]].val].data = disk[s]
=============================================================================
