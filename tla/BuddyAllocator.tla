--------------------------- MODULE BuddyAllocator ---------------------------
(***************************************************************************)
(* The physical page allocator of src/sys/buddy_allocator.cpp, for one     *)
(* catalogued memory range.                                                *)
(*                                                                         *)
(* Addresses are page indices relative to the range's base_, orders are    *)
(* page orders (the code's byte order minus MIN_ORDER = 12).  Every page   *)
(* of the range has a FreeListEntry record {forward_, backward_, order_,   *)
(* free_}; the free lists are doubly linked lists threaded through those   *)
(* records, exactly as in the code, so that stale links left behind by    *)
(* PopFront and Remove are part of the state.                              *)
(*                                                                         *)
(* AddrToEntry indexes page_entries_ by (addr - base_) / PAGE, while       *)
(* CatalogRange initialises page_entries_[(j - range.base) / PAGE], i.e.   *)
(* shifted by the metadata pages: records 0 .. MDATA-1 are never           *)
(* initialised and hold what the boot memory held (UninitRecord), and      *)
(* record N (the range bound, which EntryRange accepts because it tests    *)
(* addr <= bound) is an initialised, free, order-0 record.                 *)
(*                                                                         *)
(* owned is the callers' view: the blocks Allocate/Realloc handed out and  *)
(* not yet given back.  Callers only free what they own.                   *)
(***************************************************************************)
EXTENDS Naturals, Integers, FiniteSetsExt, Bitwise

CONSTANTS
    N,            \* data pages of the range (size_ / PAGE)
    MDATA,        \* metadata pages at the start of the range (>= 1)
    ReqPages,     \* request sizes, in pages, that callers pass to Allocate
    UninitRecords,\* what a never-initialised page record may hold
    MemBound,     \* bound on |mem_in_use_|, in pages (model bound)
    NIL

ASSUME N \in Nat \ {0} /\ MDATA \in Nat \ {0}
ASSUME ReqPages \subseteq Nat /\ MemBound \in Nat

VARIABLES
    rec,        \* page record index -> [fwd, bwd, order, free]
    head,       \* free_lists_: order -> record index or NIL
    memInUse,   \* mem_in_use_, in pages; negative: the size_t wrapped
    owned       \* blocks held by callers: set of [addr, order]

vars == <<rec, head, memInUse, owned>>

(* CeilLog2 of a request of p pages, clamped to MIN_ORDER (page order 0). *)
RECURSIVE CeilLog2From(_, _)
CeilLog2From(p, i) == IF 2^i >= p THEN i ELSE CeilLog2From(p, i + 1)
BlockOrder(p) == CeilLog2From(p, 0)

Rec    == 0 .. N
(* MAX_ORDER is far above any order a block of records 0..N can reach.    *)
Orders == 0 .. BlockOrder(N + 1)
Link   == Rec \cup {NIL}

(* BuddyOf: flip bit `order' of the offset; nullptr outside the range.    *)
BuddyOf(a, k) == LET b == a ^^ (2^k) IN IF b <= N THEN b ELSE NIL

(* Mergeable: the buddy exists, is free and has the same order.           *)
Mergeable(r, e, b) == b # NIL /\ r[b].free /\ r[b].order = r[e].order

(* The list primitives act on a memory m = [rec, head].  Intermediate    *)
(* memories are passed as operator arguments, so each is computed once.   *)
(* e->backward_ = v and e->forward_ = v, done only when e is not nullptr. *)
SetBwd(r, e, v) == IF e # NIL THEN [r EXCEPT ![e].bwd = v] ELSE r
SetFwd(r, e, v) == IF e # NIL THEN [r EXCEPT ![e].fwd = v] ELSE r

PushFront(m, k, e) ==
    [rec  |-> SetBwd([m.rec EXCEPT ![e].order = k, ![e].fwd = m.head[k]],
                     m.head[k], e),
     head |-> [m.head EXCEPT ![k] = e]]

(* PopFront leaves the popped record's forward_ as it was.                *)
PopFront(m, k) ==
    [rec  |-> SetBwd(m.rec, m.rec[m.head[k]].fwd, NIL),
     head |-> [m.head EXCEPT ![k] = m.rec[m.head[k]].fwd]]

(* The tail of Remove, once the neighbours are relinked in r: advance the *)
(* list head if it is e (reading e's order_ and forward_ after the        *)
(* relinking, which may have written them), then clear e's links.         *)
Detach(h, e, r) ==
    [rec  |-> [r EXCEPT ![e].fwd = NIL, ![e].bwd = NIL],
     head |-> IF r[e].order \in Orders /\ h[r[e].order] = e
              THEN [h EXCEPT ![r[e].order] = r[e].fwd] ELSE h]

Remove(m, e) ==
    Detach(m.head, e,
           SetFwd(SetBwd(m.rec, m.rec[e].fwd, m.rec[e].bwd),
                  m.rec[e].bwd, m.rec[e].fwd))

(* The tail of Split, after both halves are removed: both get order j,    *)
(* the lower half e is marked free and pushed, the upper half b returned. *)
SplitHalves(m, e, b, j) ==
    [mem |-> PushFront([m EXCEPT !.rec[e].order = j, !.rec[b].order = j,
                                 !.rec[e].free = TRUE], j, e),
     blk |-> b]

Split(m, e, k) ==
    SplitHalves(Remove(Remove(m, BuddyOf(e, k - 1)), e), e, BuddyOf(e, k - 1), k - 1)

(* Merge: unlink the lower and the upper buddy, push the lower one at     *)
(* ++order_.                                                              *)
Lower(b1, b2) == IF b1 < b2 THEN b1 ELSE b2
Upper(b1, b2) == IF b1 < b2 THEN b2 ELSE b1

MergeHalves(m, lo) ==
    [mem |-> PushFront([m EXCEPT !.rec[lo].order = @ + 1], m.rec[lo].order + 1, lo),
     blk |-> lo]

Merge(m, b1, b2) ==
    MergeHalves(Remove(Remove(m, Lower(b1, b2)), Upper(b1, b2)), Lower(b1, b2))

(* The splitting loop of Allocate: split from order o down to target,     *)
(* marking each returned upper half not free.                             *)
RECURSIVE SplitDown(_, _, _, _), SplitNext(_, _, _)
SplitNext(s, o, target) ==
    SplitDown([s.mem EXCEPT !.rec[s.blk].free = FALSE], s.blk, o, target)
SplitDown(m, e, o, target) ==
    IF o <= target THEN [mem |-> m, blk |-> e]
    ELSE SplitNext(Split(m, e, o), o - 1, target)

(* The merging loop of Free: while the buddy is mergeable, mark the entry *)
(* free and merge.                                                        *)
RECURSIVE MergeLoop(_, _), MergeNext(_)
MergeNext(g) == MergeLoop(g.mem, g.blk)
MergeLoop(m, e) ==
    IF ~Mergeable(m.rec, e, BuddyOf(e, m.rec[e].order)) THEN [mem |-> m, blk |-> e]
    ELSE MergeNext(Merge([m EXCEPT !.rec[e].free = TRUE], e,
                         BuddyOf(e, m.rec[e].order)))

(* The first non-empty free list of order >= k, or NIL.                   *)
FirstList(m, k) ==
    LET ks == {o \in Orders : o >= k /\ m.head[o] # NIL}
    IN  IF ks = {} THEN NIL ELSE Min(ks)

(* BuddyAllocator::Allocate on memory m and mem_in_use_ mu.  Returns the  *)
(* new memory and counter and the block (NIL on failure).                 *)
AllocDone(s, mu, k) ==
    [mem |-> [s.mem EXCEPT !.rec[s.blk].free = FALSE, !.rec[s.blk].order = k],
     mu |-> mu + 2^k, blk |-> s.blk, order |-> k]

AllocFrom(m, mu, k, o) ==
    IF o = NIL THEN [mem |-> m, mu |-> mu, blk |-> NIL, order |-> k]
    ELSE AllocDone(SplitDown(PopFront(m, o), m.head[o], o, k), mu, k)

AllocateOp(m, mu, p) == AllocFrom(m, mu, BlockOrder(p), FirstList(m, BlockOrder(p)))

(* BuddyAllocator::Free of the block at a: push it unless its buddy is    *)
(* mergeable, run the merging loop, and drop mem_in_use_ by the size of   *)
(* the block the merging ended with.                                      *)
FreeDone(g, mu) == [mem |-> g.mem, mu |-> mu - 2^(g.mem.rec[g.blk].order)]

FreeOp(m, mu, a) ==
    FreeDone(MergeLoop(IF Mergeable(m.rec, a, BuddyOf(a, m.rec[a].order)) THEN m
                       ELSE PushFront([m EXCEPT !.rec[a].free = TRUE],
                                      m.rec[a].order, a),
                       a), mu)

Mem == [rec |-> rec, head |-> head]

-----------------------------------------------------------------------------
(* CatalogRange: carve the range greedily from its base, one block per    *)
(* order from CeilLog2(size)-1 down, while more than one page remains.    *)
RECURSIVE Carve(_, _, _)
Carve(j, base, size) ==
    IF size <= 1 THEN {}
    ELSE IF size >= 2^j THEN {[addr |-> base, order |-> j]}
                             \cup Carve(j - 1, base + 2^j, size - 2^j)
    ELSE Carve(j - 1, base, size)

InitBlocks == Carve(BlockOrder(N) - 1, 0, N)

(* A carved block's first record gets order_ and forward_ from PushFront; *)
(* every other field is what CatalogRange's init loop (or, below MDATA,   *)
(* the boot memory) left there.                                           *)
CarvedRec(r, i) ==
    IF \E c \in InitBlocks : c.addr = i
    THEN [r EXCEPT !.order = (CHOOSE c \in InitBlocks : c.addr = i).order,
                   !.fwd = NIL]
    ELSE r

Init ==
    /\ \E u \in [0 .. MDATA - 1 -> UninitRecords] :
          rec = [i \in Rec |->
                   CarvedRec(IF i < MDATA THEN u[i]
                             ELSE [fwd |-> NIL, bwd |-> NIL, order |-> 0,
                                   free |-> TRUE], i)]
    /\ head = [k \in Orders |->
                 IF \E c \in InitBlocks : c.order = k
                 THEN (CHOOSE c \in InitBlocks : c.order = k).addr ELSE NIL]
    /\ memInUse = 0
    /\ owned = {}

InBounds(mu) == mu \in -MemBound .. MemBound

(* Install the result r of an operation and the callers' new holdings.    *)
Commit(r, own) ==
    /\ InBounds(r.mu)
    /\ rec' = r.mem.rec /\ head' = r.mem.head /\ memInUse' = r.mu
    /\ owned' = own

(* The block an Allocate result hands to its caller, if any.              *)
Handed(r) == IF r.blk = NIL THEN {} ELSE {[addr |-> r.blk, order |-> r.order]}

(* A caller requests p pages.                                             *)
Allocate(p) ==
    LET r == AllocateOp(Mem, memInUse, p) IN Commit(r, owned \cup Handed(r))

(* A caller frees a block it owns.                                        *)
Free(o) == Commit(FreeOp(Mem, memInUse, o.addr), owned \ {o})

(* Realloc: keep the block if the request is below its size (counting it  *)
(* into mem_in_use_ again); otherwise Allocate, copy, Free.  A failed     *)
(* Allocate is not checked: the copy goes to address 0, the old block is  *)
(* freed and nullptr returned.                                            *)
ReallocMove(a, o) ==
    [mem |-> FreeOp(a.mem, a.mu, o.addr).mem, mu |-> FreeOp(a.mem, a.mu, o.addr).mu,
     blk |-> a.blk, order |-> a.order]

Realloc(o, p) ==
    IF p < 2^rec[o.addr].order
    THEN /\ InBounds(memInUse + 2^rec[o.addr].order)
         /\ memInUse' = memInUse + 2^rec[o.addr].order
         /\ UNCHANGED <<rec, head, owned>>
    ELSE LET r == ReallocMove(AllocateOp(Mem, memInUse, p), o)
         IN  Commit(r, (owned \ {o}) \cup Handed(r))

Next ==
    \/ \E p \in ReqPages : Allocate(p)
    \/ \E o \in owned : Free(o)
    \/ \E o \in owned, p \in ReqPages : Realloc(o, p)

Spec == Init /\ [][Next]_vars

-----------------------------------------------------------------------------
(* Properties, checked by the configurations of this module.            *)

(* A never-initialised record: zero bytes, except that free_ may hold     *)
(* either truth value.                                                    *)
MCUninitRecords == [fwd : {NIL}, bwd : {NIL}, order : {-12}, free : BOOLEAN]

TypeOK ==
    /\ rec \in [Rec -> [fwd : Link, bwd : Link, order : Orders \cup {-12},
                        free : BOOLEAN]]
    /\ head \in [Orders -> Link]
    /\ memInUse \in -MemBound .. MemBound
    /\ owned \subseteq [addr : Rec, order : Orders]

(* The records reached by walking forward_ from the head of list k.       *)
RECURSIVE Walk(_, _)
Walk(e, seen) ==
    IF e = NIL \/ e \in seen THEN seen ELSE Walk(rec[e].fwd, seen \cup {e})

Pages(b) == b.addr .. b.addr + 2^b.order - 1
FreeBlocks == UNION {{[addr |-> e, order |-> k] : e \in Walk(head[k], {})}
                     : k \in Orders}

(* Allocate and Realloc never hand a caller a page that another caller    *)
(* still holds.  Broken if a stale forward_ left by PopFront lets Remove, *)
(* during Free's merging, leave a merged block reachable from a list.     *)
NoDoubleAllocation ==
    \A b1, b2 \in owned : b1 # b2 => Pages(b1) \cap Pages(b2) = {}

(* mem_in_use_ is the total size of the blocks callers hold (Allocate     *)
(* adds the block's size, Free subtracts it).                             *)
MemInUseAccurate == memInUse = MapThenSumSet(LAMBDA b : 2^b.order, owned)

(* Every data page of the range is either on a free list or held by a     *)
(* caller: CatalogRange's carving loses no page.                          *)
PagesConserved ==
    \A pg \in 0 .. N - 1 : \E b \in owned \cup FreeBlocks : pg \in Pages(b)
=============================================================================
