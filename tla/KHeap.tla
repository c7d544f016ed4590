-------------------------------- MODULE KHeap --------------------------------
(***************************************************************************)
(* The kernel heap of src/sys/kheap.cpp: one growable window of 32-byte    *)
(* granules, chunks with FreeListEntry headers {forward_, backward_,       *)
(* size_, prev_size_}, segregated free lists with their bitmap, the top_   *)
(* chunk, and the requests of PMM_THRESHOLD bytes or more that go to the   *)
(* buddy allocator.                                                        *)
(*                                                                         *)
(* Memory is a function mem from granule address to what the granule      *)
(* holds: a header record, or DATA (bytes a caller wrote, or the junk the  *)
(* buddy allocator handed over).  A header is 32 bytes, so every header    *)
(* the code writes fills one granule, and memcpy copies whole granules.    *)
(* Sizes and size words are in bytes, as in the code: the IN_USE flag is   *)
(* bit 0 of size_ and prev_size_, SIZE_MASK clears bits 0..4.             *)
(*                                                                         *)
(* The operations are pure operators on a heap record s = [mem, lists,    *)
(* bitmap, top, heapSize, big, fault].  A dereference of a granule outside *)
(* the mapped window, or of one that holds no header, sets fault (the      *)
(* kernel page faults or works on junk); so does handing heap memory to    *)
(* the buddy allocator.  No action runs once fault is set.                 *)
(*                                                                         *)
(* Large allocations live in buddy memory: big maps a block of BigIds to   *)
(* the size_ word of its header, NIL when the block is not in use.         *)
(***************************************************************************)
EXTENDS Integers, FiniteSets, FiniteSetsExt

CONSTANTS
    SmallLimit,    \* 1024: below it the bins are 32 bytes apart
    PMMThreshold,  \* PMM_THRESHOLD: requests this large go to the buddy allocator
    InitialSize,   \* KHeap::Init's initial_size (1024 from entry.cpp)
    MaxHeapSize,   \* max_heap_size_
    ReqSizes,      \* byte sizes callers pass to Allocate
    ReallocSizes,  \* byte sizes callers pass to Reallocate
    BigIds,        \* buddy blocks that can hold a large allocation
    MaxLive,       \* bound on the allocations callers hold at once
    DATA, NIL

G == 32                                    \* granule; sizeof(FreeListEntry)
Addrs == 0 .. MaxHeapSize \div G - 1       \* the largest window
Link == Addrs \cup {NIL}

Mask(w) == w - (w % G)                    \* w & SIZE_MASK
InUse(w) == w % 2 = 1                     \* w & IN_USE
Clear(w) == w - (w % 2)                   \* w & ~IN_USE
MarkByAddition(w) == w + 1                \* w += IN_USE
Mark(w) == IF InUse(w) THEN w ELSE w + 1  \* w | IN_USE

(* Allocate's and Reallocate's size: the header added, rounded up to 32.  *)
RoundNoHeader(b) == ((b + G - 1) \div G) * G
Round(b) == ((b + G + G - 1) \div G) * G

RECURSIVE BitLen(_)
BitLen(n) == IF n = 0 THEN 0 ELSE 1 + BitLen(n \div 2)

(* BinIndex: 32-byte bins below 1024, then two bins per power of two:     *)
(* floor_log2_size is the bit length, log2_min_size that of 1024.         *)
BinIndex(size) ==
    IF size < SmallLimit THEN size \div G
    ELSE SmallLimit \div G + (BitLen(size) - BitLen(SmallLimit)) * 2
                           + ((size \div 2^(BitLen(size) - 2)) % 2)

(* The bins a chunk of the largest window can have.                       *)
Bins == 0 .. BinIndex(MaxHeapSize)

-----------------------------------------------------------------------------
(* Access to granules of the window.                                      *)
Window(s) == 0 .. s.heapSize \div G - 1
IsHdr(s, a) == a \in Window(s) /\ s.mem[a] # DATA

(* What a header read of a granule yields; a non-header reads as in use.  *)
Junk == [fwd |-> NIL, bwd |-> NIL, size |-> 1, prev |-> 1]
H(s, a) == IF IsHdr(s, a) THEN s.mem[a] ELSE Junk

(* A dereference of a: a fault unless a holds a header in the window.     *)
Touch(s, a) ==
    IF IsHdr(s, a) \/ s.fault # NIL THEN s
    ELSE [s EXCEPT !.fault = IF a \in Window(s) THEN "junk" ELSE "oob"]

(* A write of one header field, and of a whole header (Split's next).     *)
Put(s, a, f, v) == IF IsHdr(s, a) THEN [s EXCEPT !.mem[a][f] = v] ELSE Touch(s, a)
PutHdr(s, a, h) == IF a \in Window(s) THEN [s EXCEPT !.mem[a] = h] ELSE Touch(s, a)

NextChunk(s, c) == c + Mask(H(s, c).size) \div G
PrevChunk(s, c) == c - Mask(H(s, c).prev) \div G

-----------------------------------------------------------------------------
(* The free lists.  PopFront returns [s, e].                              *)
PopFront(s, ind) ==
    LET e == s.lists[ind]
        f == H(s, e).fwd
        s1 == [Touch(s, e) EXCEPT !.lists[ind] = f]
        s2 == IF f # NIL THEN Put(s1, f, "bwd", NIL)
              ELSE [s1 EXCEPT !.bitmap = @ \ {ind}]
    IN  IF e = NIL THEN [s |-> s, e |-> NIL]
        ELSE [s |-> Put(Put(s2, e, "fwd", NIL), e, "bwd", NIL), e |-> e]

RemoveHead(s, e) ==
    LET bin == BinIndex(Mask(H(s, e).size))
    IN  IF s.lists[bin] = e THEN PopFront(s, bin).s ELSE s

Remove(s, e) ==
    LET h  == H(s, e)
        s1 == IF h.fwd # NIL THEN Put(Touch(s, e), h.fwd, "bwd", h.bwd) ELSE Touch(s, e)
        s2 == IF h.bwd # NIL THEN Put(s1, h.bwd, "fwd", H(s1, e).fwd) ELSE s1
    IN  Put(Put(RemoveHead(s2, e), e, "fwd", NIL), e, "bwd", NIL)

PushFrontNoBitmap(s, ind, e) ==
    LET f  == s.lists[ind]
        s1 == Put(s, e, "fwd", f)
        s2 == IF f # NIL THEN Put(s1, f, "bwd", e) ELSE s1
    IN  [s2 EXCEPT !.lists[ind] = e]

PushFront(s, ind, e) ==
    LET f  == s.lists[ind]
        s1 == Put(s, e, "fwd", f)
        s2 == IF f # NIL THEN Put(s1, f, "bwd", e) ELSE s1
    IN  [s2 EXCEPT !.lists[ind] = e, !.bitmap = @ \cup {ind}]

(* FindEntry's inner loop: the first entry of the list strictly larger    *)
(* than size.  A cyclic list would make the code loop; the free-list      *)
(* invariant rules cycles out, so the walk stops at a repeat.             *)
RECURSIVE FirstLarger(_, _, _, _)
FirstLarger(s, e, size, seen) ==
    IF e = NIL \/ e \in seen THEN NIL
    ELSE IF H(s, e).size > size THEN e
    ELSE FirstLarger(s, H(s, e).fwd, size, seen \cup {e})

(* The outer loop: take the highest marked bin (63 - clz), then increment *)
(* the uint8_t bin_ind and clear bit bin_ind of the mask.  A shift by 64  *)
(* or more is undefined; the build's shl masks the count to 6 bits.       *)
(* FindIn is one turn given the walk's result e.                         *)
RECURSIVE FindLoop(_, _, _, _), FindIn(_, _, _, _, _)
FindLoop(s, size, ind, mask) ==
    IF mask = {} THEN [s |-> s, e |-> NIL]
    ELSE FindIn(s, size, ind, mask, FirstLarger(s, s.lists[Max(mask)], size, {}))

FindIn(s, size, ind, mask, e) ==
    IF e # NIL THEN [s |-> Remove(s, e), e |-> e]
    ELSE FindLoop(s, size, (ind + 1) % 256, mask \ {((ind + 1) % 256) % 64})

FindEntry(s, size) ==
    FindLoop(s, size, BinIndex(size), {b \in s.bitmap : b >= BinIndex(size)})

-----------------------------------------------------------------------------
(* Split: entry keeps size bytes, in use; the rest becomes a free chunk   *)
(* next, which becomes top_ when entry was.  Returns [s, next].           *)
SplitKeepingTop(s, e, size) ==
    LET old == Mask(H(s, e).size)
        nx  == e + size \div G
        s1  == PutHdr(Put(s, e, "size", size + 1), nx,
                      [fwd |-> NIL, bwd |-> NIL, size |-> Clear(old - size),
                       prev |-> size + 1])
    IN  [s |-> IF e = s.top THEN s1
               ELSE Put(s1, NextChunk(s1, nx), "prev", H(s1, nx).size),
         next |-> nx]

Split(s, e, size) ==
    LET old == Mask(H(s, e).size)
        nx  == e + size \div G
        s1  == PutHdr(Put(s, e, "size", size + 1), nx,
                      [fwd |-> NIL, bwd |-> NIL, size |-> Clear(old - size),
                       prev |-> size + 1])
    IN  [s |-> IF e = s.top THEN [s1 EXCEPT !.top = nx]
               ELSE Put(s1, NextChunk(s1, nx), "prev", H(s1, nx).size),
         next |-> nx]

(* SplitAndPush given Split's result r: push next unless it is top_.     *)
PushSplit(r) ==
    IF r.next # r.s.top THEN PushFront(r.s, BinIndex(H(r.s, r.next).size), r.next)
    ELSE r.s

SplitAndPush(s, e, size) == PushSplit(Split(s, e, size))

(* The second half of MergeWithNeighbors: absorb a free next chunk (top_  *)
(* included), then fix the following chunk's prev_size_.                 *)
(* FixNext is its last step: unless entry is top_, the chunk after it    *)
(* gets prev_size_ = entry->size_.                                        *)
FixNext(s, e) ==
    IF e # s.top THEN Put(s, NextChunk(s, e), "prev", H(s, e).size) ELSE s

AbsorbNext(s, e, nx, s2) ==
    [Put(s2, e, "size", H(s2, e).size + Mask(H(s, nx).size))
        EXCEPT !.top = IF nx = s.top THEN e ELSE @]

MergeNext(s, e) ==
    LET nx == NextChunk(s, e)
    IN  [s |-> FixNext(IF ~InUse(H(s, nx).size)
                       THEN AbsorbNext(s, e, nx, Remove(Touch(s, nx), nx))
                       ELSE Touch(s, nx), e),
         e |-> e]

(* MergeWithNeighbors: absorb a free previous chunk (adding entry's whole *)
(* size_ word, flag included), then the next one.  Returns [s, e].        *)
MergeWithNeighbors(s, e) ==
    LET h == H(s, e)
        p == PrevChunk(s, e)
        s1 == Remove(Touch(s, p), p)
    IN  IF ~InUse(h.prev) /\ h.prev > 0
        THEN MergeNext(Put(s1, p, "size", H(s1, p).size + h.size), p)
        ELSE MergeNext(s, e)

(* GrowHeap: unmap the window; then, if the buddy allocator's MemInUse() *)
(* is below max_heap_size_, double heap_size_ (capped at the maximum),    *)
(* move the window's backing (Realloc keeps the contents), map it again   *)
(* and add heap_size_ / 2 to top_.  Otherwise the window stays unmapped,  *)
(* and the caller's next read of top_->size_ faults.                      *)
GrowHeapFullSize(s, memOk) ==
    LET hs == IF s.heapSize * 2 > MaxHeapSize THEN MaxHeapSize ELSE s.heapSize * 2
    IN  IF ~memOk THEN [s EXCEPT !.fault = "oob"]
        ELSE Put([s EXCEPT !.heapSize = hs], s.top, "size", H(s, s.top).size + hs)

GrowHeap(s, memOk) ==
    LET hs == IF s.heapSize * 2 > MaxHeapSize THEN MaxHeapSize ELSE s.heapSize * 2
    IN  IF ~memOk THEN [s EXCEPT !.fault = "oob"]
        ELSE Put([s EXCEPT !.heapSize = hs], s.top, "size", H(s, s.top).size + hs \div 2)

(* memcpy(dst, src, k granules), one granule after the other.             *)
RECURSIVE Memcpy(_, _, _, _)
Memcpy(s, dst, src, k) ==
    IF k = 0 THEN s
    ELSE IF dst \notin Window(s) \/ src \notin Window(s)
    THEN [s EXCEPT !.fault = IF @ = NIL THEN "oob" ELSE @]
    ELSE Memcpy([s EXCEPT !.mem[dst] = s.mem[src]], dst + 1, src + 1, k - 1)

(* The caller writes its f bytes after the header.                        *)
Fill(s, e, f) ==
    [s EXCEPT !.mem = [a \in Addrs |-> IF e < a /\ a <= e + (f + G - 1) \div G
                                       THEN DATA ELSE @[a]]]

(* The end of Allocate: mark entry in use and tell the next chunk; the    *)
(* caller then writes f bytes.                                            *)
AllocFinish(s, e, f) ==
    LET nx == NextChunk(s, e)
        s1 == Put(s, e, "size", Mark(H(s, e).size))
    IN  Fill(Put(Touch(s1, nx), nx, "prev", H(s1, e).size), e, f)

(* Free of a heap chunk: a size_ of PMM_THRESHOLD or more sends it to     *)
(* BuddyAllocator::Free (heap memory given to the buddy allocator);       *)
(* otherwise clear IN_USE, merge, fix the next prev_size_ and push.       *)
(* The part after the merge, given MergeWithNeighbors' result m.         *)
PushMerged(m) ==
    LET sz == H(m.s, m.e).size
    IN  IF m.e = m.s.top THEN m.s
        ELSE PushFront(Put(m.s, NextChunk(m.s, m.e), "prev", sz), BinIndex(sz), m.e)

FreeChunk(s, e) ==
    IF H(s, e).size >= PMMThreshold THEN [s EXCEPT !.fault = "buddy"]
    ELSE PushMerged(MergeWithNeighbors(Put(s, e, "size", Clear(H(s, e).size)), e))

-----------------------------------------------------------------------------
(* Allocate up to its grow loop.  Returns [s, p, wait]: p the pointer     *)
(* handed out, wait when no free-list entry fits and the top_ chunk must  *)
(* be shaved (after growing the heap while size >= top_->size_).  A large *)
(* request takes buddy block id, or ends in a write through nullptr when  *)
(* the buddy allocator has no memory (ok false).                           *)
(* The small path given FindEntry's result r: split a large enough entry *)
(* of 1024 bytes or more, mark it in use; no entry means the grow loop.   *)
AllocFound(r, n, f) ==
    LET s1 == IF n >= SmallLimit /\ Mask(H(r.s, r.e).size) > n
              THEN SplitAndPush(r.s, r.e, n) ELSE r.s
    IN  IF r.e # NIL
        THEN [s |-> AllocFinish(s1, r.e, f), p |-> [kind |-> "heap", at |-> r.e],
              wait |-> FALSE]
        ELSE [s |-> r.s, p |-> NIL, wait |-> TRUE]

AllocPath(s, b, f, id, ok) ==
    IF Round(b) >= PMMThreshold
    THEN IF ok THEN [s |-> [s EXCEPT !.big[id] = Round(b) + 1],
                     p |-> [kind |-> "big", at |-> id], wait |-> FALSE]
         ELSE [s |-> [s EXCEPT !.fault = "null"], p |-> NIL, wait |-> FALSE]
    ELSE AllocFound(FindEntry(s, Round(b)), Round(b), f)

(* The rest of Reallocate's allocate-copy-free path once Allocate has     *)
(* returned p: copy original_size bytes from the old allocation, then     *)
(* Free the merged chunk.                                                 *)
ReallocTail(s, p, re) ==
    FreeChunk(IF p.kind = "heap"
              THEN Memcpy(s, p.at + 1, re.src + 1, Mask(re.orig) \div G)
              ELSE s,
              re.old)

(* memcpy((entry + 1), allocation, original_size & SIZE_MASK)            *)
ReallocCopy(t, dst, src, orig) == Memcpy(t, dst + 1, src + 1, Mask(orig) \div G)

(* Allocate(size) returned r: copy and free the merged chunk (re), or    *)
(* wait in the grow loop with the copy pending.                           *)
ReallocMoved(r, re) ==
    IF r.wait THEN [s |-> r.s, p |-> NIL, wait |-> TRUE, re |-> re]
    ELSE [s |-> IF r.p = NIL THEN r.s ELSE ReallocTail(r.s, r.p, re), p |-> r.p,
          wait |-> FALSE, re |-> NIL]

(* After MergeWithNeighbors gave m: keep the chunk if it is large enough  *)
(* (split off the rest), with the copy made after the split; else fix    *)
(* the next prev_size_ and allocate-copy-free.                            *)
ReallocMerged(e, n, orig, m, id, ok) ==
    IF Mask(H(m.s, m.e).size) > n
    THEN [s |-> ReallocCopy(SplitAndPush(m.s, m.e, n), m.e, e, orig),
          p |-> [kind |-> "heap", at |-> m.e], wait |-> FALSE, re |-> NIL]
    ELSE IF Mask(H(m.s, m.e).size) = n
    THEN [s |-> ReallocCopy(m.s, m.e, e, orig), p |-> [kind |-> "heap", at |-> m.e],
          wait |-> FALSE, re |-> NIL]
    ELSE ReallocMoved(AllocPath(Put(m.s, NextChunk(m.s, m.e), "prev", H(m.s, m.e).size),
                                n, 0, id, ok),
                      [old |-> m.e, src |-> e, orig |-> orig])

(* Reallocate of a heap chunk below the threshold on both sides: merge in *)
(* place first.  Returns [s, p, wait, re] as AllocPath, re the pending    *)
(* copy-and-free.                                                         *)
ReallocInHeap(s, e, b, id, ok) ==
    ReallocMerged(e, Round(b), H(s, e).size, MergeWithNeighbors(s, e), id, ok)

(* Reallocate of a heap chunk growing to PMM_THRESHOLD or more: a new     *)
(* buddy block, memcpy of size bytes from the old chunk (reading past it), *)
(* size_ = size without IN_USE, Free of the old chunk.                    *)
ReallocToBig(s, e, b, id, ok) ==
    LET n == Round(b)
        reads == e .. e + n \div G - 1
    IN  IF ~ok THEN [s EXCEPT !.fault = "null"]
        ELSE IF ~(reads \subseteq Window(s)) THEN [s EXCEPT !.fault = "oob"]
        ELSE FreeChunk([s EXCEPT !.big[id] = n], e)

(* Reallocate of a large allocation: BuddyAllocator::Realloc gives block  *)
(* id (the same one when it fits), whose size_ becomes size & IN_USE.     *)
ReallocBig(s, a, b, id, ok) ==
    IF ~ok THEN [s EXCEPT !.fault = "null"]
    ELSE [s EXCEPT !.big = [@ EXCEPT ![a] = NIL, ![id] = Round(b) % 2]]

(* Reallocate's dispatch on original_size and size, as [s, p, wait, re]; *)
(* a large block is buddy block id.                                       *)
ReallocResult(s, p, b, id, ok) ==
    LET bigP == [kind |-> "big", at |-> id]
        done(t) == [s |-> t, p |-> bigP, wait |-> FALSE, re |-> NIL]
    IN  CASE p.kind = "big" /\ s.big[p.at] >= PMMThreshold -> done(ReallocBig(s, p.at, b, id, ok))
          [] p.kind = "big" -> done([s EXCEPT !.fault = "foreign"])
          [] H(s, p.at).size >= PMMThreshold -> done([s EXCEPT !.fault = "buddy"])
          [] Round(b) >= PMMThreshold -> done(ReallocToBig(s, p.at, b, id, ok))
          [] OTHER -> ReallocInHeap(s, p.at, b, id, ok)

-----------------------------------------------------------------------------
(* Verify's walk from heap_ by size_ to top_: the chunks before top_, or  *)
(* NIL when it passes top_, meets a granule without a header, or would    *)
(* loop on a chunk of size 0.                                             *)
RECURSIVE ChunksFrom(_, _, _)
ChunksFrom(s, c, seen) ==
    IF c = s.top THEN seen
    ELSE IF c > s.top \/ c \in seen \/ ~IsHdr(s, c) THEN NIL
    ELSE ChunksFrom(s, NextChunk(s, c), seen \cup {c})

Chunks(s) == ChunksFrom(s, 0, {})

(* Verify's two loop checks on a chunk's backward_ and forward_.          *)
NoLoopAt(s, c) ==
    LET bk == H(s, c).bwd
        bf == H(s, bk).fwd
    IN  bk # NIL => /\ ~(bf # NIL /\ bf = H(s, bf).fwd)
                    /\ ~(H(s, c).fwd # NIL /\ bf = bk)

(* KHeap::Verify finds nothing wrong (otherwise it calls Print, which     *)
(* ends in while(1)): every chunk below top_ after the first has its      *)
(* predecessor's size_ as prev_size_ (top_'s own prev_size_ is not read), *)
(* no free-list loop, top_ on no list, and the chunks sum to heap_size_.  *)
VerifyOK(s) ==
    LET C == Chunks(s)
    IN  s.top = 0 \/
        /\ C # NIL
        /\ \A c \in C : NextChunk(s, c) \in C => H(s, NextChunk(s, c)).prev = H(s, c).size
        /\ \A c \in C : NoLoopAt(s, c)
        /\ H(s, s.top).fwd = NIL /\ H(s, s.top).bwd = NIL
        /\ MapThenSumSet(LAMBDA c : Mask(H(s, c).size), C) + H(s, s.top).size
               = s.heapSize

-----------------------------------------------------------------------------
VARIABLES
    mem, lists, bitmap, top, heapSize, big, fault,  \* the heap record
    live,     \* the callers' pointers: set of [kind, at]
    call,     \* Allocate in its grow loop: [n, b, re], or NIL
    pmmFull   \* BuddyAllocator::MemInUse() >= max_heap_size_

heapVars == <<mem, lists, bitmap, top, heapSize, big, fault>>
vars == <<heapVars, live, call, pmmFull>>

CONSTANT PmmCanFill  \* whether other buddy users can fill physical memory

Heap == [mem |-> mem, lists |-> lists, bitmap |-> bitmap, top |-> top,
         heapSize |-> heapSize, big |-> big, fault |-> fault]

SetHeap(s) ==
    \E h \in {s} :
        /\ mem' = h.mem /\ lists' = h.lists /\ bitmap' = h.bitmap /\ top' = h.top
        /\ heapSize' = h.heapSize /\ big' = h.big /\ fault' = h.fault

(* KHeap::Init: initial_size rounded up to 32, one top_ chunk.            *)
Init ==
    LET sz == ((InitialSize + G - 1) \div G) * G
    IN  /\ mem = [a \in Addrs |-> IF a = 0
                                  THEN [fwd |-> NIL, bwd |-> NIL, size |-> sz, prev |-> 0]
                                  ELSE DATA]
        /\ lists = [i \in Bins |-> NIL] /\ bitmap = {}
        /\ top = 0 /\ heapSize = sz /\ big = [i \in BigIds |-> NIL]
        /\ fault = NIL /\ live = {} /\ call = NIL /\ pmmFull = FALSE

Idle == call = NIL /\ fault = NIL

(* A buddy block the buddy allocator can hand out.                        *)
FreeBig(id) == big[id] = NIL

(* The buddy allocator's answer, when the call reaches it: block id (free, *)
(* or the caller's own block keep), or nullptr (ok false), which only     *)
(* happens when other users can exhaust physical memory.  Calls that do   *)
(* not reach it take one fixed answer.                                    *)
BuddyInput(need, id, ok, keep) ==
    IF need /\ ok THEN FreeBig(id) \/ id = keep
    ELSE /\ ok = (~need \/ ~PmmCanFill)
         /\ id = CHOOSE x \in BigIds : TRUE

Allocate(b, id, ok) ==
    /\ Idle /\ Cardinality(live) < MaxLive
    /\ BuddyInput(Round(b) >= PMMThreshold, id, ok, NIL)
    /\ \E r \in {AllocPath(Heap, b, b, id, ok)} :
          /\ SetHeap(r.s)
          /\ IF r.wait THEN call' = [n |-> Round(b), f |-> b, re |-> NIL] /\ UNCHANGED live
             ELSE live' = (IF r.p = NIL THEN live ELSE live \cup {r.p}) /\ UNCHANGED call
    /\ UNCHANGED pmmFull

(* One turn of while(size >= top_->size_) GrowHeap();                     *)
GrowHeapStep ==
    /\ call # NIL /\ fault = NIL
    /\ call.n >= H(Heap, top).size
    /\ SetHeap(GrowHeap(Heap, ~pmmFull))
    /\ UNCHANGED <<live, call, pmmFull>>

(* The loop is done: shave size bytes off top_; for Reallocate, copy and  *)
(* free the old chunk.                                                    *)
AllocateFromTop ==
    LET r  == Split(Heap, top, call.n)
        s1 == AllocFinish(r.s, top, call.f)
        p  == [kind |-> "heap", at |-> top]
    IN  /\ call # NIL /\ fault = NIL
        /\ call.n < H(Heap, top).size
        /\ IF call.re = NIL THEN SetHeap(s1) /\ live' = live \cup {p}
           ELSE SetHeap(ReallocTail(s1, p, call.re))
                /\ live' = (live \ {call.re.p}) \cup {p}
        /\ call' = NIL
        /\ UNCHANGED pmmFull

AllocLoop == GrowHeapStep \/ AllocateFromTop

Reallocate(p, b, id, ok) ==
    /\ Idle /\ p \in live
    /\ p.kind = "big" => InUse(big[p.at])
    /\ p.kind = "heap" => InUse(H(Heap, p.at).size)
    /\ BuddyInput(p.kind = "big" \/ Round(Round(b)) >= PMMThreshold, id, ok,
                  IF p.kind = "big" THEN p.at ELSE NIL)
    /\ \E r \in {ReallocResult(Heap, p, b, id, ok)} :
          /\ SetHeap(r.s)
          /\ IF r.wait THEN call' = [n |-> Round(Round(b)), f |-> 0,
                                     re |-> [r.re EXCEPT !.p = p]] /\ UNCHANGED live
             ELSE live' = (live \ {p}) \cup (IF r.p = NIL THEN {} ELSE {r.p}) /\ UNCHANGED call
    /\ UNCHANGED pmmFull

Free(p) ==
    /\ Idle /\ p \in live
    /\ SetHeap(IF p.kind = "heap" THEN FreeChunk(Heap, p.at)
               ELSE IF big[p.at] >= PMMThreshold THEN [Heap EXCEPT !.big[p.at] = NIL]
               ELSE [Heap EXCEPT !.fault = "foreign"])
    /\ live' = live \ {p}
    /\ UNCHANGED <<call, pmmFull>>

(* Other users of the buddy allocator fill or free physical memory while  *)
(* no heap call runs.                                                     *)
BuddyUsage ==
    /\ PmmCanFill /\ call = NIL
    /\ pmmFull' = ~pmmFull
    /\ UNCHANGED <<heapVars, live, call>>

Next ==
    \/ \E b \in ReqSizes, id \in BigIds, ok \in BOOLEAN : Allocate(b, id, ok)
    \/ \E p \in live, b \in ReallocSizes, id \in BigIds, ok \in BOOLEAN : Reallocate(p, b, id, ok)
    \/ \E p \in live : Free(p)
    \/ AllocLoop
    \/ BuddyUsage

(* The CPU runs Allocate's loop to its end: nothing preempts kernel code.  *)
Spec == Init /\ [][Next]_vars /\ WF_vars(AllocLoop)

====
