------------------------------- MODULE MCKHeap -------------------------------
(* Model-checking instance of KHeap and its properties.                   *)
EXTENDS KHeap

Ptrs == [kind : {"heap"}, at : Addrs] \cup [kind : {"big"}, at : BigIds]
(* A size word: a multiple of 32 with the IN_USE bit, bits 1..4 clear.    *)
SizeWords == {w \in 0 .. 2 * MaxHeapSize + 1 : w % G \in {0, 1}}
Header == [fwd : Link, bwd : Link, size : SizeWords, prev : SizeWords]

(* Every variable has its type; every header word is a size word, top_   *)
(* is a granule of the largest window, heap_size_ at most the maximum.    *)
TypeOK ==
    /\ mem \in [Addrs -> Header \cup {DATA}]
    /\ lists \in [Bins -> Link] /\ bitmap \subseteq Bins
    /\ top \in Addrs /\ heapSize \in 0 .. MaxHeapSize
    /\ big \in [BigIds -> Int \cup {NIL}]
    /\ fault \in {NIL, "oob", "junk", "null", "buddy", "foreign"}
    /\ live \subseteq Ptrs
    /\ call \in {NIL} \cup [n : Int, f : Int, re : {NIL} \cup [old : Addrs, src : Addrs,
                                                              orig : Int, p : Ptrs]]
    /\ pmmFull \in BOOLEAN

(* Callers that only Allocate and Free: the kernel's own users of the    *)
(* heap other than ds::String and ds::DynArray, with the buddy allocator  *)
(* below max_heap_size_ (no BuddyUsage).                                  *)
AllocFreeNext ==
    \/ \E b \in ReqSizes, id \in BigIds, ok \in BOOLEAN : Allocate(b, id, ok)
    \/ \E p \in live : Free(p)
    \/ AllocLoop

AllocFreeSpec == Init /\ [][AllocFreeNext]_vars /\ WF_vars(AllocLoop)

(* The state with the granules no chunk header occupies read as DATA:    *)
(* the stale headers a merge or a split leaves inside a chunk are never   *)
(* read while the heap passes Verify (a heap that fails it, or a state    *)
(* after a fault, keeps its whole memory).                                *)
LiveMem ==
    IF fault # NIL \/ ~VerifyOK(Heap) THEN mem
    ELSE [a \in Addrs |-> IF a \in Chunks(Heap) \cup {top} THEN mem[a] ELSE DATA]

HeapView == <<LiveMem, lists, bitmap, top, heapSize, big, fault, live, call, pmmFull>>

(* The heap below max_heap_size_ (1 GiB in the kernel): the pass run     *)
(* explores the heap up to half the model's maximum; growth at the       *)
(* maximum is KHeapGrowAtMax.cfg's question.                              *)
BelowMaxHeap == heapSize < MaxHeapSize

(* The chunks a free list reaches from its head, NIL on a cycle or a      *)
(* granule without a header.                                              *)
RECURSIVE ListFrom(_, _)
ListFrom(e, seen) ==
    IF e = NIL THEN seen
    ELSE IF e \in seen \/ ~IsHdr(Heap, e) THEN NIL
    ELSE ListFrom(mem[e].fwd, seen \cup {e})

Listed(b) == ListFrom(lists[b], {})

(* Between calls, the check KHeap::Verify makes at the start and end of   *)
(* Allocate, Reallocate and Free passes: chunks tile the window from      *)
(* heap_ to top_ with matching prev_size_ words and sum to heap_size_.    *)
(* If it failed, Verify would Print and spin in while(1).                 *)
HeapVerifies == call = NIL /\ fault = NIL => VerifyOK(Heap)

(* The segregated free lists hold exactly the free chunks other than     *)
(* top_: each list is a well-linked chain of free chunks of its own bin,  *)
(* the bitmap marks exactly the non-empty lists, and every free chunk the *)
(* walk from heap_ meets is on the list of its bin.                       *)
FreeListsSound ==
    LET C == Chunks(Heap)
    IN  call = NIL /\ fault = NIL /\ C # NIL =>
        /\ \A b \in Bins : (b \in bitmap) <=> (lists[b] # NIL)
        /\ \A b \in Bins : lists[b] # NIL => mem[lists[b]].bwd = NIL
        /\ \A b \in Bins :
             /\ Listed(b) # NIL
             /\ \A e \in Listed(b) :
                  /\ e \in C /\ ~InUse(mem[e].size) /\ BinIndex(Mask(mem[e].size)) = b
                  /\ mem[e].fwd # NIL => mem[mem[e].fwd].bwd = e
        /\ \A c \in C : ~InUse(mem[c].size) => c \in Listed(BinIndex(Mask(mem[c].size)))

(* The granules a heap allocation covers, and those of top_.              *)
Span(a) == a .. NextChunk(Heap, a) - 1

(* No two allocations the callers hold overlap, and none overlaps top_,   *)
(* which the next Allocate would carve.                                   *)
AllocationsDisjoint ==
    LET hp == {p.at : p \in {q \in live : q.kind = "heap"}}
    IN  fault = NIL =>
        /\ \A a, c \in hp : a # c => Span(a) \cap Span(c) = {}
        /\ \A a \in hp : top \notin Span(a) /\ a \notin Span(top)

(* No call dereferences memory outside the heap window or without a      *)
(* header, writes through nullptr, or hands heap memory to the buddy      *)
(* allocator.                                                             *)
NoFault == fault = NIL

(* Allocate shaves top_ only when no free chunk on the lists is large     *)
(* enough for the request.                                                *)
TopOnlyWhenNoFit ==
    [][call = NIL /\ call' # NIL /\ call'.re = NIL =>
         \A b \in Bins : \A e \in Listed(b) : Mask(mem[e].size) < call'.n]_vars
=============================================================================
