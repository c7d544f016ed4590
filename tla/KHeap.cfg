\* Allocate and Free with three allocations held at once, the heap below
\* its maximum, physical memory never exhausted.
CONSTANTS
    SmallLimit = 128
    PMMThreshold = 512
    InitialSize = 128
    MaxHeapSize = 1024
    ReqSizes = {32, 96, 480}
    ReallocSizes = {}
    BigIds = {g1, g2, g3}
    MaxLive = 3
    PmmCanFill = FALSE
    DATA = DATA
    NIL = NIL
SPECIFICATION AllocFreeSpec
CONSTRAINT BelowMaxHeap
VIEW HeapView
INVARIANTS TypeOK HeapVerifies FreeListsSound AllocationsDisjoint NoFault
