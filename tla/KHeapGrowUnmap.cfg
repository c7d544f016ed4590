\* Other users of the buddy allocator fill physical memory; an Allocate that
\* must grow the heap reaches GrowHeap, which unmaps the window and, with
\* MemInUse() at max_heap_size_, does not map it again.
CONSTANTS
    SmallLimit = 128
    PMMThreshold = 512
    InitialSize = 128
    MaxHeapSize = 512
    ReqSizes = {32, 96}
    ReallocSizes = {}
    BigIds = {g1, g2}
    MaxLive = 2
    PmmCanFill = TRUE
    DATA = DATA
    NIL = NIL
SPECIFICATION Spec
INVARIANT NoFault
