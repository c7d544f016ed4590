CONSTANTS
    SmallLimit = 128
    PMMThreshold = 512
    InitialSize = 128
    MaxHeapSize = 512
    ReqSizes = {32}
    ReallocSizes = {32}
    BigIds = {g1, g2}
    MaxLive = 2
    PmmCanFill = FALSE
    DATA = DATA
    NIL = NIL
SPECIFICATION Spec
INVARIANT HeapVerifies
