CONSTANTS
    SmallLimit = 128
    PMMThreshold = 1024
    InitialSize = 128
    MaxHeapSize = 512
    ReqSizes = {32, 96}
    ReallocSizes = {}
    BigIds = {g1, g2}
    MaxLive = 3
    PmmCanFill = FALSE
    DATA = DATA
    NIL = NIL
SPECIFICATION AllocFreeSpec
INVARIANT NoFault
