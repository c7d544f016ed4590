CONSTANTS
    SmallLimit = 128
    PMMThreshold = 512
    InitialSize = 128
    MaxHeapSize = 1024
    ReqSizes = {32, 96, 224}
    ReallocSizes = {}
    BigIds = {g1, g2}
    MaxLive = 3
    PmmCanFill = FALSE
    DATA = DATA
    NIL = NIL
SPECIFICATION AllocFreeSpec
INVARIANT NoFault
