CONSTANTS
    N = 6
    MDATA = 1
    ReqPages = {1, 2}
    MemBound = 12
    NIL = NIL
    UninitRecords <- MCUninitRecords
SPECIFICATION Spec
INVARIANT NoDoubleAllocation
