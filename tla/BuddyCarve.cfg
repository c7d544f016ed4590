CONSTANTS
    N = 8
    MDATA = 1
    ReqPages = {1, 2}
    MemBound = 12
    NIL = NIL
    UninitRecords <- MCUninitRecords
SPECIFICATION Spec
INVARIANT PagesConserved
