\* One PageMap is enough for a Remap whose Unmap fails.
CONSTANTS
    Maps = {A}
    Buddy = {1, 2, 3, 4, 5, 6, 7, 8}
    PAddrs = {20, 21}
    VIn = {0, 1, 8}
    ZeroedFrames = TRUE
    NONE = NONE
    NIL = NIL
SPECIFICATION Spec
SYMMETRY Symm
PROPERTY FailedUnmapRolledBack
