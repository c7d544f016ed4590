\* Allocate returns frames as they were: a table built in a frame that
\* held a freed table keeps its stale entries.
CONSTANTS
    Maps = {A, B}
    Buddy = {1, 2, 3, 4, 5, 6, 7, 8}
    PAddrs = {20, 21}
    VIn = {0, 1, 8}
    ZeroedFrames = FALSE
    NONE = NONE
    NIL = NIL
SPECIFICATION Spec
SYMMETRY Symm
INVARIANT TranslationsAsMapped
