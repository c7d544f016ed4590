\* A Write that starts inside an indirect block's range and runs past its
\* end indexes the block buffer past its P pointers.
CONSTANTS
    P = 2
    NB = 6
    Offs = {0, 11, 12, 13, 14, 15, 16, 18}
    Lens = {1, 2, 3}
    Prealloc = 1
    SPB = 2
    PartBase = 0
    Word = 65536
    Leftover <- FreshDisk
SPECIFICATION Spec
INVARIANT NoOverrun
CHECK_DEADLOCK FALSE
