\* Writing an odd block under a fresh double-indirect block leaves the child
\* pointer 0, and the loop retries ReadBlock(0) for ever.
CONSTANTS
    P = 2
    NB = 6
    Offs = {0, 11, 12, 13, 14, 15, 16, 18}
    Lens = {1, 2, 3}
    Prealloc = 1
    SPB = 2
    PartBase = 0
    Word = 65536
    Leftover <- FreshDisk
SPECIFICATION Spec
INVARIANT NoHang
CHECK_DEADLOCK FALSE
