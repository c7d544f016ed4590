\* Remove frees an indirect block without clearing it, and the next file's
\* Prealloc takes it back: its stale pointers pass for allocated blocks.
CONSTANTS
    P = 2
    NB = 20
    Offs = {12, 13, 14, 15}
    Lens = {1, 2}
    Prealloc = 15
    SPB = 2
    PartBase = 0
    Word = 65536
    Leftover <- FreshDisk
SPECIFICATION Spec
INVARIANT TreeSound
CHECK_DEADLOCK FALSE
