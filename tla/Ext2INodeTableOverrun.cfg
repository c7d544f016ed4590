\* Inode table: ReadVNode never reads past the cached table.
CONSTANTS
    IPG = 4
    PerBlock = 2
    InitUsed = 2
    MaxVer = 3
    NIL = NIL
SPECIFICATION Spec
INVARIANT TableCoversReads
