\* Inode 0: no call looks up or removes through a removed record.
CONSTANTS
    RootIno = 2
    Inos <- MCInos
    MRoots <- MCMRoots
    Paths <- MCPaths
    InitDirents <- MCDirents
    InitLinks <- MCLinks
    Handles = {1, 2}
    MaxPins = 3
    MaxOpen = 2
    FreeInos <- MCFree
    InitSize <- MCSize
SPECIFICATION Spec
INVARIANT NoFault
CHECK_DEADLOCK FALSE
