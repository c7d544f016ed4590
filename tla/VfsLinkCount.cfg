\* Link counts: no directory entry names an inode whose count is 0.
CONSTANTS
    RootIno = 2
    Inos <- MCInos
    MRoots <- MCMRoots
    Paths <- MCPaths
    InitDirents <- MCDirents
    InitLinks <- MCLinks
    Handles = {1, 2}
    MaxPins = 3
    MaxOpen = 2
    FreeInos <- MCFree
    InitSize <- MCSize
SPECIFICATION Spec
INVARIANT NoDanglingEntry
CHECK_DEADLOCK FALSE
