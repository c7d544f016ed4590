\* Directory insertions: every MakeDirEntry returns.
CONSTANTS
    RootIno = 2
    Inos <- MCInos
    MRoots <- MCMRoots
    Paths <- MCPaths
    InitDirents <- MCDirents
    InitLinks <- MCLinks
    Handles = {1, 2}
    MaxPins = 3
    MaxOpen = 2
    FreeInos <- MCFree
    InitSize <- MCSize
SPECIFICATION Spec
INVARIANT MakeDirEntryReturns
CHECK_DEADLOCK FALSE
