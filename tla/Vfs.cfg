\* Mount points: a filesystem mounted on /a/m is what a lookup of /a/m
\* reaches.
CONSTANTS
    RootIno = 2
    Inos <- MCInos
    MRoots <- MCMRoots
    Paths <- MCPaths
    InitDirents <- MCDirents
    InitLinks <- MCLinks
    Handles = {1, 2}
    MaxPins = 3
    MaxOpen = 2
    FreeInos <- MCFree
    InitSize <- MCSize
SPECIFICATION Spec
INVARIANT MountShadows
CHECK_DEADLOCK FALSE
