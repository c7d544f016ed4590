\* Pins: an inode stays in the pin map exactly while a valid handle or a
\* mount overlay holds it.
CONSTANTS
    RootIno = 2
    Inos <- MCInos
    MRoots <- MCMRoots
    Paths <- MCPaths
    InitDirents <- MCDirents
    InitLinks <- MCLinks
    Handles = {1, 2}
    MaxPins = 3
    MaxOpen = 2
    FreeInos <- MCFree
    InitSize <- MCSize
SPECIFICATION Spec
INVARIANT PinnedIffHeld
CHECK_DEADLOCK FALSE
