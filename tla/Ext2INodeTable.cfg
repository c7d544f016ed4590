\* Inode table: every inode read returns, and the disk keeps, what the
\* latest WriteINode stored.
CONSTANTS
    IPG = 4
    PerBlock = 2
    InitUsed = 2
    MaxVer = 3
    NIL = NIL
SPECIFICATION Spec
INVARIANT INodeTableCoherent
