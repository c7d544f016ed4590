CONSTANTS
    NGroups = 2
    Words = 2
    W = 2
    MaxOwners = 2
    NIL = NIL
SPECIFICATION MCSpec
INVARIANTS
    BlockOwnersMatchBitmap
