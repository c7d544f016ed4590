CONSTANTS
    Keys = {k1, k2, k3}
    Vals = {v1, v2}
    MaxCap = 31
    MaxCopyCap = 7
    EMPTY = EMPTY
    DELETED = DELETED
    NullOpt = NullOpt
    NoCopy = NoCopy
    k1 = k1
    k2 = k2
    k3 = k3
    H1 <- MCH1
SPECIFICATION SpecChecked
INVARIANTS TypeOK ProbeChainsIntact EmptySlotExists CopyAgrees
PROPERTY ImplementsKeyValueMap
CHECK_DEADLOCK FALSE
