CONSTANTS
    LBAs = {0, 1}
    Data = {d1, d2}
    SObjs = {o1, o2}
    Nodes = {n1, n2}
    NIL = NIL
    MaxSectors = 2
    Critical = {FALSE}
SPECIFICATION Spec
INVARIANTS TypeOK CleanSectorsMatchDisk
PROPERTY ImplementsBlockDevice
SYMMETRY HeapSymmetry
CHECK_DEADLOCK FALSE
