CONSTANTS
    LBAs = {0, 1}
    Data = {d1, d2}
    SObjs = {o1, o2}
    Nodes = {n1, n2}
    NIL = NIL
    MaxSectors = 2
    Critical = {FALSE, TRUE}
SPECIFICATION Spec

PROPERTY ImplementsBlockDevice
CHECK_DEADLOCK FALSE
