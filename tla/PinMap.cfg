CONSTANTS
    Inos = {1, 2}
    Insts = {i1, i2, i3}
    MaxPins = 3
    MaxRefs = 2
    NIL = NIL
SPECIFICATION Spec
INVARIANTS
    TypeOK
    PinTablesAgree
SYMMETRY Symm
CHECK_DEADLOCK FALSE
