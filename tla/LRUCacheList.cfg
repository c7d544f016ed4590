CONSTANTS
    Keys = {a, b, c}
    Vals = {v1}
    Nodes = {n1, n2, n3}
    NIL = NIL
SPECIFICATION Spec
INVARIANT ListWellFormed
