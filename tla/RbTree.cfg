\* Insert, Read, Update and Delete of six keys with two values, by
\* callers that do not call into an empty tree.
CONSTANTS
    Keys = {1, 2, 3, 4, 5, 6}
    Vals = {v1, v2}
    Nodes = {n1, n2, n3, n4, n5, n6}
    NIL = NIL
SPECIFICATION CheckedSpec
SYMMETRY Symm
INVARIANTS TypeOK WellLinked RedBlack
VIEW TreeView
