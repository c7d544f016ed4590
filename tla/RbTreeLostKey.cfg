\* Insert, Read, Update and Delete of four keys with two values, by
\* callers that do not call into an empty tree.
CONSTANTS
    Keys = {1, 2, 3, 4}
    Vals = {v1, v2}
    Nodes = {n1, n2, n3, n4}
    NIL = NIL
SPECIFICATION CheckedSpec
SYMMETRY Symm
PROPERTY ImplementsDictionary
VIEW TreeView
