\* Read and Write on one file of a freshly formatted disk of NB blocks, P
\* pointers per block: requests in the direct range, across the direct /
\* single-indirect boundary, and in the single, double and triple ranges.
CONSTANTS
    P = 2
    NB = 6
    Offs = {0, 11, 12, 14, 15, 16, 18}
    Lens = {1, 2, 3}
    Prealloc = 1
    SPB = 2
    PartBase = 0
    Word = 65536
    Leftover <- FreshDisk
SPECIFICATION CheckedSpec
INVARIANTS TypeOK ExtentsMatchMap
PROPERTY MappingsStable
