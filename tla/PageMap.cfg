\* Two PageMaps and eight buddy frames: a full tree for pages 0, 1 and 8
\* takes seven, so a copy of a map with one page mapped fits (four more)
\* and a second full map runs out.  Pages 0 and 1 share their tables, 8
\* differs from them at level 4.  Frames come back zeroed.
CONSTANTS
    Maps = {A, B}
    Buddy = {1, 2, 3, 4, 5, 6, 7, 8}
    PAddrs = {20, 21}
    VIn = {0, 1, 8}
    ZeroedFrames = TRUE
    NONE = NONE
    NIL = NIL
SPECIFICATION Spec
SYMMETRY Symm
INVARIANT TypeOK
INVARIANT TranslationsAsMapped
INVARIANT FramesAccounted
VIEW ZeroedView
