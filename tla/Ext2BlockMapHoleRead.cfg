\* A Read of a direct block never written (a hole left by a Write past the
\* end, or a block past i_size, which ReadWrite does not test) gets block 0
\* from GetOrCreateExtents, and ReadBlocks's uint32_t (0 - 1) * sectors_per_block_
\* sends the disk an address Word - 2 sectors past the start of block 1.
CONSTANTS
    P = 2
    NB = 6
    Offs = {0, 2}
    Lens = {1}
    Prealloc = 1
    SPB = 2
    PartBase = 0
    Word = 65536
    Leftover <- FreshDisk
SPECIFICATION CheckedSpec
INVARIANT RangesInPartition
