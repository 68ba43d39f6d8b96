\* One mmap call of every length, file length and offset below, then touches: the layout do_mmap builds compared with spec.md 4.10.
CONSTANTS
    PGSIZE = 4
    SizeBits = 6
    Lengths <- MCLengths
    FileLens <- MCFileLens
    Offsets <- MCOffsets
    MaxRefs = 2
SPECIFICATION Spec
INVARIANT MmapAsSpecified
