\* Non-negative aligned offsets: touching a page past the end of the file kills the process.
CONSTANTS
    PGSIZE = 4
    SizeBits = 6
    Lengths <- MCLengths
    FileLens <- MCFileLens
    Offsets = {0, 4}
    MaxRefs = 2
SPECIFICATION Spec
INVARIANT MmapTouchSafe
