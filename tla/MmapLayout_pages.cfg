\* Offsets that are positions of a non-empty file: do_mmap maps fewer pages than length asks for when the part of the file mapped ends on a page boundary.
CONSTANTS
    PGSIZE = 4
    SizeBits = 6
    Lengths <- MCLengths
    FileLens = {1, 2, 3, 4, 5, 6, 7, 8, 9, 10}
    Offsets = {0, 2, 4, 8}
    MaxRefs = 2
SPECIFICATION Spec
INVARIANT MmapAsSpecified
