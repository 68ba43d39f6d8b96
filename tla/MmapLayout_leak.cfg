\* One mmap call after another: the struct file do_mmap reopens outlives a failed call and the munmap of its pages.
CONSTANTS
    PGSIZE = 4
    SizeBits = 6
    Lengths <- MCLengths
    FileLens <- MCFileLens
    Offsets <- MCOffsets
    MaxRefs = 2
SPECIFICATION Spec
INVARIANT MmapReleasesFile
