\* munmap of an mmap region followed by other pages.
CONSTANTS
    Procs = {p1}
    Unborn = {}
    NVA = 3
    StackLo = 4
    Kvas = {k1, k2}
    NSlots = 3
    Values = {0, 1}
    MaxAllocs = 3
    NULL = NULL
    FREED = FREED
SYMMETRY KvaSymmetry
SPECIFICATION Spec
PROPERTY MunmapOnlyFilePages
