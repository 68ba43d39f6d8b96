\* p1 forks p2 with two page-creating calls: an mmap that failed part-way leaves uninit pages naming a closed file, and fork reopens it.
CONSTANTS
    Procs = {p1, p2}
    Unborn = {p2}
    NVA = 2
    StackLo = 3
    Kvas = {k1}
    NSlots = 2
    Values = {0, 1}
    MaxAllocs = 2
    NULL = NULL
    FREED = FREED
SPECIFICATION Spec
INVARIANT ForkCopySafe
