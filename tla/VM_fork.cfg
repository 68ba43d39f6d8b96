\* p1 forks p2.  One mmap or lazy segment gives the parent up to two pages, loaded or not; four physical pages hold every page of both processes, so nothing is evicted, and the child starts as a copy of the parent.
CONSTANTS
    Procs = {p1, p2}
    Unborn = {p2}
    NVA = 2
    StackLo = 3
    Kvas = {k1, k2, k3, k4}
    NSlots = 1
    Values = {0, 1}
    MaxAllocs = 1
    NULL = NULL
    FREED = FREED
SYMMETRY KvaSymmetry
SPECIFICATION Spec
PROPERTY DataPreserved
