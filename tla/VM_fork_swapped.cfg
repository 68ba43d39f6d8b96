\* p1 forks p2 with one physical page and one page-creating call: a page of the parent is not resident when the child copies it.
CONSTANTS
    Procs = {p1, p2}
    Unborn = {p2}
    NVA = 2
    StackLo = 3
    Kvas = {k1}
    NSlots = 2
    Values = {0, 1}
    MaxAllocs = 1
    NULL = NULL
    FREED = FREED
SPECIFICATION Spec
INVARIANT ForkCopySafe
