\* One physical page: anonymous pages go to swap, then the process exits.
CONSTANTS
    Procs = {p1}
    Unborn = {}
    NVA = 3
    StackLo = 4
    Kvas = {k1}
    NSlots = 3
    Values = {0, 1}
    MaxAllocs = 3
    NULL = NULL
    FREED = FREED
SPECIFICATION Spec
INVARIANT SwapSlotsReclaimed
