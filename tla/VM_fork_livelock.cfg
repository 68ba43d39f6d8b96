\* p1 grows its stack and forks p2; two physical pages, so the child's copy of the stack page can be evicted.
CONSTANTS
    Procs = {p1, p2}
    Unborn = {p2}
    NVA = 2
    StackLo = 2
    Kvas = {k1, k2}
    NSlots = 2
    Values = {0, 1}
    MaxAllocs = 3
    NULL = NULL
    FREED = FREED
SPECIFICATION FairSpec
PROPERTY FaultsComplete
