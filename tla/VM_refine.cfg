\* One process, two physical pages for three user pages (the top one in the stack window), three page-creating calls: the paging tables refine UserMemory, and under weak fairness of the faulting process every faulting access completes.
CONSTANTS
    Procs = {p1}
    Unborn = {}
    NVA = 3
    StackLo = 3
    Kvas = {k1, k2}
    NSlots = 3
    Values = {0, 1}
    MaxAllocs = 3
    NULL = NULL
    FREED = FREED
SPECIFICATION FairSpec
PROPERTY DataPreserved
PROPERTY FaultsComplete
INVARIANT TypeOK
INVARIANT SwapOwnership
INVARIANT MappingCoherent
INVARIANT FrameLinks
