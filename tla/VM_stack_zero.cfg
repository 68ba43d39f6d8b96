\* Stack growth into a frame recycled by eviction.
CONSTANTS
    Procs = {p1}
    Unborn = {}
    NVA = 3
    StackLo = 3
    Kvas = {k1, k2}
    NSlots = 3
    Values = {0, 1}
    MaxAllocs = 3
    NULL = NULL
    FREED = FREED
SYMMETRY KvaSymmetry
SPECIFICATION Spec
INVARIANT FreshStackZeroed
