\* One physical page and one swap slot.
CONSTANTS
    Procs = {p1}
    Unborn = {}
    NVA = 3
    StackLo = 4
    Kvas = {k1}
    NSlots = 1
    Values = {0, 1}
    MaxAllocs = 3
    NULL = NULL
    FREED = FREED
SPECIFICATION Spec
INVARIANT MappingCoherent
