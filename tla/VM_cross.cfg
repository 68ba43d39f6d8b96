\* Two processes sharing one physical page.
CONSTANTS
    Procs = {p1, p2}
    Unborn = {}
    NVA = 1
    StackLo = 2
    Kvas = {k1}
    NSlots = 2
    Values = {0, 1}
    MaxAllocs = 2
    NULL = NULL
    FREED = FREED
SPECIFICATION Spec
INVARIANT MappingCoherent
