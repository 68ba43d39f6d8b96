\* Two processes and two physical pages, two page addresses each: one process's fault evicts the other's page and clears its own mapping of a page it keeps linked; its next fault there claims a page that already has a frame.
CONSTANTS
    Procs = {p1, p2}
    Unborn = {}
    NVA = 2
    StackLo = 3
    Kvas = {k1, k2}
    NSlots = 1
    Values = {0, 1}
    MaxAllocs = 2
    NULL = NULL
    FREED = FREED
SPECIFICATION Spec
INVARIANT FrameLinks
SYMMETRY MCSymmetry
