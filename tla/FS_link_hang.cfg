\* remove through a symlink to itself loops forever in get_working_dir.
CONSTANTS
    Names = {a, b}
    NCluster = 5
    SectorSize = 4
    Procs = {p1}
    Fds = {1}
    Paths <- LinkPaths
    LinkTargets <- MCLinkTargets
    CreateSizes = {0}
    Writes <- MCWrites
    Reads <- MCReads
    MaxDepth = 2
    MaxOpenCnt = 3
    NONE = NONE
    EOC = EOC
    FREE = FREE
SPECIFICATION Spec
INVARIANT NoResolutionHang
