\* a symlink cycle makes get_working_dir recurse without end.
CONSTANTS
    Names = {a, b}
    NCluster = 5
    SectorSize = 4
    Procs = {p1}
    Fds = {1}
    Paths <- LinkPaths
    LinkTargets <- MCLinkTargets
    CreateSizes = {0}
    Writes <- MCWrites
    Reads <- MCReads
    MaxDepth = 2
    MaxOpenCnt = 3
    NONE = NONE
    EOC = EOC
    FREE = FREE
SPECIFICATION Spec
INVARIANT NoStackOverflow
