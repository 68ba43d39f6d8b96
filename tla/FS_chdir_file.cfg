\* chdir to a regular file succeeds.
CONSTANTS
    Names = {a, b}
    NCluster = 5
    SectorSize = 4
    Procs = {p1}
    Fds = {1}
    Paths <- MCPaths
    LinkTargets = {}
    CreateSizes = {0}
    Writes <- MCWrites
    Reads <- MCReads
    MaxDepth = 2
    MaxOpenCnt = 3
    NONE = NONE
    EOC = EOC
    FREE = FREE
SPECIFICATION Spec
INVARIANT PwdIsDirectory
