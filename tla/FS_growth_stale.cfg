\* A read of the gap a write past the end left returns a removed file's bytes; six clusters.
CONSTANTS
    Names = {a, b}
    NCluster = 6
    SectorSize = 4
    Procs = {p1}
    Fds = {1}
    Paths <- MCPaths
    LinkTargets = {}
    CreateSizes = {0}
    Writes <- MCWrites
    Reads <- MCReads
    MaxDepth = 2
    MaxOpenCnt = 3
    NONE = NONE
    EOC = EOC
    FREE = FREE
SPECIFICATION Spec
INVARIANT ReadReturnsWritten
