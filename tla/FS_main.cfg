\* One process; names a and b; paths of one and two names; symlinks to "/a", so "/a/a" can run through a link to itself.
\* Five clusters (two for the root), four-byte sectors.
CONSTANTS
    Names = {a, b}
    NCluster = 5
    SectorSize = 4
    Procs = {p1}
    Fds = {1}
    Paths <- MCPaths
    LinkTargets <- MCLinkTargets
    CreateSizes = {0}
    Writes <- MCWrites
    Reads <- MCReads
    MaxDepth = 2
    MaxOpenCnt = 3
    NONE = NONE
    EOC = EOC
    FREE = FREE
SPECIFICATION Spec
INVARIANT TypeOK
INVARIANT HoldersCounted
INVARIANT ClustersExclusive
