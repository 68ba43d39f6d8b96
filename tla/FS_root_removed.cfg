\* The paths of FS_main with "/" and "..": a directory created over the stale record a failed create left is removed as a file while it is the working
\* directory, and remove ("..") then finds the root empty and frees it.
CONSTANTS
    Names = {a, b}
    NCluster = 5
    SectorSize = 4
    Procs = {p1}
    Fds = {1}
    Paths <- MCUpPaths
    LinkTargets <- MCLinkTargets
    CreateSizes = {0}
    Writes <- MCWrites
    Reads <- MCReads
    MaxDepth = 2
    MaxOpenCnt = 3
    NONE = NONE
    EOC = EOC
    FREE = FREE
SPECIFICATION Spec
INVARIANT ClustersExclusive
