SPECIFICATION MCSpec
CONSTANTS
    j1 = j1
    j2 = j2
    Jobs = {j1, j2}
    Mixes <- MCMixes
    Limit <- MCLimit
    Workers = {w1, w2}
    Nobody = Nobody
    MaxClaims <- MCMaxClaims
    Stalls = {"export", "direct", "import"}
    Requests = {r1, r2}
    N = 2
    BatchSize = 1
    Changing = {2}
CHECK_DEADLOCK FALSE
INVARIANTS
    ReadyExportHasArchive
    OneRunAtATime
    NothingSkipped
PROPERTIES
    FileJobsEnd
    ImportLeavesNothing
