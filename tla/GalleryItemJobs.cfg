SPECIFICATION ItemsFairSpec
CONSTANTS
    j1 = j1
    i1 = i1
    i2 = i2
    i3 = i3
    Jobs = {j1}
    Mixes <- MCMixes
    Limit <- MCLimit
    Workers = {w1, w2}
    Nobody = Nobody
    MaxClaims <- MCMaxClaims
    Stalls = {"nodeimage", "analyze"}
    Images <- MCImages
    Width = 2
CHECK_DEADLOCK FALSE
INVARIANTS
    EveryImageAnswered
PROPERTIES
    CancelSticks
    ResultsKept
    ItemJobsEnd
