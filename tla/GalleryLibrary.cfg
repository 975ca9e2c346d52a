SPECIFICATION MCSpec
CONSTANTS
    g = g
    a = a
    w1 = w1
    w2 = w2
    Generated = {g}
    Archived = {a}
    Workers = {w1, w2}
    Nobody = Nobody
    Unreadable = {}
    Place <- MCPlace
    GcLimit = 2
    MaxAttempts = 2
    MaxNames = 2
    MaxPictures = 2
    MaxEvents = 2
CHECK_DEADLOCK FALSE
INVARIANTS
    ListedTrue
PROPERTIES
    RowsKept
    LeftoversGo
    ThumbnailShown
