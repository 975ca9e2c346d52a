SPECIFICATION MCSpec
CONSTANTS
    w1 = w1
    w2 = w2
    r1 = r1
    r2 = r2
    r3 = r3
    Workers = {w1, w2}
    Requests = {r1, r2, r3}
    HomeOf <- MCHome
    Patient = {r1}
    Nobody = Nobody
    SlotCount = 2
    MaxEvents = 3
    c1 = c1
    c2 = c2
    l1 = l1
    p1 = p1
    p2 = p2
    Processes = {w1}
    Changes = {c1, c2}
    Loads = {l1}
    PlaceOf <- MCOnePlace
    AskedOf <- MCAskedOf
    PresetIds = {p1, p2}
    Default = p1
    Missing = Missing
    Original = Original
    MaxFaults = 1
    s1 = s1
    s2 = s2
    Starters = {s1, s2}
    NoStarter = NoStarter
    Last <- MCLast
    StepsOf <- Migrations
    NewColumns <- MadeColumns
    Always <- MadeAlways
    StartedAt = {3, 36, 41}
    MaxBreaks = 1
CHECK_DEADLOCK FALSE
INVARIANTS
    WorkingOwns
    SlotAccounted
    UpgradeAllOrNothing
    SearchWhole
PROPERTIES
    SavesApplyOnce
    MemoryConverges
    StartedAllServe
