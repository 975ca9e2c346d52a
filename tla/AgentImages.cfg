SPECIFICATION ImagesFairSpec
CONSTANTS
    t1 = t1
    t2 = t2
    Turns = {t1, t2}
    MaxTurns = 1
    Blocks <- MCBlocks
    FlushMax = 1
    Watched = {t1}
    Stalls = TRUE
    Faults = TRUE
    Kills = TRUE
    Pictures = {t2}
CHECK_DEADLOCK FALSE
INVARIANTS
    LogInOrder
    EndsAgree
    ImagesTrue
PROPERTIES
    NoJobLeftBehind
    StreamsEnd
    ImagesSettle
