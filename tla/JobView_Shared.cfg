SPECIFICATION ViewFairSpec
CONSTANTS
    w1 = w1
    t1 = t1
    t2 = t2
    t3 = t3
    s1 = s1
    s2 = s2
    Workers = {w1}
    Elsewhere = Elsewhere
    Tasks = {t3}
    Streams = {s1, s2}
    HomeOf <- MCTwo
    QueueMax = 2
    MaxClock = 2
    MaxEvents = 1
CHECK_DEADLOCK FALSE
PROPERTIES
    StreamTold
