SPECIFICATION FairSpec
CONSTANTS
    w1 = w1
    w2 = w2
    r1 = r1
    m1 = m1
    s1 = s1
    s2 = s2
    s3 = s3
    Writer = {w1}
    Reader = {r1}
    SortedMap = {m1}
    Server = {s1, s2}
    Home <- HomeOfReader
    Coordinator = r1
    MaxCrashes = 1
CHECK_DEADLOCK FALSE
PROPERTIES EveryoneFinishes
