SPECIFICATION HSpec
CONSTANTS
    p1 = p1
    p2 = p2
    Pids = {p1, p2}
    MaxHome = 2
    HomeOf <- OwnHomes
    Keys <- TreeKeys
    Prefix <- TreePrefix
    KeySets <- TreeKeySets
    MaxSeq = 1
    MaxHold = 3
    MaxDepth = 3
INVARIANTS MirrorMatches
PROPERTIES KeepsPromise
CHECK_DEADLOCK FALSE
