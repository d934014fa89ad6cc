SPECIFICATION FairHSpec
CONSTANTS
    p1 = p1
    p2 = p2
    p3 = p3
    Pids = {p1, p2, p3}
    MaxHome = 2
    HomeOf <- TwoHomes
    Keys <- TreeKeys
    Prefix <- TreePrefix
    KeySets <- OneKeySet
    MaxSeq = 2
    MaxHold = 4
    MaxDepth = 1
INVARIANTS WakesReachWaiters WakesAreTimely HomesGoOn
PROPERTY GrantsWake
CHECK_DEADLOCK FALSE
