SPECIFICATION FairHSpec
CONSTANTS
    p1 = p1
    p2 = p2
    Pids = {p1, p2}
    MaxHome = 1
    HomeOf <- OneHome
    Keys <- TreeKeys
    Prefix <- TreePrefix
    KeySets <- FlatKeySets
    MaxSeq = 2
    MaxHold = 4
    MaxDepth = 2
PROPERTIES NoStarvation
CHECK_DEADLOCK FALSE
