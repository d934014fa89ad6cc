SPECIFICATION Spec
CONSTANTS
    p1 = p1
    p2 = p2
    p3 = p3
    Pids = {p1, p2, p3}
    MaxHome = 1
    HomeOf <- OneHome
    Keys <- TreeKeys
    Prefix <- TreePrefix
    KeySets <- FlatKeySets
    MaxSeq = 3
    MaxHold = 3
SYMMETRY MCSymmetry
INVARIANTS TypeOK MutualExclusion NoDeadlock
PROPERTIES Fifo GenerationsIncrease
CHECK_DEADLOCK FALSE
