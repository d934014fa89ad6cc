SPECIFICATION Spec
CONSTANTS
    p1 = p1
    p2 = p2
    p3 = p3
    Pids = {p1, p2, p3}
    MaxHome = 2
    HomeOf <- TwoHomes
    Keys <- TreeKeys
    Prefix <- TreePrefix
    KeySets <- PairKeySets
    MaxSeq = 2
    MaxHold = 3
SYMMETRY MCSymmetry
INVARIANTS RecordsMatch NoMissedGrant
PROPERTIES SectionsAreTold
CHECK_DEADLOCK FALSE
