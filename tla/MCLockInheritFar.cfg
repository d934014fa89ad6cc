SPECIFICATION InheritSpec
CONSTANTS
    p1 = p1
    p2 = p2
    p3 = p3
    Pids = {p1, p2, p3}
    MaxHome = 2
    HomeOf <- TwoHomes
    Keys <- OneKey
    Prefix <- OnePrefix
    KeySets <- OneKeySets
    MaxSeq = 2
    MaxHold = 2
    Cap = 2
    Priorities = {1, 2}
    Inf = 3
    MaxRenice = 1
SYMMETRY MCSymmetry
INVARIANTS LevelsExact BasesMirrored NotesArrive NoInversion
CHECK_DEADLOCK FALSE
