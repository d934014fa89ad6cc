SPECIFICATION FairSpec
CONSTANTS
    p1 = p1
    p2 = p2
    Pids = {p1, p2}
    Loads <- OneLoad
    LastCalls = {"kill"}
    MaxQueued = 2
    MaxSignals = 1
INVARIANT IndexesMatch
CHECK_DEADLOCK FALSE
