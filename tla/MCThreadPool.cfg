SPECIFICATION FairSpec
CONSTANTS
    w1 = w1
    w2 = w2
    c1 = c1
    c2 = c2
    Workers = {w1, w2}
    Callers = {c1, c2}
    None = None
    MaxN = 3
    Loads <- MostLoads
INVARIANTS JobOutlivesUse EachIndexOnce NobodySleepsThroughWork
PROPERTIES FanOutReturns WorkersEnd
CHECK_DEADLOCK FALSE
