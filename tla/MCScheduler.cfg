SPECIFICATION FairSpec
CONSTANTS
    p1 = p1
    p2 = p2
    Pids = {p1, p2}
    Loads <- MostLoads
    LastCalls = {"pause"}
    MaxQueued = 2
    MaxSignals = 1
INVARIANTS IndexesMatch MailNeverWaits DeadlinesKept HeardInOrder
CHECK_DEADLOCK FALSE
PROPERTIES WaitsEndRight PostsHeard StopEnds
