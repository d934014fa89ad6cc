SPECIFICATION FairSpec
CONSTANTS
    t1 = t1
    d1 = d1
    pump = pump
    x = x
    Lanes = {t1, d1}
    Threaded = {t1}
    Callers = {pump, x}
    Pump = pump
    None = None
    Stops <- AllStops
    PerCall = 2
    MaxJobs = 3
    MaxCalls = 1
INVARIANTS SerialInOrder IdleHoldsNothing AnsweredOnce StoppedIsDrained
CHECK_DEADLOCK FALSE
PROPERTIES CallsReturn LanesSettle
