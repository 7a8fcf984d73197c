SPECIFICATION Spec
CONSTANTS
    t1 = t1
    t2 = t2
    Callers <- Two
    MaxQueue = 2
    MaxSize = 2
    Faults <- AllFaults
    MaxEntries = 3
    MaxFlushes = 2
    MaxFailures = 1
INVARIANTS EveryEntryAccounted
PROPERTIES FlushKeepsPromise CallsReturn
CHECK_DEADLOCK FALSE
