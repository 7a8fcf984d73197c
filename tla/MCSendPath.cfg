SPECIFICATION Spec
CONSTANTS
    MaxSeq = 5
    Half = 3
    IntHalf = 3
    kMaxGapRetries = 1
    Bodies = {"order"}
    Senders <- Threads
    MaxReplays = 1
INVARIANTS FreshNumbersAscend QuietHistoryComplete
CHECK_DEADLOCK FALSE
