SPECIFICATION ReplaySpec
CONSTANTS
    MaxSeq = 5
    Half = 3
    IntHalf = 3
    kMaxGapRetries = 1
    Bodies = {"order"}
INVARIANTS LoopComputesReplay
CHECK_DEADLOCK FALSE
