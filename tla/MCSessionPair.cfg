SPECIFICATION Spec
CONSTANTS
    MaxSeq = 15
    Half = 8
    IntHalf = 8
    kMaxGapRetries = 2
    Bodies = {"order"}
    Cfg <- EndConfigs
    Limits <- ThreeLimits
INVARIANTS TargetNotAheadOfSender DeliveredOnceInOrder NothingSkipped
PROPERTIES SentIsDelivered
