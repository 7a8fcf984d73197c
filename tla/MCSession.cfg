SPECIFICATION Spec
CONSTANTS
    MaxSeq = 5
    Half = 3
    IntHalf = 3
    kMaxGapRetries = 2
    Bodies = {"order"}
    Configs <- BothRoles
    Inbound <- PeerMessages
    Faults <- NumberSafeFaults
    DueSets <- EachDeadline
INVARIANTS GapAndProbeFresh ActiveIsEstablished HistoryMatchesNumbers
PROPERTIES FramesMatchStore LiveNumberingNeverRewinds TargetRewindsOnlyByReset DeliveredInOrder
VIEW View
