SPECIFICATION Spec
CONSTANTS
    MaxSeq = 7
    Half = 4
    IntHalf = 4
    kMaxGapRetries = 2
    Bodies = {"order"}
    Configs <- BothRoles
    AgeCap = 16
INVARIANTS SilentPeerDetected WaitsBounded
PROPERTIES WeKeepTalking LivePeerNotDropped
