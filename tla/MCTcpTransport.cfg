SPECIFICATION Spec
CONSTANTS
    s1 = s1
    s2 = s2
    Initiator = FALSE
    Senders <- Two
    Capacity = 3
    MaxFrames = 2
    MaxConns = 2
INVARIANTS FramesIntact
PROPERTIES QueueDrains DisconnectHappens LifecycleReturns
