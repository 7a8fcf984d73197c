SPECIFICATION Spec
CONSTANTS
    a = a
    b = b
    MaxSeq = 3
    Frames <- TwoFrames
    MaxLog = 3
    FsyncMessages = TRUE
    Faults <- FaultKinds
    PowerLoss = TRUE
INVARIANTS AcceptedFramesSurvive StoringNeedsAgreement
SYMMETRY FrameSymmetry
VIEW ResetView
