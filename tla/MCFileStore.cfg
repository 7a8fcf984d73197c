SPECIFICATION Spec
CONSTANTS
    a = a
    b = b
    MaxSeq = 3
    Frames <- TwoFrames
    MaxLog = 3
    FsyncMessages = FALSE
    Faults <- NoHalfReset
    PowerLoss = FALSE
INVARIANTS SeqFileAlwaysLoads 
PROPERTIES ClaimsAreFresh 
SYMMETRY FrameSymmetry
