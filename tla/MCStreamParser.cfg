SPECIFICATION Spec
CONSTANTS
    Streams <- TheStreams
    Chunks = {1, 7, 20}
    max_msg_len = 32
    kMinMsgLen = 10
    kTrailerBytes = 4
    kKeepTail = 3
    kMaxHeaderScan = 6
    kBacklogSlack = 12
INVARIANTS FramesExtracted StallsOnlyOnClaim StaysHealthy DrainEnds
