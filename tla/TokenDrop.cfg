CONSTANTS
    MaxInc = 1
    Total = 3
    kListenerStreamId = 1
    kSendWindow = 2
    kMaxRetries = 1
    Spurious = TRUE
    Duplicates = TRUE
    MediaMode = TRUE
    MaxRestarts = 0
    Overtaking = FALSE
    MaxLoss = 0
SPECIFICATION Spec
INVARIANT NoChunkDiscarded
CHECK_DEADLOCK FALSE
