CONSTANTS
    MaxInc = 1
    Total = 3
    kListenerStreamId = 1
    kSendWindow = 2
    kMaxRetries = 1
    Spurious = TRUE
    Duplicates = TRUE
    MediaMode = TRUE
    MaxRestarts = 1
    Overtaking = TRUE
    MaxLoss = 0
SPECIFICATION Spec
INVARIANTS
    Accounted
    FinMeansDone
PROPERTIES
    ImplementsLiveStream
CHECK_DEADLOCK FALSE
