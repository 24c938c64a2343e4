CONSTANTS
    MaxInc = 1
    Total = 4
    kListenerStreamId = 1
    kSendWindow = 2
    kMaxRetries = 4
    Spurious = FALSE
    Duplicates = FALSE
    MediaMode = FALSE
    MaxRestarts = 0
    Overtaking = FALSE
    MaxLoss = 2
SPECIFICATION FairSpec
PROPERTIES
    Terminates
    Completes
CHECK_DEADLOCK FALSE
