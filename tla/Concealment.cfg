CONSTANTS
    MaxInc = 1
    Total = 3
    kListenerStreamId = 1
    kSendWindow = 2
    kMaxRetries = 3
    Spurious = FALSE
    Duplicates = FALSE
    MediaMode = TRUE
    MaxRestarts = 0
    Overtaking = FALSE
    MaxLoss = 1
SPECIFICATION FairSpec
PROPERTY GivenUpIsConcealed
CHECK_DEADLOCK FALSE
