CONSTANTS
    MaxInc = 2
    Total = 4
    kListenerStreamId = 1
    kSendWindow = 2
    kMaxRetries = 1
    Spurious = TRUE
    Duplicates = TRUE
    MediaMode = FALSE
    MaxRestarts = 0
    Overtaking = FALSE
    MaxLoss = 0
SPECIFICATION Spec
INVARIANTS
    TypeOK
    AckSound
    GapRecoverable
    WindowAgreement
    OneSource
    FinMeansDone
PROPERTIES
    ImplementsStream
CHECK_DEADLOCK FALSE
