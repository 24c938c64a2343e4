CONSTANTS
    Files <- MCFiles
    kMaxPayloadLength = 5
    Duration = 1
    Clock = 100
    MaxDisorder = 0
    kDefaultRto = 20
    kMinRto = 5
    kMaxRto = 200
    RoundTrips = {10, 100}
    kMinRate = 10
    kMaxRate = 30
    InitialRate = 20
    Second = 5
    kRttWindowSize = 2
    Trend = 1
    kRttTrendThreshold = 10
    PacketSizes = {5, 40}
    Steps = {2, 5}
    MaxEvents = 5
    MaxNow = 9
    kMaxBufferSize = 3
    TargetDepth = 2
    MaxPushes = 4
    MaxTime = 3
    MaxRestarts = 1
SPECIFICATION MCSpec
INVARIANTS
    ArrivalTimes
CHECK_DEADLOCK FALSE
