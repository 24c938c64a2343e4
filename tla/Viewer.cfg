CONSTANTS
    v1 = v1
    Viewers = {v1}
    MaxStreams = 2
    NumFrames = 3
    Keyframes = {0}
    AudioChunks <- MCAudioChunks
    max_frames = 1
    kMaxDecodeGap = 1
    kMaxQueuedFrames = 1
    MaxFaults = 1
    MaxBacklog = 0
SPECIFICATION Spec
INVARIANTS
    TypeOK
    PipelineOrdered
    Referenced
    NeverBlind
    AudioArrives
CHECK_DEADLOCK FALSE
