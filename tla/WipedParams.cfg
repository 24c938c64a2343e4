CONSTANTS
    s1 = s1
    s2 = s2
    Streams = {s1, s2}
    NoStream = NoStream
    NalCount = 2
    AudioChunks = 1
    max_frames = 2
SPECIFICATION Spec
INVARIANT
    ParamsKept
CHECK_DEADLOCK FALSE
