CONSTANTS
    s1 = s1
    s2 = s2
    Streams = {s1, s2}
    NoStream = NoStream
    NalCount = 2
    AudioChunks = 1
    max_frames = 1
SPECIFICATION FairSpec
INVARIANTS
    TypeOK
    StartNotLost
    FreshCapture
    AudioMatches
    HandedOnce
PROPERTIES
    Answered
    Started
CHECK_DEADLOCK FALSE
