CONSTANTS
    c1 = c1
    c2 = c2
    Connections = {c1, c2}
    NoConnection = NoConnection
    Requests <- MCRequests
    kBufferSize = 4
    MaxSignals = 2
SPECIFICATION FairSpec
INVARIANTS
    TypeOK
    WholeBody
    Serving
PROPERTIES
    PollsAnswered
    Stops
CHECK_DEADLOCK FALSE
