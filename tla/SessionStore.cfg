CONSTANTS
    u1 = u1
    d1 = d1
    d2 = d2
    g1 = g1
    p1 = p1
    w1 = w1
    w2 = w2
    Updates = {u1}
    Deletes = {d1, d2}
    Reads = {g1}
    Posts = {p1}
    Sockets = {w1, w2}
    MaxFailures = 1
SPECIFICATION Spec
SYMMETRY HandlerSymmetry
INVARIANTS
    TypeOK
    QuietDeleteIsFinal
    ConnectedHasSocket
    ConnectedSince
    GaugeCoversSockets
CHECK_DEADLOCK FALSE
