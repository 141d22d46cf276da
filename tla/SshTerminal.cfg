\* One connection, with and without a socket, a poller and two closers.
SPECIFICATION Spec
CONSTANTS
    q1 = q1
    q2 = q2
    r1 = r1
    r2 = r2
    Poller = {q1}
    Closer = {r1, r2}
    Nobody = Nobody
    Sockets = {TRUE, FALSE}
    ReaderFails = TRUE
    MaxChunk = 2
CHECK_DEADLOCK FALSE
INVARIANTS
    TypeOK
    ToldMeansClosed
    GoneMeansDisconnected
    PathInv
PROPERTIES
    CloseEndsThreads
    LockIsFreed
    ImplementsPipe
    OutputArrives
