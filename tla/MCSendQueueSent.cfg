CONSTANTS
    w1 = w1
    w2 = w2
    c1 = c1
    c2 = c2
    Workers <- TheWorkers
    Conns <- TheConns
    MaxQueue = 2
    MaxPending = 1
    MaxReplies = 2
    StopCalled = FALSE
SPECIFICATION Spec
INVARIANTS
    RepliesSent
CHECK_DEADLOCK FALSE
