CONSTANTS
    w1 = w1
    w2 = w2
    c1 = c1
    c2 = c2
    Workers <- TheWorkers
    Conns <- TheConns
    MaxQueue = 2
    MaxPending = 1
    MaxReplies = 4
    StopCalled = TRUE
SPECIFICATION FairSpec
INVARIANTS
    NoPostLost
    RepliesAccounted
    BacklogExact
PROPERTIES
    EveryReplyReleased
    ShutdownReturns
CHECK_DEADLOCK FALSE
