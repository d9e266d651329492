CONSTANTS
    w1 = w1
    w2 = w2
    c1 = c1
    c2 = c2
    Workers <- TwoWorkers
    Conns <- TwoConns
    Prepared = {c1}
    Main = Main
    Timer = Timer
    Sender = Sender
    Recycler = Recycler
    Nobody = Nobody
    MaxPending = 0
    MaxClients = 2
    MaxPackets = 2
    RecyclerRuns = TRUE
SPECIFICATION FairSpec
INVARIANTS
    NoCircularWait
    RightClient
    BacklogCovered
PROPERTIES
    EveryThreadReturns
CHECK_DEADLOCK FALSE
