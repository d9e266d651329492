CONSTANTS
    w1 = w1
    Workers <- OneWorker
    m_worker_connections = 1
    Ports = 1
    TimerEnable = TRUE
    TimeOutKick = FALSE
    FloodEnable = TRUE
    SendBacklog = TRUE
    RecyThread = FALSE
    MaxEvents = 2
    MaxFds = 2
    MaxConns = 7
    MaxClients = 2
    MaxRecy = 3
SPECIFICATION Spec
INVARIANTS
    SocketReachable
    CountNeverHigh
CHECK_DEADLOCK FALSE
