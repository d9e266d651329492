CONSTANTS
    w1 = w1
    Workers <- NoWorkers
    m_worker_connections = 1
    Ports = 1
    TimerEnable = FALSE
    TimeOutKick = FALSE
    FloodEnable = FALSE
    SendBacklog = FALSE
    RecyThread = TRUE
    MaxEvents = 2
    MaxFds = 2
    MaxConns = 7
    MaxClients = 6
    MaxRecy = 9
SPECIFICATION Spec
INVARIANTS
    PoolBound
    FdIsOwn
    AdmissionLimit
    StaleDetected
    FreeConnsIdle
CHECK_DEADLOCK FALSE
