CONSTANTS
    w1 = w1
    Workers <- NoWorkers
    m_worker_connections = 1
    Ports = 1
    TimerEnable = TRUE
    TimeOutKick = TRUE
    FloodEnable = FALSE
    SendBacklog = FALSE
    RecyThread = FALSE
    MaxEvents = 2
    MaxFds = 2
    MaxConns = 7
    MaxClients = 3
    MaxRecy = 9
SPECIFICATION Spec
INVARIANTS
    AdmissionLimit
CHECK_DEADLOCK FALSE
