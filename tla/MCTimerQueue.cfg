CONSTANTS
    c1 = c1
    c2 = c2
    Conns <- TheConns
    m_iWaitTime = 1
    Grace = 0
    TimeOutKick = FALSE
    UnsetPTmp <- AsBuilt
    StopCalled = TRUE
    MaxTime = 6
SPECIFICATION FairSpec
INVARIANTS
    CacheExact
    OneEntryEach
    KickedOnlySilent
PROPERTIES
    SilentKickedOrHung
    StopReturns
CHECK_DEADLOCK FALSE
