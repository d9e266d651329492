CONSTANTS
    t1 = t1
    t2 = t2
    t3 = t3
    Threads <- ThreeThreads
    NoThread = NoThread
    MaxMsgs = 3
    StopAllCalled = TRUE
SPECIFICATION FairSpec
INVARIANTS
    WorkConserving
    NoFalseAlarm
    StoppedClean
PROPERTIES
    EveryPacketHandled
    ImplementsJobQueue
CHECK_DEADLOCK FALSE
