CONSTANTS
    Conf <- ThreeWorkers
    MaxWorkers = 4
SPECIFICATION FairSpec
INVARIANTS
    NoForgottenZombie
    ForksUninterrupted
    StatusTrue
PROPERTIES
    EveryWorkerReaped
CHECK_DEADLOCK FALSE
