CONSTANTS
    LenPkgHeader = 8
    LenMsgHeader = 16
    DataBufSize = 20
    MaxPkgLen = 12
    FloodEnable = FALSE
    FloodKickCount = 2
    Lengths <- ValidLengths
    MaxPackets = 1
SPECIFICATION Spec
INVARIANTS
    ClosedForAReason
CHECK_DEADLOCK FALSE
