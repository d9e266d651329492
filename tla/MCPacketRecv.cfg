CONSTANTS
    LenPkgHeader = 8
    LenMsgHeader = 16
    DataBufSize = 20
    MaxPkgLen = 12
    FloodEnable = TRUE
    FloodKickCount = 2
    Lengths <- AllLengths
    MaxPackets = 4
SPECIFICATION Spec
INVARIANTS
    RecvInBounds
    PacketsWhole
    KickJustified
CHECK_DEADLOCK FALSE
