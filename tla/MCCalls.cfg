CONSTANTS
    Buffers <- SmallBuffers
    Packets <- SmallPackets
    Files <- SmallFiles
    Names <- SmallNames
    Formats <- SmallFormats
    Rooms = {0, 1, 2, 3, 4, 5, 6, 7, 8, 20}
    Unbounded = 100
    Logs <- SmallLogs
    Levels = {0, 1, 2}
    Messages <- SmallMessages
    ErrLengths = {0, 3, 4, 5}
    NGX_MAX_ERROR_STR = 12
    StderrHead = 2
    CoreHead = 4
    NGX_LOG_STDERR = 0
    STDERR_FILENO = 2
    Arguments <- SmallArguments
    Environments <- SmallEnvironments
    MasterName <- TheMaster
    WorkerName <- TheWorker
    BlankChar = 8
    TitleSize = 10
SPECIFICATION Spec
INVARIANTS
    ChecksumIsRemainder
    ProperAnswered
    ItemsAsWritten
    TextAsAsked
    LinesWhole
    TitleAlone
    EnvironmentKept
CHECK_DEADLOCK FALSE
