SPECIFICATION MachineSpec
CONSTANTS
    Threads = {t1}
    MaxCores = 2
    Interfaces = {eth}
    LinkSpeed = 1
    HasPowerProbe = TRUE
    WindowValues <- MCNarrow
    MinWindow = 1
    MaxWindow = 3
    InitialWindow = 2
    Word = 16
    MaxClock = 4
    Sockets = {0, 1, 2}
    Dump <- MCDump
    Unsupported = {3}
    CacheTtl = 2
    MaxTime = 3
    MaxBytes = 1
    MaxFailures = 2
    Pids = {1, 2}
    Inodes = {1}
    HasPowerCap = TRUE
    MaxStarts = 3
    MaxEnergy = 1
    MaxCalls = 1
    Ifaces = {eth0}
    Speeds = {1, 2}
    Readers = {r1, r2}
    SpeedTtl = 2
    MaxSeconds = 3
    MaxEvents = 2
CONSTRAINT OneMissed
CONSTRAINT Unplugged
CONSTRAINT Narrowed
SYMMETRY ReaderSymmetry
CHECK_DEADLOCK FALSE
INVARIANTS
    HistoryAligned
    WindowRespected
    RatesWithinLinks
    PowerOfItsRefresh
    ReplyComes
    AnswersRecent
    EnumerationTrue
    SocketsCountedOnce
    LinkSpeedTrue
PROPERTIES
    HistoryKeepsNewest
