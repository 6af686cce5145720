SPECIFICATION Spec
CONSTANTS
    MinTimeForRate = 1
    MaxSaneRate = 1
    Word = 16
    Threads = {ui, sampler}
    Pids = {p1}
    HasPeakRss = FALSE
    RssValues = {1, 2}
    NetValues = {0, 2}
    WindowValues <- MCWindows
    InitialWindow = 0
    MaxClock = 5
CONSTRAINT Narrowed
SYMMETRY ThreadSymmetry
INVARIANTS
    HistoryAligned
    WindowRespected
    MapsPruned
    NoWrap
    CpuShareBounded
PROPERTIES
    HistoryKeepsNewest
    BaselineOfFirstSight
    PeakNeverDecreases
