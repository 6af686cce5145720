SPECIFICATION PartsSpec
CONSTANTS
    DefaultTheme = "arctic-fire"
    Fallback = "fallback"
    FontCount = 3
    MinInterval = 100
    MaxInterval = 5000
    DefaultInterval = 1000
    MinHistory = 10
    MaxHistory = 1800
    DefaultHistory = 300
    MinSize = 200
    MaxSize = 16384
    DefaultSize = 720
    FarthestPos = 100000
    IntMax = 200000
    NoPos = NoPos
    Columns = {"user"}
    DefaultColumns = {"user"}
    BuiltInThemes <- MCBuiltIn
    UserThemeDirs <- MCUserDirs
    HandWritten <- MCHandWritten
    RefreshRates = {1000}
    Histories = {300}
    Places = {40}
    WindowSizes = {0}
    NoPrefs = NoPrefs
    Pids = {p1, p2}
    NoPid = NoPid
    Nices <- MCNices
    Actions = {"kill"}
    FrameTimes = {0, 1, 3}
    MaxDelta = 2
    RefreshInterval = 2
    SampleInterval = 2
    ResultTime = 1
    Window = 1
    MaxClock = 4
CONSTRAINT OneThing
SYMMETRY PidSymmetry
INVARIANTS
    RestartKeeps
    ThemeInForce
    SettingsBounded
    HistoryAligned
    ShowsSelection
    SnapshotsFresh
PROPERTIES
    ActsAsAsked
