SPECIFICATION PartsSpec
CONSTANTS
    Callbacks = {cb1, cb2}
    NoCallback = NoCallback
    Intervals <- MCIntervals
    InitialInterval = 5
    CheckInterval = 2
    MaxElapsed = 1
    Values = {v0, v1, v2}
    Default = v0
    Capacity = 4
    Word = 16
    MaxTicks = 3
    Rows <- MCRows
    NoParent = 0
    Terms <- MCTerms
    Lower <- MCLower
    SortColumns <- MCSortColumns
    MaxTreeDepth = 3
    Gauges = {"energy", "charge"}
    Batteries <- MCBatteries
    Design = 2
    MaxPowerEvents = 2
    Kilo = 16
    MaskBits = 12
    FirstYears = {1898, 1998, 2002}
    LeapYears = {1904, 1908, 2000, 2004, 2008, 2012}
    MaxArgument = 4200
CONSTRAINT FewCollapsed
CHECK_DEADLOCK FALSE
INVARIANTS
    LifecycleAgreement
    ReadsAgree
    UsageShown
    TableTrue
    EstimatesTrue
    FormatsTrue
PROPERTIES
    KeepsLast
    KeepsContract
    PromptRefresh
    StopReturns
    RequestServed
