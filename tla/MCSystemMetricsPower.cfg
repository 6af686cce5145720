SPECIFICATION Spec
CONSTANTS
    MaxClock = 5
    d1 = d1
    g1 = g1
    en = en
    wl = wl
    Total = Total
    Devices = {}
    DiskSpeed = 1
    CumulativeDisks = TRUE
    MaxHistorySeconds = 1
    Gpus = {}
    GpuCapacity = 2
    Interfaces = {}
    HasProcessModel = TRUE
    RefreshInterval = 1
    MaxDelta = 2
CONSTRAINT NotForced
INVARIANTS
    PowerChartTimed
