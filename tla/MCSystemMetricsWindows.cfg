SPECIFICATION Spec
CONSTANTS
    MaxClock = 4
    d1 = d1
    g1 = g1
    en = en
    wl = wl
    Total = Total
    Devices = {d1}
    DiskSpeed = 1
    CumulativeDisks = FALSE
    MaxHistorySeconds = 1
    Gpus = {}
    GpuCapacity = 2
    Interfaces = {}
    HasProcessModel = TRUE
    RefreshInterval = 1
    MaxDelta = 2
CONSTRAINT NotForced
INVARIANTS
    DisksAccounted
