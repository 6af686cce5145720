SPECIFICATION Spec
CONSTANTS
    MaxClock = 3
    d1 = d1
    g1 = g1
    en = en
    wl = wl
    Total = Total
    Devices = {d1}
    DiskSpeed = 1
    CumulativeDisks = TRUE
    MaxHistorySeconds = 1
    Gpus = {g1}
    GpuCapacity = 2
    Interfaces = {en, wl}
    HasProcessModel = TRUE
    RefreshInterval = 2
    MaxDelta = 2
CONSTRAINT OneBusy
INVARIANTS
    DisksTrue
    GpusTrue
    PanelTrue
