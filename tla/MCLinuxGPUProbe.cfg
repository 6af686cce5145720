SPECIFICATION GpuProbeSpec
CONSTANTS
    NvidiaGpus = {}
    IntelGpus = {}
    AmdGpus = {0}
    GpuPids = {1}
    MaxGpuEvents = 2
CHECK_DEADLOCK FALSE
INVARIANTS
    CountersAssociated
