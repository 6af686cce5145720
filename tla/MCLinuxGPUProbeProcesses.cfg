SPECIFICATION GpuProbeSpec
CONSTANTS
    NvidiaGpus = {0}
    IntelGpus = {}
    AmdGpus = {}
    GpuPids = {1}
    MaxGpuEvents = 2
CHECK_DEADLOCK FALSE
INVARIANTS
    GpuProcessesListed
