SPECIFICATION ProbeSpec
CONSTANTS
    Pids = {1, 2}
    Inodes = {}
    HasPowerCap = TRUE
    MaxStarts = 2
    MaxEnergy = 3
    MaxCalls = 2
CHECK_DEADLOCK FALSE
PROPERTIES
    EnergyCumulative
