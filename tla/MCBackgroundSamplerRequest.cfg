SPECIFICATION Spec
CONSTANTS
    Callbacks = {cb1, cb2}
    NoCallback = NoCallback
    Intervals <- MCIntervals
    InitialInterval = 5
    CheckInterval = 2
    MaxElapsed = 1
PROPERTIES
    ImmediateRefresh
