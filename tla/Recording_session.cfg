SPECIFICATION Spec
CONSTANTS
    Feed <- MixedFeed
    Interval = 2
    MaxPerDrain = 1
    Window = 2
    SignalLogs = {TRUE, FALSE}
    Capacity = 1
    MaxBytes = 4
    MaxEvents = 3
    MaxSignals = 2
    MaxFaults = 1
INVARIANTS
    LogsInv
    ReplayInv
PROPERTIES
    ARecordingEnds
CHECK_DEADLOCK FALSE
