CONSTANTS
    Capacity = 1
    Modulus = 16
    PythonProducer = TRUE
    Readers = {"rust"}
    MaxBatch = 1
    RestartsRace = FALSE
    MaxRecords = 4
    MaxRestarts = 1
    FirstSeqs <- FirstSeqsOfLives
    Ttls = {2}
    Ceiling = 1
    MaxPerDrain = 1
    MaxOutbox = 1
    MaxClock = 3
    MaxEmitted = 3
    MaxCoreRestarts = 1
SPECIFICATION FairPathSpec
INVARIANTS
    HandoverInv
    BackpressureKeepsOrder
    ActedTargetsAreFresh
PROPERTIES
    EmittedIsRead
    CountersTellTheTruth
CHECK_DEADLOCK FALSE
