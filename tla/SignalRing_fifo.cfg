CONSTANTS
    Capacity = 4
    Modulus = 8
    PythonProducer = FALSE
    Readers = {"rust", "python"}
    MaxBatch = 3
    RestartsRace = FALSE
    MaxRecords = 10
    MaxRestarts = 0
SPECIFICATION Spec
INVARIANTS
    RingInv
PROPERTIES
    ImplementsFifo
CHECK_DEADLOCK FALSE
