CONSTANTS
    o1 = o1
    o2 = o2
    Orders <- OneOrder
    Lead = 6
    Interval = 2
    Retry = 1
    Timeout = 1
    JoinTime = 1
    SweepAttempts = 2
    RefusedInBody = FALSE
    Stalls = TRUE
SPECIFICATION FairSpec
INVARIANTS
    ProtectionInv
    LeftOrdersAreProtected
PROPERTIES
    NothingPlacedBehindTheSweep
    ShutdownCompletes
CHECK_DEADLOCK FALSE
