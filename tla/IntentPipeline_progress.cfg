CONSTANTS
    btc = btc
    eth = eth
    p1 = p1
    p2 = p2
    Symbols <- TwoSymbols
    Covered <- TwoSymbols
    Strategies <- OneProducer
    Owns <- OwnAll
    QueueCapacity = 1
    RequoteLimit = 1
    Exclusive = TRUE
    SweepEnabled = FALSE
    RecordsExpire = FALSE
    RepliesLost = TRUE
    MaxDrains = 2
    MaxOrders = 2
SPECIFICATION FairSpec
INVARIANTS
    GateNeverUnderReports
    OneIntentPerSymbol
PROPERTIES
    NoTargetLost
    NothingWaitsForEver
CHECK_DEADLOCK FALSE
