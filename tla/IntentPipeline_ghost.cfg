CONSTANTS
    btc = btc
    eth = eth
    p1 = p1
    p2 = p2
    Symbols <- OneSymbol
    Covered <- OneSymbol
    Strategies <- OneProducer
    Owns <- OwnAll
    QueueCapacity = 1
    RequoteLimit = 0
    Exclusive = TRUE
    SweepEnabled = FALSE
    RecordsExpire = TRUE
    RepliesLost = FALSE
    MaxDrains = 1
    MaxOrders = 1
SPECIFICATION Spec
INVARIANT NoGhostOrders
CHECK_DEADLOCK FALSE
