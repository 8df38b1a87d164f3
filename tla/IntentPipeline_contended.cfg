CONSTANTS
    btc = btc
    eth = eth
    p1 = p1
    p2 = p2
    Symbols <- OneSymbol
    Covered <- OneSymbol
    Strategies <- TwoProducers
    Owns <- OwnAll
    QueueCapacity = 1
    RequoteLimit = 1
    Exclusive = TRUE
    SweepEnabled = TRUE
    RecordsExpire = TRUE
    RepliesLost = FALSE
    MaxDrains = 3
    MaxOrders = 2
SPECIFICATION Spec
SYMMETRY SameProducers
INVARIANTS
    TypeOK
    RestingOrdersAreKnown
    OneLiveOrderPerSymbol
    VenueInv
PROPERTIES
    TargetsMoveForward
    ImplementsSlots
CHECK_DEADLOCK FALSE
