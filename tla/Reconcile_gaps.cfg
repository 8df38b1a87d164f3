CONSTANTS
    bid = bid
    other = other
    Orders <- WithAnother
    Foreign <- AnothersOrder
    Sells <- AnothersOrder
    Size <- Sizes
    MaxSeenTrades = 2
    ReplayDepth = 2
    MaxDrops = 1
    MaxEvents = 3
SPECIFICATION FairSpec
INVARIANTS
    AccountInv
    SettledIsTheVenues
PROPERTIES
    LossesAreMadeGoodOrReported
CHECK_DEADLOCK FALSE
