CONSTANTS
    Sessions <- EverySession
    Inexact = {2}
    BusCapacity = 1
    MaxAge = 1
    MaxLag = 1
    MaxOpen = 4
    MaxBeats = 1
    CounterModulus = 2
SPECIFICATION FairSpec
INVARIANTS
    FeedInv
    BeaconInv
PROPERTIES
    DeathIsNoticed
    RoomMeansCurrent
    MarksServeTheGate
CHECK_DEADLOCK FALSE
