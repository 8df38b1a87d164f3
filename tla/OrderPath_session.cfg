CONSTANT Sessions <- AllSessions
SPECIFICATION Spec
INVARIANTS
    LimitsInv
    PlansAreRight
    TheWindowIsExact
    LossesTrip
PROPERTIES
    TrippedOnlyShrinks
    NoPlaceMeetsTheLimit
CHECK_DEADLOCK FALSE
