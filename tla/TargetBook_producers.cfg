CONSTANTS
    Sessions <- AllSessions
    MaxAge = 3
    MaxNetSeq = 4
SPECIFICATION FairSpec
INVARIANTS
    BookInv
PROPERTIES
    AbandonedExposureIsUnwound
