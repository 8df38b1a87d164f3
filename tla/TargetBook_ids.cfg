CONSTANTS
    Sessions <- Joined
    MaxAge = 3
    MaxNetSeq = 4
SPECIFICATION Spec
INVARIANT NettedIdsAreNoProducers
