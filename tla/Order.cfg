SPECIFICATION OrderSpec

CONSTANTS
    Jobs = {j1, j2, j3}
    Tiers = {1, 3}
    Multiplier = 4
    SeqModulus = 2
    MaxTime = 7

PROPERTIES
    TierFirst
    FifoWithinEpoch

CHECK_DEADLOCK FALSE
