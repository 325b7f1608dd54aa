SPECIFICATION BudgetSpec

CONSTANTS
    Calls = {c1, c2, c3}
    Cap = 5
    Expected = 2
    Usage = {1, 3}
    HasFallback = TRUE
    UsageReported = TRUE
    MaxRedisErrors = 1
    LastDay = 2

INVARIANTS
    BudgetTypeOK
    CounterExact
    CapHolds
    NeverUndercounts

CHECK_DEADLOCK FALSE
