SPECIFICATION Spec

CONSTANTS
    Jobs = {j1, j2}
    Instances = {i1, i2}
    Scores = {1}
    Keys = {k1}
    KeyOf <- WithoutKeys
    NoKey = NoKey
    Malformed = {}
    NoJob = NoJob
    NoInstance = NoInstance
    MaxConcurrency = 1
    MaxQueueDepth = 2
    MaxRedisErrors = 1
    MaxOverruns = 1
    Tolerance = 2
    CheckersRun = FALSE
    Cancels = {}
    MaxCrashes = 1
    MaxStops = 0
    MaxFaults = 2

SYMMETRY Symmetry

INVARIANTS
    TypeOK
    AtMostOnce
    SlotsAccounted
    ConcurrencyBound
    OverbookingBounded

PROPERTIES
    ImplementsPool

CHECK_DEADLOCK FALSE
