SPECIFICATION FairSpec

CONSTANTS
    Jobs = {j1, j2}
    Instances = {i1, i2}
    Scores = {1, 2}
    Keys = {k1}
    KeyOf <- WithoutKeys
    NoKey = NoKey
    Malformed = {j2}
    NoJob = NoJob
    NoInstance = NoInstance
    MaxConcurrency = 1
    MaxQueueDepth = 1
    MaxRedisErrors = 0
    MaxOverruns = 0
    Tolerance = 2
    CheckersRun = FALSE
    Cancels = {c1}
    MaxCrashes = 0
    MaxStops = 0
    MaxFaults = 0

INVARIANTS
    QueueBounded
    SlotsExact
    NoLostJob

PROPERTIES
    OutcomeKept
    JobsFinish

CHECK_DEADLOCK FALSE
