SPECIFICATION Spec

CONSTANTS
    Jobs = {q1, q2}
    Instances = {i1}
    Scores = {1}
    Keys = {k1}
    KeyOf <- SameKey
    NoKey = NoKey
    Malformed = {}
    NoJob = NoJob
    NoInstance = NoInstance
    MaxConcurrency = 2
    MaxQueueDepth = 2
    MaxRedisErrors = 0
    MaxOverruns = 0
    Tolerance = 2
    CheckersRun = FALSE
    Cancels = {}
    MaxCrashes = 0
    MaxStops = 0
    MaxFaults = 0

INVARIANTS
    OneJobPerKey

CHECK_DEADLOCK FALSE
