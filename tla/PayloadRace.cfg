SPECIFICATION Spec

CONSTANTS
    Jobs = {j1}
    Instances = {i1}
    Scores = {1}
    Keys = {k1}
    KeyOf <- WithoutKeys
    NoKey = NoKey
    Malformed = {}
    NoJob = NoJob
    NoInstance = NoInstance
    MaxConcurrency = 2
    MaxQueueDepth = 2
    MaxRedisErrors = 0
    MaxOverruns = 0
    Tolerance = 2
    CheckersRun = FALSE
    Cancels = {}
    MaxCrashes = 0
    MaxStops = 0
    MaxFaults = 0

INVARIANTS
    PayloadForwarded

CHECK_DEADLOCK FALSE
