SPECIFICATION FairSpec

CONSTANTS
    Jobs = {j1}
    Instances = {i1}
    Scores = {1}
    Keys = {k1}
    KeyOf <- WithoutKeys
    NoKey = NoKey
    Malformed = {}
    NoJob = NoJob
    NoInstance = NoInstance
    MaxConcurrency = 4
    MaxQueueDepth = 2
    MaxRedisErrors = 3
    MaxOverruns = 0
    Tolerance = 2
    CheckersRun = TRUE
    Cancels = {}
    MaxCrashes = 1
    MaxStops = 1
    MaxFaults = 4

INVARIANTS
    SlotsAccounted

PROPERTIES
    InflightDrains
    DriftCorrected

CHECK_DEADLOCK FALSE
