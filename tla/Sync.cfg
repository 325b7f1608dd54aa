SPECIFICATION ApiFairSpec

CONSTANTS
    Jobs = {q1, q2}
    Instances = {i1}
    Scores = {1}
    Keys = {k1}
    KeyOf <- SameKey
    NoKey = NoKey
    Malformed = {}
    NoJob = NoJob
    NoInstance = NoInstance
    MaxConcurrency = 1
    MaxQueueDepth = 1
    MaxRedisErrors = 1
    MaxOverruns = 0
    Tolerance = 2
    CheckersRun = FALSE
    Cancels = {c1}
    MaxCrashes = 1
    MaxStops = 0
    Sync = {q1}
    Readers = {g1}
    MaxFaults = 1

INVARIANTS
    ApiTypeOK
    AnswersAgree
    NoPhantomCompletion
    QueuedIsUntouched
    RetriesDeduplicated
    CancelHonoured

PROPERTIES
    ResultReachesCaller

CHECK_DEADLOCK FALSE
