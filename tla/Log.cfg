SPECIFICATION LogFairSpec

CONSTANTS
    QueueSize = 2
    MaxEvents = 4
    MaxDiskErrors = 2
    LastDay = 2

INVARIANTS
    LogTypeOK
    NoSilentLoss
    DamageBounded
    InOrder
    FiledByDay
    Flushed

PROPERTIES
    ShutdownCompletes

CHECK_DEADLOCK FALSE
