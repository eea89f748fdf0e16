CONSTANTS
    Key = {k1}
    Value = {v1}
    NoValue = NoValue
    FlushThreshold = 1
    MaxSeq = 1
    SyncEvery = 2
    MaxWrites = 3
    MaxFaultyWrites = 3
    MaxCrashes = 2
    LongEntries = FALSE
    Truncates = FALSE
SPECIFICATION StorageSpec
INVARIANT CrashConsistent
CHECK_DEADLOCK FALSE
