CONSTANTS
    Key = {k1}
    Value = {v1}
    NoValue = NoValue
    FlushThreshold = 1
    MaxSeq = 1
    SyncEvery = 2
    MaxWrites = 3
    MaxFaultyWrites = 3
    MaxCrashes = 2
    LongEntries = TRUE
    Truncates = FALSE
SPECIFICATION StorageSpec
INVARIANT LongEntriesSurvive
CHECK_DEADLOCK FALSE
