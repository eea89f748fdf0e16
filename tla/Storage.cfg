CONSTANTS
    Key = {k1, k2}
    Value = {v1, v2}
    NoValue = NoValue
    FlushThreshold = 2
    MaxSeq = 5
    SyncEvery = 2
    MaxWrites = 6
    MaxFaultyWrites = 5
    MaxCrashes = 3
    LongEntries = TRUE
    Truncates = TRUE
SPECIFICATION StorageSpec
INVARIANTS NewestMetFirst IndicesIncrease SyncedEntriesSurvive
PROPERTY RefinesMap
CHECK_DEADLOCK FALSE
