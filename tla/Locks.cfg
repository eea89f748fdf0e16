CONSTANTS
    Thread = {t1, t2, t3, t4}
    Impatient = {t1, t2}
    Party = {p1, p2, p3}
    Resetters = {p1, p2}
    Threshold = 3
    ResetThreshold = 2
    MaxGen = 2
    Leases = {l1, l2, l3}
    Refillers = {l1, l2}
    Amounts = {1, 2}
    Capacity = 3
    MaxRefill = 2
SPECIFICATION FairSpec
INVARIANTS MutualExclusion NoLostWakeup CountersExact
INVARIANTS NobodyLeftBehind TripsAtThreshold ReleasedByTrip
INVARIANTS Conserved NeverOverflows NoneForgotten
PROPERTIES WaitersServed LateContextHarmless WaitersReturn
CHECK_DEADLOCK FALSE
