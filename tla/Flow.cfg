CONSTANTS
    Producer = {p1, p2}
    Feeder = {p1}
    Taker = {c2}
    Consumer = {c1, c2}
    Impatient = {p1, c1}
    NumLanes = 2
    MaxCapacity = 2
    Quantum = 1
    MaxBoost = 2
    MaxCost = 2
    MaxPriority = 1
    Capacity = 2
    Processor = {s1, s2}
    Solo = {s1}
    Shared = {m1}
    Id = {m1, m2, m3}
    Unhandled = {m3}
    Limit = 2
    MaxRetries = 3
SPECIFICATION FairSpec
INVARIANTS CountAgrees CreditsBounded WakeupsCoverTasks
INVARIANTS SpaceWaitersBlocked PacketsHaveTakers CloseReleases AttemptsCounted GivenUpEarned
PROPERTIES LaneServed Settles
CHECK_DEADLOCK FALSE
