CONSTANTS
    a = a
    b = b
    c = c
    Step <- JoinSteps
    DependsOn <- JoinDependsOn
    Worker = {w1, w2}
    Client = client
    MaxDequeue = 2
    Registered <- JoinSteps
    Fallible = {a}
SPECIFICATION PoolSpec
SYMMETRY WorkerSymmetry
INVARIANTS DependenciesRespected RunOutcomeJustified
CHECK_DEADLOCK FALSE
