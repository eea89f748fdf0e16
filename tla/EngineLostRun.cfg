CONSTANTS
    a = a
    b = b
    c = c
    Step <- JoinSteps
    DependsOn <- JoinDependsOn
    Worker = {w1, w2}
    Client = client
    MaxDequeue = 2
    Registered <- JoinSteps
    Fallible = {}
SPECIFICATION PoolSpec
INVARIANT NoLostRun
CHECK_DEADLOCK FALSE
