CONSTANTS
    a = a
    b = b
    c = c
    Step <- ChainSteps
    DependsOn <- ChainDependsOn
    Worker = {w1, w2}
    Client = client
    MaxDequeue = 2
    Registered <- ChainSteps
    Fallible = {a}
SPECIFICATION CancelSpec
PROPERTY CancelledNeverFails
CHECK_DEADLOCK FALSE
