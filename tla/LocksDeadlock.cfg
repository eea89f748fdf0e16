CONSTANTS
    Thread = {t1}
    Impatient = {}
    Party = {p1}
    Resetters = {}
    Threshold = 2
    ResetThreshold = 2
    MaxGen = 0
    Leases = {l1, l2}
    Refillers = {l1}
    Amounts = {1}
    Capacity = 2
    MaxRefill = 0
SPECIFICATION Spec
INVARIANT NoCircularWait
CHECK_DEADLOCK FALSE
