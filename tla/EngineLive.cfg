CONSTANTS
    w1 = w1
    w2 = w2
    client = client
SPECIFICATION Spec
PROPERTIES RunFinishes QueueDrains
CHECK_DEADLOCK FALSE
