SPECIFICATION Spec
CONSTANTS
    w1 = w1
    w2 = w2
    None = None
    Workers = {w1, w2}
    Sweepers = {w1}
    Intakes <- MCIntakes
    MaxLeft = 2
    MaxClaims = 2
    MaxRequests = 0
    MaxFaults = 0
INVARIANTS SingleConsumer
CHECK_DEADLOCK FALSE
