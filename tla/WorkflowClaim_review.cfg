SPECIFICATION Spec
CONSTANTS
    w1 = w1
    w2 = w2
    None = None
    Workers = {w1, w2}
    Sweepers = {w1}
    Intakes <- MCIntakes
    MaxLeft = 2
    MaxClaims = 1
    MaxRequests = 1
    MaxFaults = 1
PROPERTIES OnlyResolved
CHECK_DEADLOCK FALSE
