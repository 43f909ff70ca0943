SPECIFICATION FairSpec
CONSTANTS
    w1 = w1
    w2 = w2
    None = None
    Workers = {w1, w2}
    Sweepers = {w1}
    Intakes <- MCIntakes
    MaxLeft = 2
    MaxClaims = 2
    MaxRequests = 1
    MaxFaults = 1
INVARIANTS TypeOK CompletedIsBacked ReviewHoldsItem
PROPERTIES ClaimsEnd
CHECK_DEADLOCK FALSE
