SPECIFICATION FairSpec
CONSTANTS
    w1 = w1
    w2 = w2
    None = None
    Runners = {w1, w2}
    MaxAttempts = 2
    Limit = 2
    MaxDecisions = 2
    MaxEdits = 1
    MaxFaults = 2
INVARIANTS TypeOK
PROPERTIES SupersededStaysSilent DueIsSettled
CHECK_DEADLOCK FALSE
