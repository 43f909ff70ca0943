SPECIFICATION FairSpec
CONSTANTS
    w1 = w1
    w2 = w2
    k1 = k1
    None = None
    Workers = {w1, w2}
    Keys = {k1}
    Decided <- MCDecided
    MaxApprovals = 2
    MaxFaults = 1
INVARIANTS TypeOK OneEffectPerRequest CompletedIsProven
PROPERTIES SettledIsFinal UncertaintyIsSettled
