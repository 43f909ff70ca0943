CONSTANTS
    r1 = r1
    r2 = r2
    s1 = s1
    s2 = s2
    v1 = v1
    v2 = v2
    Resumers = {r1}
    Setters = {}
    Verifiers = {}
    Modes <- MCModes
    MaxStops = 2
    MaxRevision = 6
    Faults = {}
    AuthSeesStop = TRUE
SPECIFICATION FairSpec
CHECK_DEADLOCK FALSE
PROPERTIES StopIsCleared
