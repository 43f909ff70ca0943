CONSTANTS
    r1 = r1
    r2 = r2
    s1 = s1
    s2 = s2
    v1 = v1
    v2 = v2
    Resumers = {r1}
    Setters = {}
    Verifiers = {v1}
    Modes <- MCModes
    MaxStops = 2
    MaxRevision = 4
    Faults = {}
    AuthSeesStop = FALSE
SPECIFICATION Spec
CHECK_DEADLOCK FALSE
INVARIANTS OperatorStopHolds
