CONSTANTS
    r1 = r1
    r2 = r2
    s1 = s1
    s2 = s2
    v1 = v1
    v2 = v2
    Resumers = {}
    Setters = {s1, s2}
    Verifiers = {}
    Modes <- MCModes
    MaxStops = 0
    MaxRevision = 1
    Faults = {}
    AuthSeesStop = TRUE
SPECIFICATION Spec
CHECK_DEADLOCK FALSE
PROPERTIES EscalationIsAuthorized
