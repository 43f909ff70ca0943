CONSTANTS
    r1 = r1
    r2 = r2
    s1 = s1
    s2 = s2
    v1 = v1
    v2 = v2
    Resumers = {r1}
    Setters = {s1, s2}
    Verifiers = {v1, v2}
    Modes <- MCModes
    MaxStops = 2
    MaxRevision = 4
    Faults = {"write_error", "torn_write", "restart"}
    AuthSeesStop = FALSE
SPECIFICATION Spec
CHECK_DEADLOCK FALSE
SYMMETRY Symmetry
INVARIANTS TypeOK StopHolds
PROPERTIES ClearsTheApprovedStop RaisesAreBounded
