CONSTANTS
    r1 = r1
    r2 = r2
    scan = scan
    sync = sync
    MaxJobs = 2
    MaxClientJobs = 1
    Kinds <- MCKinds
    Recurring = scan
    Runners = {r1, r2}
    NoRunner = NoRunner
    Registered <- MCRegistered
    MaxAttempts <- MCMaxAttempts
    AttemptLimit = 2
    Delay <- MCDelay
    Interval = 1
    Lease = 1
    Batch = 2
    Faults = {"handler_error", "crash", "db_error"}
    MaxTime = 2
SPECIFICATION Spec
CHECK_DEADLOCK FALSE
INVARIANTS OneWriter ScheduleContinues
PROPERTIES SuccessIsEarned
