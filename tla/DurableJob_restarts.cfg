CONSTANTS
    r1 = r1
    r2 = r2
    scan = scan
    sync = sync
    MaxJobs = 2
    MaxClientJobs = 0
    Kinds <- MCKinds
    Recurring = scan
    Runners = {r1, r2}
    NoRunner = NoRunner
    Registered <- MCRegisteredAll
    MaxAttempts <- MCMaxAttempts
    AttemptLimit = 2
    Delay <- MCDelay
    Interval = 1
    Lease = 1
    Batch = 1
    Faults = {"crash", "enqueue_error", "panic", "shutdown"}
    MaxTime = 2
SPECIFICATION FairSpec
CHECK_DEADLOCK FALSE
INVARIANTS TypeOK AttemptsBounded
PROPERTIES DueJobIsClaimed ExpiredLeaseIsRecovered
