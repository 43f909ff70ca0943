SPECIFICATION FairSpec
CONSTANTS
    p1 = p1
    hermes = hermes
    odysseus = odysseus
    agent = agent
    other = other
    script = script
    None = None
    Launches = {1, 2}
    Processes = {p1}
    ProcessOf <- MCProcessOf
    Configs = {agent, other, script}
    First = agent
    Runtimes = {hermes, odysseus}
    TypeOf <- MCTypeOf
    Sources = {1, 2}
    MaxProofs = 2
    MaxEvents = 2
INVARIANTS TypeOK RunIsBacked OneTaskRuns ReportIsRecorded
PROPERTIES StopHoldsEffects RegisteredTaskEnds
CHECK_DEADLOCK FALSE
