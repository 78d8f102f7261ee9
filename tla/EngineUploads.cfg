CONSTANTS
    f1 = f1
    f2 = f2
    j1 = j1
    j2 = j2
    s1 = s1
    s2 = s2
    u1 = u1
    c1 = c1
    c2 = c2
    Effort = 3
    Downloads <- TwoFiles
    Callers <- TwoCallers
    MaxEngines = 2
    Capacity = 1
    MaxOther = 1
    Nobody = Nobody
    Other = Other
    Files <- TwoFiles
    Jobs <- TwoJobs
    Sinks <- TwoSinks
    Users <- OneUser
    NoVal = NoVal
    Widths = {1,3}
    MaxTerminal = 1
    MaxAttempts = 2
    MaxConfigs = 2
    MaxUserOps = 2
SPECIFICATION EngSpec
INVARIANTS OneEngine PermitsAccounted UploadsInOrder
PROPERTIES CompletionsHandled RpcShutdownStops JobsSettle
CHECK_DEADLOCK FALSE
