CONSTANTS
    r1 = r1
    r2 = r2
    w1 = w1
    w2 = w2
    Requests = {r1, r2}
    Denied = {r2}
    Managers = {w1, w2}
    Deployments = {{w1}, {w1, w2}}
    Idempotency = {TRUE, FALSE}
    Timing = {TRUE, FALSE}
    Retries = 1
    MaxConcurrency = 1
    Faults = {"crash", "append", "ack"}
    MaxFaults = 1
    MaxSize = 3
    MaxTasks = 2
SPECIFICATION FairSpec
INVARIANTS
    TypeOK
    AckedOrSwapped
    RunOnce
PROPERTY EveryRequestAnswered
CHECK_DEADLOCK FALSE
