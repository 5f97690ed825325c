CONSTANTS
    r1 = r1
    r2 = r2
    w1 = w1
    w2 = w2
    Requests = {r1, r2}
    Denied = {}
    Managers = {w1}
    Deployments = {{w1}}
    Idempotency = {TRUE}
    Timing = {TRUE}
    Retries = 1
    MaxConcurrency = 1
    Faults = {"crash"}
    MaxFaults = 1
    MaxSize = 3
    MaxTasks = 2
SPECIFICATION Spec
INVARIANT ProcessedBeforeAck
CHECK_DEADLOCK FALSE
