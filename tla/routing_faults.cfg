CONSTANTS
    r1 = r1
    r2 = r2
    w1 = w1
    w2 = w2
    Requests = {r1}
    Routers = {w1, w2}
    Dedup = TRUE
    Clusters = {TRUE, FALSE}
    Faults = {"transport", "ttl", "crash"}
    MaxFaults = 2
    MaxRoutes = 4
SPECIFICATION FairSpec
INVARIANTS
    TypeOK
    QueuedOncePerRouter
    HitIsQueued
PROPERTY RoutedIsQueued
CHECK_DEADLOCK FALSE
