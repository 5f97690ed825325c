CONSTANTS
    c1 = c1
    c2 = c2
    warmer = warmer
    Callers = {c1, c2}
    Warmer = warmer
    Faults = {"append", "storage", "read", "latest", "cancel", "restart", "expire"}
    MaxFaults = 1
    MaxEvents = 2
SPECIFICATION FairSpec
INVARIANTS
    TypeOK
    CursorOfFold
PROPERTY CatchesUp
CHECK_DEADLOCK FALSE
