CONSTANTS
    c1 = c1
    c2 = c2
    c3 = c3
    c4 = c4
    Calls = {c1, c2, c3, c4}
    FailureThreshold = 2
    MaxProbes = 2
    Faults = {"failed", "cancelled", "unexpected"}
    MaxFaults = 5
SPECIFICATION FairSpec
INVARIANTS
    TypeOK
    ProbesBounded
    SlotsHeldByProbes
PROPERTY Recovers
CHECK_DEADLOCK FALSE
