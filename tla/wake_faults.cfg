CONSTANTS
    a1 = a1
    a2 = a2
    Agents = {a1, a2}
    Groups <- Cluster
    Filtered = {a2}
    ToolTTLs = FALSE
    Faults = {"load", "read", "save", "cut", "seed", "subscribe", "expire", "crash"}
    MaxFaults = 2
    MaxLag = 1
SPECIFICATION FairSpec
INVARIANTS
    TypeOK
    WakeNotForgotten
PROPERTIES
    SavesInOrder
    ConvergesOrSpins
CHECK_DEADLOCK FALSE
