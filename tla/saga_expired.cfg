SPECIFICATION Spec
CONSTANTS
    Length = 2
    Human = {}
    Compensable = {1}
    Tolerated = {}
    Skippable = {}
    Faults = {"expired"}
    MaxFaults = 1
INVARIANT FailuresHandled
CHECK_DEADLOCK FALSE
