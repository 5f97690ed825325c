SPECIFICATION FairSpec
CONSTANTS
    Length = 4
    Human = {2}
    Compensable = {1}
    Tolerated = {1}
    Skippable = {2}
    Faults = {"crash", "expired", "other"}
    MaxFaults = 1
INVARIANTS
    TypeOK
    StepOnce
    InOrder
    UndoneAfterAnswer
    FailureStopsSaga
    NotStalled
PROPERTY SagaEnds
CHECK_DEADLOCK FALSE
