\* One caller per event id; attempts time out and abort; two attempts per call.
SPECIFICATION Spec
CONSTANTS
    w1 = w1
    w2 = w2
    e1 = e1
    e2 = e2
    Writers = {w1, w2}
    Events = {e1, e2}
    Callers <- OwnCallers
    Faults <- Mild
    MaxAttempts = 2
    MaxEntries = 4
INVARIANT TypeOK
INVARIANT LogInv
PROPERTY PromiseSpec
