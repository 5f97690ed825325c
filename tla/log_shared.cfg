\* Two callers race for both event ids; everything may happen to those of e2.
SPECIFICATION Spec
CONSTANTS
    w1 = w1
    w2 = w2
    e1 = e1
    e2 = e2
    Writers = {w1, w2}
    Events = {e1, e2}
    Callers <- AllCallers
    Faults <- Mixed
    MaxAttempts = 2
    MaxEntries = 3
INVARIANT OneEntryPerCaller
INVARIANT AnswersAreSound
PROPERTY FinalIdNotHidden
