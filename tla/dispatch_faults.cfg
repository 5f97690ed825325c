\* Crashes, lost checkpoints and failed saves; appends succeed.
SPECIFICATION FairSpec
CONSTANTS
    a1 = a1
    a2 = a2
    s1 = s1
    s2 = s2
    s3 = s3
    Agents = {a1, a2}
    Seeds = {s1, s2, s3}
    SeedsOf <- TwoAndOne
    Outcome <- Outcomes
    IdleTicks = TRUE
    Faults = {"crash", "load", "save"}
    MaxFaults = 2
INVARIANT TypeOK
INVARIANT LogIsCausal
INVARIANT CheckpointIsPrefix
INVARIANT AppendedBeforeSaved
INVARIANT DispatchInv
PROPERTY Settles
