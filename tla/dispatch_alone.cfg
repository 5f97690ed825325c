\* One agent, nothing shared; appends fail and the process crashes.
SPECIFICATION FairSpec
CONSTANTS
    a1 = a1
    a2 = a2
    s1 = s1
    s2 = s2
    s3 = s3
    Agents = {a1}
    Seeds = {s1, s2, s3}
    SeedsOf <- AllToOne
    Outcome <- Outcomes
    IdleTicks = FALSE
    Faults = {"append", "crash"}
    MaxFaults = 2
INVARIANT CursorFollowsRun
