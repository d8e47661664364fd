SPECIFICATION FairSpec
CONSTANTS
    c1 = c1
    c2 = c2
    Candidates <- TwoCandidates
    First <- c1
    Ceiling <- TwoCeilings
    LeaseLen = 1
    OrphanAge = 1
    MaxSwitches = 1
    MaxTime = 3
    Faults = {"gateway_crash", "unmarked_close"}
INVARIANTS
    OnlyReceiptsFinishRegistered
    RetiredReceiptsAreSpent
    ProjectionRowMatchesFacts
PROPERTY
    ImplementsOutcome
    EventuallyClosed
    EventuallyResolved
CHECK_DEADLOCK FALSE
