SPECIFICATION FairSpec
CONSTANTS
    Callers = {c1, c2}
    Reapers = {r1}
    Nobody = Nobody
    AttachTries = 2
    MaxFaults = 2
INVARIANTS QueuedRequestsAreStored RefusalMeansNotQueued
PROPERTIES NothingIsLeftBehind
CHECK_DEADLOCK FALSE
