SPECIFICATION FairSpec
CONSTANTS
    c1 = c1
    c2 = c2
    Candidates <- OneCandidate
    First <- c1
    Ceiling <- OneCeiling
    LeaseLen = 1
    OrphanAge = 1
    MaxSwitches = 1
    MaxTime = 3
    Faults = {"gateway_crash"}
PROPERTY
    LostOwnerIsAnnotated
CHECK_DEADLOCK FALSE
