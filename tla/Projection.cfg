SPECIFICATION FairSpec
CONSTANTS
    w1 = w1
    w2 = w2
    w3 = w3
    Workers = {w1, w2, w3}
    Usages <- MCUsages
INVARIANTS
    AppliedOnce
PROPERTY EventuallyShown
CHECK_DEADLOCK FALSE
