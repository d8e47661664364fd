SPECIFICATION FairSpec
CONSTANTS
    Requests = {r1}
    Workers = {w1, w2}
    Nobody = Nobody
    Chunks = 2
    ChunkSizes = {1, 2}
    WorstChunk = 3
    MaxFaults = 2
INVARIANTS BudgetIsExact BoundBodiesAreWhole
PROPERTIES SealedBodiesSurvive EverythingIsReleased
CHECK_DEADLOCK FALSE
