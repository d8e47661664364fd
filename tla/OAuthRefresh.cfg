SPECIFICATION FairSpec
CONSTANTS
    Workers = {p1}
    Callers = {p2}
    ManualKeys <- OneManualKey
    Drivers = {"kimi", "generic"}
    MaxCalls = 2
    MaxGeneration = 3
    MaxFaults = 2
INVARIANTS TokenSpentOnce
PROPERTIES RefreshReplacesItsOwn StagedResultSurvives ExpiringIsRefreshed
CHECK_DEADLOCK FALSE
