SPECIFICATION FairSpec
CONSTANTS
    Workers = {w1, w2}
    NoWorker = NoWorker
    Drivers <- MCDrivers
    MaxFailures = 2
    MaxDrops = 1
    MaxLapses = 1
INVARIANTS SubmittedAtMostOnce NoRefundOfUnknownDelivery TerminalMatchesProvider
PROPERTIES EventuallyAtRest
CHECK_DEADLOCK FALSE
