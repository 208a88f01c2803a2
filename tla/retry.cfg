CONSTANTS
    Workers = {w1, w2}
    Calls = {c}
    Tree = tree
    Names = {n}
    Dir = d
    Items = 1
    MaxExec = 2
    MaxTasks = 2
    MaxCrashes = 2
    MaxStolen = 1
    MaxSendFailures = 1
SPECIFICATION FairSpec
CHECK_DEADLOCK FALSE
INVARIANTS RunsBounded AckedIsSettled FailIsGivenUp
PROPERTIES SettledStays BlockedIsReleased CallsSettle
