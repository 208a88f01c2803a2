CONSTANTS
    Sessions = {s1, s2}
    FileCount = 2
    Eof = eof
    MaxCrashes = 1
    MaxFailures = 1
SPECIFICATION FairSpec
CHECK_DEADLOCK FALSE
INVARIANTS ShownIsOneImport BoundIsWhole
PROPERTIES QueriesEnd
