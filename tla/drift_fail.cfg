CONSTANTS
    w1 = w1  w2 = w2  s1 = s1  s2 = s2
    e = e  c = c  s = s  x = x  y = y  A = A  B = B  C = C
    None = None
    Workers = {w1, w2}
    Results = {x, y}
    Kind <- FailKind
    Input <- FailInput
    Items = 1
    Copies = 2
    Crashable = {}
    MaxCrashes = 0
    MaxSendFailures = 0
    MaxTimeouts = 0
    Sessions = {s1}
    Names = {A, B}
    Commands <- FailCommands
    Piped = {}
    MaxCommands = 3
SPECIFICATION FairDriftSpec
CHECK_DEADLOCK FALSE
PROPERTIES QueriesEnd FailuresAreMarked
