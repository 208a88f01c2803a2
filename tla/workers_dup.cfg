CONSTANTS
    w1 = w1  w2 = w2  e = e  c = c  d = d  s = s  x = x  y = y
    None = None
    Workers = {w1, w2}
    Results = {e}
    Kind <- SoloKind
    Input <- SoloInput
    Items = 1
    Copies = 2
    Crashable = {e}
    MaxCrashes = 1
    MaxSendFailures = 0
    MaxTimeouts = 0
SPECIFICATION FairSpec
CHECK_DEADLOCK FALSE
PROPERTIES EndsClosed
