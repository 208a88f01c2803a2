CONSTANTS
    w1 = w1  w2 = w2  e = e  c = c  d = d  s = s  x = x  y = y
    None = None
    Workers = {w1, w2}
    Results = {x, c, s}
    Kind <- FaultKind
    Input <- FaultInput
    Items = 1
    Copies = 1
    Crashable = {x, c, s}
    MaxCrashes = 1
    MaxSendFailures = 1
    MaxTimeouts = 1
SPECIFICATION Spec
SYMMETRY Symmetry
CHECK_DEADLOCK FALSE
INVARIANTS TypeOK NoTaskLost SingleProducer RestartMeansCrash
