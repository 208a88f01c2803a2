CONSTANTS
    w1 = w1  w2 = w2  e = e  c = c  d = d  s = s  x = x  y = y
    None = None
    Workers = {w1, w2}
    Results = {e, c}
    Kind <- CatKind
    Input <- CatInput
    Items = 2
    Copies = 1
    Crashable = {e}
    MaxCrashes = 1
    MaxSendFailures = 0
    MaxTimeouts = 0
SPECIFICATION Spec
SYMMETRY Symmetry
CHECK_DEADLOCK FALSE
INVARIANTS ClosedLooksExecutedOnce
