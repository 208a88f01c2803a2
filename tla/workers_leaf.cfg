CONSTANTS
    w1 = w1  w2 = w2  e = e  c = c  d = d  s = s  x = x  y = y
    None = None
    Workers = {w1, w2}
    Results = {e, c, d}
    Kind <- ChainKind
    Input <- ChainInput
    Items = 2
    Copies = 1
    Crashable = {d}
    MaxCrashes = 2
    MaxSendFailures = 0
    MaxTimeouts = 0
SPECIFICATION FairSpec
CHECK_DEADLOCK FALSE
INVARIANTS LooksExecutedOnce
PROPERTIES ImplementsStreams EveryTaskAcked
