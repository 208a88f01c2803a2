CONSTANTS
    w1 = w1  w2 = w2  e = e  c = c  d = d  s = s  x = x  y = y
    None = None
    Workers = {w1, w2}
    Results = {e, s, x, y}
    Kind <- PairsKind
    Input <- PairsInput
    Items = 2
    Copies = 1
    Crashable = {}
    MaxCrashes = 0
    MaxSendFailures = 0
    MaxTimeouts = 0
SPECIFICATION FairSpec
CHECK_DEADLOCK FALSE
INVARIANTS EofMeansAll AckedIsClosed FailedHasErr
PROPERTIES ImplementsStreams TokenPropagates
