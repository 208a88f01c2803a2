CONSTANTS
    w1 = w1  w2 = w2  s1 = s1  s2 = s2
    e = e  c = c  s = s  x = x  y = y  A = A  B = B  C = C
    None = None
    Workers = {w1}
    Results = {e, c, s}
    Kind <- PipeKind
    Input <- PipeInput
    Items = 2
    Copies = 4
    Crashable = {}
    MaxCrashes = 0
    MaxSendFailures = 0
    MaxTimeouts = 0
    Sessions = {s1, s2}
    Names = {A, B, C}
    Commands <- PipeCommands
    Piped = {c}
    MaxCommands = 2
SPECIFICATION DriftSpec
CHECK_DEADLOCK FALSE
INVARIANTS TopicsArePublished NamesArePublished PrintsOneExecution
PROPERTIES ImplementsWorkers
