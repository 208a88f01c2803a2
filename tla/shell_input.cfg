CONSTANTS
    MaxLines = 5
    MaxExpired = 2
SPECIFICATION FairSpec
CHECK_DEADLOCK FALSE
INVARIANTS ListenersAreOwned PromptLinesReachTheLoop
PROPERTIES PromptReturns
