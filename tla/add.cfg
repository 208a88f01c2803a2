CONSTANTS
    MaxItems = 2
    MaxFaults = 2
SPECIFICATION FairSpec
CHECK_DEADLOCK FALSE
INVARIANTS SumsPairUp LooksLikeOneRun AckedIsWhole
PROPERTIES SumsEnd
