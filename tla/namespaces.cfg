CONSTANTS
    Files = {a, b}
    Dirs = {d}
    A = a
    B = b
    ItemsA = 2
    ItemsB = 1
    Copies = 1
    MaxFaults = 2
SPECIFICATION FairSpec
CHECK_DEADLOCK FALSE
INVARIANTS IndexEofMeansFiles FilesUploadedOnce
PROPERTIES FinishedFilesStay BoundFilesArrive NamespaceEnds
