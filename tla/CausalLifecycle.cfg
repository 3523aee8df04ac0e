SPECIFICATION FairSpec
CONSTANTS
    Nodes = {n1, n2}
    Ids = {1, 2}
    Requests = 3
    Byes = 2
    MaxLost = 1
    MaxStarts = 2
    Resettable = {n2}
INVARIANTS UniqueIdentifiers StatesFit
PROPERTIES LeavingEnds
CHECK_DEADLOCK FALSE
