SPECIFICATION FairSpec
CONSTANTS
    MaxId = 24
    Window = 8
    MaxInt = 16
    CacheSize = 2
    Start = 21
    Length = 5
    Scenarios <- MCScenarios
INVARIANTS CursorsOrdered GapIsAskedFor NoFault NothingLost NothingStaleIsAskedFor
PROPERTIES DeliversInOrder EverythingIsOutput
CHECK_DEADLOCK FALSE
