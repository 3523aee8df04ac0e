SPECIFICATION FairSpec
CONSTANTS
    a = a
    b = b
    c = c
    Nodes <- Three
    MaxData = 2
    Scenarios <- FailureScenarios
INVARIANTS RemovedAtTheSameEnd NothingNeededIsCollected
PROPERTIES CausalOrder GoneIsRemoved
CHECK_DEADLOCK FALSE
