SPECIFICATION FairSpec
CONSTANTS
    Capacity = 1
    Units = 3
    Scenarios <- MCScenarios
INVARIANTS StreamIntegrity FlowControl
PROPERTIES ClosesTravel
CHECK_DEADLOCK FALSE
