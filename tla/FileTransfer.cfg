SPECIFICATION FairSpec
CONSTANTS
    Scenarios <- FileScenarios
INVARIANTS CompletedMeansDelivered ProgressIsTold
PROPERTIES TransferEnds
CHECK_DEADLOCK FALSE
