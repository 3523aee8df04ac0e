SPECIFICATION Spec
CONSTANTS
    Ids <- Ids3
    MaxAttempts = 1
    MaxJoins = 1
    Scenarios <- JoinScenarios
INVARIANTS NoOtherFault ViewsAgree NobodyWaitsForEver
CHECK_DEADLOCK FALSE
