SPECIFICATION FairSpec
CONSTANTS
    ann = ann
    bob = bob
    cid = cid
    Nodes = {ann, bob, cid}
    Tubes = {1, 2}
    MaxStreams = 3
    MaxMessages = 2
    QueueSize = 1
    All = All
    Scenarios <- MCScenarios
    Names = {x}
    Unset = Unset
    Off = Off
    Plans <- MCPlans
INVARIANT MessagesInOrder
PROPERTY NamesConverge
PROPERTY ActivityConverges
CHECK_DEADLOCK FALSE
