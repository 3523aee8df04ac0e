SPECIFICATION ScriptSpec
CONSTANTS
    a = a
    b = b
    c = c
    d = d
    Nodes <- Four
    MaxData = 1
    Scenarios <- TwoCrash
PROPERTIES CausalOrder
CHECK_DEADLOCK FALSE
