SPECIFICATION FairSpec
CONSTANTS
    Callers = {"c1", "c2"}
    Items = 3
    MaxCalls = 3
CHECK_DEADLOCK FALSE
INVARIANTS InOrder
PROPERTIES CallsReturn
