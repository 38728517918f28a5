SPECIFICATION GoodServerSpec
CONSTANTS
    t1 = t1
    t2 = t2
    registry = registry
    Callers <- MCCallers
    MaxPages = 2
    PipeSpace = 1
    OutSpace = 2
    ServerIds <- MCFarIds
    MaxCalls = 1
    MaxOwn = 2
PROPERTIES
    CallsSettle
CHECK_DEADLOCK FALSE
