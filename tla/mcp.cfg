SPECIFICATION FairSpec
CONSTANTS
    t1 = t1
    t2 = t2
    registry = registry
    Callers <- MCCallers
    MaxPages = 2
    PipeSpace = 9
    OutSpace = 2
    ServerIds <- MCFarIds
    MaxCalls = 2
    MaxOwn = 1
INVARIANTS
    OwnResults
    LockIsOwned
PROPERTIES
    CallsSettle
    StartSettles
CHECK_DEADLOCK FALSE
