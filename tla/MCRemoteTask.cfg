SPECIFICATION Spec
CONSTANTS
    a = a
    b = b
    c = c
    d = d
    Host <- MCHost
    HostList <- MCHostList
    Deprecated <- MCDeprecated
    PoolSize = 1
    Retry = 2
INVARIANTS
    CleanReturn
PROPERTIES
    ImplementsContract
    ExecuteReturns
CHECK_DEADLOCK FALSE
