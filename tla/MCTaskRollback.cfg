SPECIFICATION RSpec
CONSTANTS
    NumResults = 4
    Removed <- MCRemoved
    PoolSize = 2
INVARIANTS
    RTypeOK
    RollbackWaitsForAll
PROPERTY
    RollbackEnds
CHECK_DEADLOCK FALSE
