SPECIFICATION Spec
CONSTANTS
    MaxPods = 2
    Lags <- MCLags
    Deletable = TRUE
    MaxFaults = 2

    
    
PROPERTIES
    
    PlaybookCompletes
    DeletionCompletes
CHECK_DEADLOCK FALSE
