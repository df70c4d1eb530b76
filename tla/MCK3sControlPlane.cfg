SPECIFICATION Spec
CONSTANTS
    MaxMachines = 7
    Workers <- MCWorkers
    Settings <- MCSettings

    
PROPERTIES
    OthersReady
    
    GrowsWithinSurge
    RolloutCompletes
    DeletionCompletes
\* Nothing is left to do when the control plane is gone.
CHECK_DEADLOCK FALSE
