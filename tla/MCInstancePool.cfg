SPECIFICATION Spec
CONSTANTS
    m1 = m1
    m2 = m2
    h1 = h1
    h2 = h2
    Machines <- MCMachines
    Hosts <- MCHosts
    Candidates <- MCCandidates
    Removable <- MCRemovable
    Lags <- MCLags
    MaxFaults = 1
INVARIANTS
    UniqueProviderID
    DirtyHostIsKept
    NotOrphaned
PROPERTIES
    EveryMachineServed
    DeletionCompletes
CHECK_DEADLOCK FALSE
