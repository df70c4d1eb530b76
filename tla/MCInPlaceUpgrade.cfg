SPECIFICATION Spec
CONSTANTS
    c1 = c1
    c2 = c2
    w1 = w1
    CP <- MCControlPlanes
    Workers <- MCWorkers
    NoDrain <- MCControlPlanes
    NamedLikeMachine <- MCNone
    CanDelete = FALSE
    MaxFaults = 1
INVARIANTS
    OnlyFirstApplies
PROPERTIES
    UpgradesInOrder
    UpgradeCompletes
