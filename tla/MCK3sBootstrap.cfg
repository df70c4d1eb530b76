SPECIFICATION Spec
CONSTANTS
    m1 = m1
    m2 = m2
    m3 = m3
    Machine <- MCMachine
    ControlPlanes <- MCTwoControlPlanes
    Deletable <- MCOne
    None = None
    MaxTokens = 2
    MaxRestarts = 1
CHECK_DEADLOCK FALSE
INVARIANTS
    FirstAndOnlyWhileUndisturbed
    TokenIsTheFirstNodes
    JoinAfterInit
