SPECIFICATION Spec
CONSTANTS
    m1 = m1
    m2 = m2
    m3 = m3
    Machine <- MCMachine
    ControlPlanes <- MCTwoControlPlanes
    Deletable <- MCNone
    None = None
    MaxTokens = 2
    MaxRestarts = 0
CHECK_DEADLOCK FALSE
INVARIANT FirstAndOnly
