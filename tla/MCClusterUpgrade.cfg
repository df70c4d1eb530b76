SPECIFICATION Spec
CONSTANTS
    c1 = c1
    c2 = c2
    w1 = w1
    CP <- MCTwo
    Workers <- MCWorkers
    Lags <- MCLags
    MaxFaults = 2
INVARIANTS
    PausedWhileDiverged
PROPERTIES
    UpgradeEnds
