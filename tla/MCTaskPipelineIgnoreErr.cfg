SPECIFICATION Spec
CONSTANTS
    a = a
    b = b
    c = c
    local = local
    Host <- MCHost
    AllHosts <- MCAllHosts
    RoleHosts <- MCAllHosts
    LocalHost = local
    Modules <- MCModules
    MaxRounds = 1
INVARIANT ForceToContinue
CHECK_DEADLOCK FALSE
