SPECIFICATION SSpec
CONSTANTS
    Processes <- MCProcesses
    Clients <- MCClients
    Home <- MCHome
    Names <- MCNames
    Settings <- MCSettings
    MaxOps = 5
    MaxExits = 1
PROPERTIES
    
    TagsAreRemoved
    ViewConverges
CHECK_DEADLOCK FALSE
