SPECIFICATION FairSpec
CONSTANTS
    c1 = c1
    c2 = c2
    Clients <- MCClients
    H = 1
    MaxClients = 2
    ServerCap = 1
    ClientCap = 1
    MaxTexts = 1
PROPERTIES
    LeaveIsGraceful
CHECK_DEADLOCK FALSE
