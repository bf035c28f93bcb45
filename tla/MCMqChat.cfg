SPECIFICATION FairSpec
CONSTANTS
    c1 = c1
    c2 = c2
    Clients <- MCClients
    H = 2
    MaxClients = 2
    ServerCap = 1
    ClientCap = 1
    MaxTexts = 3
INVARIANTS
    TypeOK
    NothingMissed
    WelcomeEndsHistory
    LeaverInFlight
PROPERTY StuckOnlyOnLeaver
CHECK_DEADLOCK FALSE
