SPECIFICATION Spec
CONSTANTS
    c1 = c1
    c2 = c2
    anna = anna
    boris = boris
    Clients <- MCClients
    Server = Server
    Names <- MCNames
    NameOf <- MCNameOf
    ServerName = ServerName
    NoName = NoName
    H = 3
    MaxClients = 2
    Timeout = 1
    MaxHistory = 3
    MaxTexts = 0
INVARIANT FailedIsUnlisted
CHECK_DEADLOCK FALSE
