SPECIFICATION FairSpec
CONSTANTS
    c1 = c1
    c2 = c2
    Clients <- MCClients
    Listen = Listen
    Udp = Udp
    Nobody = Nobody
    L = 2
    SndBuf = 1
    MaxEvents = 2
    MaxAsk = 1
INVARIANTS
    NoDangling
    NoLostEdge
    WholeAnswer
PROPERTIES
    Answered
    EdgesServed
CHECK_DEADLOCK FALSE
