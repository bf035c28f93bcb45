SPECIFICATION FairSpec
CONSTANTS
    w1 = w1
    w2 = w2
    c1 = c1
    c2 = c2
    c3 = c3
    Workers <- MCWorkers
    Conns <- MCOneConn
    Cap = 2
    Main = Main
    NoThread = NoThread
    Pill = Pill
    NoTask = NoTask
PROPERTY CtrlCKillsThreads
