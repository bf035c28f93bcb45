SPECIFICATION MCSpec
CONSTANTS
    n1 = n1
    n2 = n2
    n3 = n3
    Nodes <- MCNodes
    Null = Null
    Unused = Unused
    Abonents <- MCAbonents
    Tels <- MCTels
    N = 4
    Junk = Junk
    MaxLines = 3
    PipeSize = 1
    Output = 2
    s1 = s1
    s2 = s2
    k1 = k1
    k2 = k2
    Servers <- MCServers
    Clients <- MCClients
    MaxObject = 2
    t1 = t1
    t2 = t2
    Threads <- MCThreads
    MaxTime = 2
    Listings <- MCListings
    Rows = 2
    MaxDepth = 2
INVARIANTS
    MCTypeOK
    WellLinked
    SuccessMeansAll
    InStep
    CutOffOnlyByFailure
    AnswerNotOlder
    SelectionVisible
PROPERTIES
    ListIsBook
    ArrayIsBook
    PromptReturns
    NobodyLeftOver
CHECK_DEADLOCK FALSE
