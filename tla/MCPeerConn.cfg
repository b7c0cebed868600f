CONSTANTS
    lower = lower
    upper = upper
    unknown = unknown
    a1 = a1
    a2 = a2
    c1 = c1
    c2 = c2
    NULL = NULL
    Torrents <- MCTorrents
    WireHashes <- MCWireHashes
    Addrs <- OneAddr
    Clients <- MCClients
SPECIFICATION FairSpec
INVARIANTS
    TypeOK
    BackPointer
    
    NothingAfterFree
    NoHandshakeDrained
    
PROPERTIES
    StagesInOrder
    ClosedIsFreed
