CONSTANTS
    t1 = t1
    t2 = t2
    unknown = unknown
    a1 = a1
    c1 = c1
    NULL = NULL
    Torrents <- MCTorrents
    WireHashes <- MCWireHashes
    Addrs <- MCAddrs
    Clients <- MCClients
    CheckSec = 1
    TorrentCheckSec = 2
SPECIFICATION NodeSpec
INVARIANTS
    FreeingAllMemory
CHECK_DEADLOCK FALSE
