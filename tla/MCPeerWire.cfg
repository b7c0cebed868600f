CONSTANTS
    t1 = t1
    t2 = t2
    id1 = id1
    id2 = id2
    Torrents <- MCTorrents
    WireHashes <- MCTorrents
    IDs <- MCIDs
SPECIFICATION FairSpec
INVARIANTS
    TypeOK
    SameTorrent
    SelfRefused
    NeverAsked
PROPERTIES
    ReadyOrFreed
CHECK_DEADLOCK FALSE
