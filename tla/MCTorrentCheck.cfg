CONSTANTS
    t1 = t1
    t2 = t2
    Torrents <- MCTorrents
    CheckSec = 2
    TorrentCheckSec = 3
SPECIFICATION FairSpec
INVARIANTS
    TypeOK
    OneRequestPerTorrent
PROPERTIES
    RequestSpacing
    CheckedUnlessFailed
    FailureIsFinal
    ImplementsCycle
