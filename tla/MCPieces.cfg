CONSTANTS
    t1 = t1
    t2 = t2
    Torrents <- MCTorrents
    TotalPieces <- MCTotalPieces
    Word = 5
    ByteBits = 2
    MaxCommands = 6
SPECIFICATION Spec
INVARIANTS
    TypeOK
    BitsAreAsked
    QueueIsAsked
    WantedSeen
CHECK_DEADLOCK FALSE
