CONSTANTS
    t1 = t1
    t2 = t2
    None = None
    Torrents <- MCTorrents
    PieceIDs <- MCPieceIDs
    Fds <- MCFds
    Size = 2
SPECIFICATION Spec
INVARIANTS
    
    FdsReached

    
