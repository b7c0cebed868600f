CONSTANTS
    lower = lower
    upper = upper
    unknown = unknown
    a1 = a1
    a2 = a2
    c1 = c1
    c2 = c2
    NULL = NULL
    Torrents <- OneTorrent
    WireHashes <- MCWireHashes
    Addrs <- MCAddrs
    Clients <- MCClients
SPECIFICATION Spec
PROPERTIES
    LaunchRequests
