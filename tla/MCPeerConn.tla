----------------------------- MODULE MCPeerConn -----------------------------
(***************************************************************************)
(* PeerConn on two torrents, one of them registered in upper case (it is   *)
(* no member of MCWireHashes), one peer address and two places in memory   *)
(* for a PeerClient.  The address is a peer of either torrent, so a place  *)
(* can be reused by another peer while the first still points at it.  The  *)
(* run is fair, hence without symmetry; LaunchRequests is met with one     *)
(* torrent and two addresses.                                              *)
(***************************************************************************)
EXTENDS PeerConn, TLC
CONSTANTS lower, upper, unknown, a1, a2, c1, c2
MCTorrents   == {lower, upper}
MCWireHashes == {lower, unknown}
OneTorrent   == {lower}
OneAddr      == {a1}
MCAddrs      == {a1, a2}
MCClients    == {c1, c2}
=============================================================================
