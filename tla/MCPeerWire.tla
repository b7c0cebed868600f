----------------------------- MODULE MCPeerWire -----------------------------
(***************************************************************************)
(* PeerWire with two torrents and two peer ids: ends of two nodes or of    *)
(* one, every assignment of torrents to nodes, every way to cut what is    *)
(* sent.                                                                   *)
(***************************************************************************)
EXTENDS PeerWire
CONSTANTS t1, t2, id1, id2
MCTorrents == {t1, t2}
MCIDs      == {id1, id2}
=============================================================================
