------------------------------- MODULE MCNode -------------------------------
(***************************************************************************)
(* Node on two torrents that share one peer address and one place for a    *)
(* PeerClient.  The question is how the two components interleave; each is *)
(* checked on its own with more peers, connections and longer intervals.   *)
(***************************************************************************)
EXTENDS Node
CONSTANTS t1, t2, unknown, a1, c1
MCTorrents   == {t1, t2}
MCWireHashes == {t1, unknown}
MCAddrs      == {a1}
MCClients    == {c1}
=============================================================================
