-------------------------------- MODULE Node --------------------------------
(***************************************************************************)
(* A whole node (src/src/main.c): the announce cycle (TorrentCheck) and    *)
(* the connections (PeerConn) around one table of torrents, until SIGINT.  *)
(*                                                                         *)
(* They share TBFSMng's h_torrent_data.  They meet in two handlers: the    *)
(* command server's add_torrent registers a torrent with the one and wants *)
(* a piece with the other, and the tracker's answer hands the peers to the *)
(* one before it unmarks the torrent in the other.  Every other handler    *)
(* belongs to one of them.                                                 *)
(***************************************************************************)
EXTENDS TorrentCheck

CONSTANTS WireHashes, Addrs, Clients, NULL  \* of PeerConn

VARIABLES
    want, h_peers, peer_count, peer_client,
    state, peer, hs_info_hash, pending, fd,
    exited,     \* main returned from event_base_dispatch
    leaked      \* objects still allocated when it did

checkVars == <<being_checked, torrent_age, tracker_age, ev_timer, in_flight,
               ask_age>>
connVars  == <<want, h_peers, peer_count, peer_client,
               state, peer, hs_info_hash, pending, fd>>
exitVars  == <<exited, leaked>>
nodeVars  == <<h_torrent_data, checkVars, connVars, exitVars>>

\* A step of a node that has not exited, and does not exit in it.
Running == ~exited /\ UNCHANGED exitVars

PC == INSTANCE PeerConn

-----------------------------------------------------------------------------
NodeInit ==
    /\ Init
    /\ PC!Init
    /\ exited = FALSE
    /\ leaked = {}

\* Fault: a known torrent is registered over the one in the table.
AddTorrentAgain(t) ==
    /\ Running
    /\ being_checked' = [being_checked EXCEPT ![t] = FALSE]
    /\ torrent_age' = [torrent_age EXCEPT ![t] = TorrentCheckSec]
    /\ UNCHANGED <<tracker_age, ev_timer, in_flight, ask_age>>
    /\ PC!AddTorrent(t)

\* Fault: a torrent that is new gets no piece.
AddTorrentNoPiece(t) ==
    /\ Running
    /\ Register(t)
    /\ UNCHANGED connVars

\* tbfs_cmd_server_on_add_torrent_cb: lookup, registration of a new torrent,
\* and a piece, in one callback.
AddTorrent(t) ==
    /\ Running
    /\ \/ Register(t)
       \/ t \in h_torrent_data /\ UNCHANGED checkVars
    /\ PC!AddTorrent(t)

\* Fault: the peers of an answer are added whether its request is awaited or
\* was given up.
TorrentCheckedLate(t, addrs) ==
    /\ Running
    /\ being_checked[t]
    /\ PC!TrackerAnswers(t, addrs)
    /\ UNCHANGED checkVars

\* tbfs_mng_on_torrent_checked_cb with status TRUE.
TorrentChecked(t, addrs) ==
    /\ Running
    /\ TrackerAnswers(t)
    /\ PC!TrackerAnswers(t, addrs)

\* The callbacks and events of the announce cycle alone.
CheckStep ==
    /\ Running
    /\ \/ OnTimer
       \/ Tick
       \/ \E t \in Torrents : TrackerFails(t)
    /\ UNCHANGED connVars

\* The callbacks and events of the connections alone.
ConnStep ==
    /\ Running
    /\ \E c \in Clients :
          \/ PC!Accept(c)
          \/ PC!NetConnected(c) \/ PC!NetData(c) \/ PC!NetClosed(c)
          \/ PC!OnConnected(c) \/ PC!OnRead(c) \/ PC!OnClosed(c)
    /\ UNCHANGED checkVars

\* What the node has allocated, and what application_destroy reaches: TBFSMng
\* frees its torrents, a torrent its PeerMng, and that its peers; nothing
\* lists the PeerClients, and evhttp_connection_free drops the requests it
\* still has without the callback that frees their TrackerRequestData.
Reached     == h_torrent_data \cup h_peers
PeerClients == {c \in Clients : state[c] # "Freed"}
Requests    == {<<"TrackerRequestData", t>> :
                           t \in {u \in Torrents : in_flight[u] > 0}}
Allocated   == Reached \cup PeerClients \cup Requests

\* sigint_cb ends the loop and application_destroy runs.  Nothing reads the
\* tables afterwards, so the model leaves them as they were.
Exit ==
    /\ ~exited
    /\ exited' = TRUE
    /\ leaked' = Allocated \ Reached
    /\ UNCHANGED <<h_torrent_data, checkVars, connVars>>

NodeNext ==
    \/ \E t \in Torrents : AddTorrent(t)
    \/ \E t \in Torrents, addrs \in SUBSET Addrs : TorrentChecked(t, addrs)
    \/ CheckStep
    \/ ConnStep
    \/ Exit

NodeSpec == NodeInit /\ [][NodeNext]_nodeVars

-----------------------------------------------------------------------------
(***************************************************************************)
(* Properties                                                              *)
(***************************************************************************)
\* The node is a TorrentCheck: nothing the peers, their connections or the
\* user do disturbs the announce cycle.
AnnouncesUndisturbed == Spec

\* A registered torrent wants a piece and a peer belongs to a registered
\* torrent, so that every answer reaches the point where peers are dialled:
\* the "No pieces wanted" return (tbfs_peer_mng.c:135) is never taken.
RegisteredIsWanted ==
    /\ h_torrent_data \subseteq want
    /\ \A p \in h_peers : p[1] \in h_torrent_data

\* After one failed announce a torrent never gets another peer: the only
\* source of peers is an answer, and nobody asks any more.
PeersOf(t) == {p \in h_peers : p[1] = t}

PeersFinalAfterFailure ==
    [][\A t \in Torrents : Stuck(t) => PeersOf(t)' = PeersOf(t)]_nodeVars

\* The comment on sigint_cb: "terminate application, freeing all used memory".
FreeingAllMemory == exited => leaked = {}
=============================================================================
