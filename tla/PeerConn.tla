------------------------------ MODULE PeerConn ------------------------------
(***************************************************************************)
(* The peers of a node and its connections: PeerMng and Peer               *)
(* (src/src/tbfs_peer_mng.c, tbfs_peer.c) remember who can be dialled,     *)
(* PeerClient (tbfs_peer_client.c) is one connection, dialled by a Peer or *)
(* accepted by PeerServer (tbfs_peer_server.c).                            *)
(*                                                                         *)
(* A PeerClient frees itself, from its own callbacks, and tells nobody: the *)
(* Peer that dialled keeps a pointer to freed memory, which malloc may hand *)
(* out again.  The model therefore keeps addresses: Clients is the memory a *)
(* PeerClient can live at, and peer_client a pointer that may dangle.      *)
(*                                                                         *)
(* libevent.  The buffer events are created with BEV_OPT_DEFER_CALLBACKS:  *)
(* what happens on a socket is recorded (pending) and handed over later,   *)
(* CONNECTED first, then the read callback, then EOF or an error.          *)
(* bufferevent_free drops what is still recorded.  The write callback only *)
(* logs, and has no action.                                                *)
(*                                                                         *)
(* PeerMng's timer (tbfs_peer_mng_on_timer_cb) only sets a flag that       *)
(* nothing else reads, and h_peer_id has no reader: neither has a variable. *)
(***************************************************************************)
EXTENDS PeerClient, Naturals, FiniteSets, Functions

CONSTANTS
    Torrents,   \* keys of TBFSMng's table, as users register them
    Addrs,      \* <address, port> pairs a tracker can answer with
    Clients,    \* addresses a PeerClient can be allocated at
    NULL

ASSUME NullAssumption   == NULL \notin Clients \cup (Torrents \X Addrs)
ASSUME AddrsAssumption  == IsFiniteSet(Addrs)

Peers == Torrents \X Addrs

VARIABLES
    h_torrent_data,  \* the registered torrents
    want,            \* those with bf_pieces_want->set_count # 0
    h_peers,         \* the Peer objects (h_peer_addrs, then h_peers)
    peer_count,      \* PeerMng.peer_count, per torrent
    peer_client,     \* Peer.client, a pointer
    state,           \* PeerClient.state, "Freed" where no object lives
    peer,            \* PeerClient.peer, NULL in an accepted connection
    hs_info_hash,    \* PeerClient.hs_info_hash, "" until it is written
    pending,         \* the client's deferred callbacks
    fd               \* its socket: "none", "dialling", "open" or "shut"

mngVars    == <<h_torrent_data, want, h_peers, peer_count, peer_client>>
clientVars == <<state, peer, hs_info_hash, pending, fd>>
vars       == <<mngVars, clientVars>>

TypeOK ==
    /\ h_torrent_data \in SUBSET Torrents
    /\ want \in SUBSET Torrents
    /\ h_peers \in SUBSET Peers
    /\ peer_count \in [Torrents -> Nat]
    /\ peer_client \in [Peers -> Clients \cup {NULL}]
    /\ state \in [Clients -> Stages \cup {"Freed"}]
    /\ peer \in [Clients -> Peers \cup {NULL}]
    /\ hs_info_hash \in [Clients -> Torrents \cup WireHashes \cup {""}]
    /\ pending \in [Clients -> SUBSET {"connected", "read", "closed"}]
    /\ fd \in [Clients -> {"none", "dialling", "open", "shut"}]

Live == {c \in Clients : state[c] # "Freed"}

-----------------------------------------------------------------------------
Init ==
    /\ h_torrent_data = {}
    /\ want = {}
    /\ h_peers = {}
    /\ peer_count = [t \in Torrents |-> 0]
    /\ peer_client = [p \in Peers |-> NULL]
    /\ state = [c \in Clients |-> "Freed"]
    /\ peer = [c \in Clients |-> NULL]
    /\ hs_info_hash = [c \in Clients |-> ""]
    /\ pending = [c \in Clients |-> {}]
    /\ fd = [c \in Clients |-> "none"]

\* tbfs_cmd_server_on_add_torrent_cb: looks the torrent up, registers it when
\* it is new, and adds a piece to what it wants.
AddTorrent(t) ==
    /\ h_torrent_data' = h_torrent_data \cup {t}
    /\ want' = want \cup {t}
    /\ UNCHANGED <<h_peers, peer_count, peer_client, clientVars>>

\* Fault: peer_count grows with every address listed.
AddPeersRecounted(t, addrs) ==
    /\ h_peers' = h_peers \cup ({t} \X addrs)
    /\ peer_count' = [peer_count EXCEPT ![t] = @ + Cardinality(addrs)]

\* tbfs_peer_mng_peer_add for the addresses of one answer.
AddPeers(t, addrs) ==
    LET listed == {t} \X addrs
    IN  /\ h_peers' = h_peers \cup listed
        /\ peer_count' = [peer_count EXCEPT
                              ![t] = @ + Cardinality(listed \ h_peers)]

\* Fault: peer->client is not looked at.
UndialledOrNot(t) == {p \in h_peers' : p[1] = t}

\* tbfs_peer_on_pieces_request_cb: a peer whose pointer is NULL dials
\* (request_sent is never set).
Undialled(t) == {p \in h_peers' : p[1] = t /\ peer_client[p] = NULL}

\* tbfs_peer_client_create_with_addr and tbfs_peer_client_set_peer for the
\* peers in at, each at its own address.
Dial(at) ==
    LET new == Range(at)
        dialler(c) == CHOOSE p \in DOMAIN at : at[p] = c
    IN  /\ peer_client' = [p \in Peers |-> IF p \in DOMAIN at THEN at[p]
                                           ELSE peer_client[p]]
        /\ state' = [c \in Clients |-> IF c \in new THEN "Connecting"
                                       ELSE state[c]]
        /\ peer' = [c \in Clients |-> IF c \in new THEN dialler(c)
                                      ELSE peer[c]]
        /\ hs_info_hash' = [c \in Clients |-> IF c \in new THEN dialler(c)[1]
                                              ELSE hs_info_hash[c]]
        /\ fd' = [c \in Clients |-> IF c \in new THEN "dialling" ELSE fd[c]]
        /\ UNCHANGED pending

\* tbfs_peer_mng_peers_updated: every undialled peer of a torrent that wants
\* pieces dials, and those whose socket or connect fails stay undialled.
PeersUpdated(t) ==
    \/ /\ t \in want /\ peer_count'[t] # 0
       /\ \E dialled \in SUBSET Undialled(t) :
             \E at \in Injection(dialled, Clients \ Live) : Dial(at)
    \/ /\ ~(t \in want /\ peer_count'[t] # 0)
       /\ UNCHANGED <<peer_client, clientVars>>

\* tbfs_mng_on_torrent_checked_cb with status TRUE.
TrackerAnswers(t, addrs) ==
    /\ t \in h_torrent_data
    /\ AddPeers(t, addrs)
    /\ PeersUpdated(t)
    /\ UNCHANGED <<h_torrent_data, want>>

\* Fault: the stage of a client with a socket is not advanced.
AcceptConnecting(c) ==
    /\ c \notin Live
    /\ state' = [state EXCEPT ![c] = "Connecting"]
    /\ peer' = [peer EXCEPT ![c] = NULL]
    /\ hs_info_hash' = [hs_info_hash EXCEPT ![c] = ""]
    /\ fd' = [fd EXCEPT ![c] = "open"]
    /\ UNCHANGED <<mngVars, pending>>

\* tbfs_peer_server_on_connection_cb; when the buffer event cannot be made the
\* socket is closed and nothing remains.
Accept(c) ==
    /\ c \notin Live
    /\ state' = [state EXCEPT ![c] = "ReadingHandshake"]
    /\ peer' = [peer EXCEPT ![c] = NULL]
    /\ hs_info_hash' = [hs_info_hash EXCEPT ![c] = ""]
    /\ fd' = [fd EXCEPT ![c] = "open"]
    /\ UNCHANGED <<mngVars, pending>>

-----------------------------------------------------------------------------
\* What the network does to the socket of c, and libevent records.
NetConnected(c) ==
    /\ fd[c] = "dialling"
    /\ fd' = [fd EXCEPT ![c] = "open"]
    /\ pending' = [pending EXCEPT ![c] = @ \cup {"connected"}]
    /\ UNCHANGED <<mngVars, state, peer, hs_info_hash>>

NetData(c) ==
    /\ fd[c] = "open"
    /\ pending' = [pending EXCEPT ![c] = @ \cup {"read"}]
    /\ UNCHANGED <<mngVars, state, peer, hs_info_hash, fd>>

\* EOF, a reset, or a connection attempt that fails.
NetClosed(c) ==
    /\ fd[c] \in {"dialling", "open"}
    /\ fd' = [fd EXCEPT ![c] = "shut"]
    /\ pending' = [pending EXCEPT ![c] = @ \cup {"closed"}]
    /\ UNCHANGED <<mngVars, state, peer, hs_info_hash>>

-----------------------------------------------------------------------------
\* Fault: the memory is freed and the buffer event is not.
DestroyBare(c) ==
    /\ state' = [state EXCEPT ![c] = "Freed"]
    /\ peer' = [peer EXCEPT ![c] = NULL]
    /\ hs_info_hash' = [hs_info_hash EXCEPT ![c] = ""]
    /\ UNCHANGED <<pending, fd>>

\* tbfs_peer_client_destroy: bufferevent_free closes the socket and drops the
\* callbacks; no Peer is told.
Destroy(c) ==
    /\ state' = [state EXCEPT ![c] = "Freed"]
    /\ peer' = [peer EXCEPT ![c] = NULL]
    /\ hs_info_hash' = [hs_info_hash EXCEPT ![c] = ""]
    /\ pending' = [pending EXCEPT ![c] = {}]
    /\ fd' = [fd EXCEPT ![c] = "none"]

\* tbfs_peer_client_on_event_cb, BEV_EVENT_CONNECTED: the handshake is written.
OnConnected(c) ==
    /\ "connected" \in pending[c]
    /\ state' = [state EXCEPT ![c] = "ReadingHandshake"]
    /\ pending' = [pending EXCEPT ![c] = @ \ {"connected"}]
    /\ UNCHANGED <<mngVars, peer, hs_info_hash, fd>>

\* tbfs_peer_client_on_read_cb on whatever the peer sent.
OnRead(c) ==
    /\ "read" \in pending[c] /\ "connected" \notin pending[c]
    /\ \E in \in {x \in Contents : Possible(state[c], x)} :
          LET cl == [state |-> state[c], leecher |-> peer[c] # NULL,
                     hs |-> hs_info_hash[c], out |-> <<>>]
              after == ReadCb(cl, in, h_torrent_data)
          IN  \/ /\ after.state = "Freed"
                 /\ Destroy(c)
              \/ /\ after.state # "Freed"
                 /\ state' = [state EXCEPT ![c] = after.state]
                 /\ hs_info_hash' = [hs_info_hash EXCEPT ![c] = after.hs]
                 /\ pending' = [pending EXCEPT ![c] = @ \ {"read"}]
                 /\ UNCHANGED <<peer, fd>>
    /\ UNCHANGED mngVars

\* Fault: a closed connection is logged and kept.
OnClosedIgnored(c) ==
    /\ pending[c] = {"closed"}
    /\ pending' = [pending EXCEPT ![c] = {}]
    /\ UNCHANGED <<mngVars, state, peer, hs_info_hash, fd>>

\* tbfs_peer_client_on_event_cb, BEV_EVENT_EOF or BEV_EVENT_ERROR.
OnClosed(c) ==
    /\ pending[c] = {"closed"}
    /\ Destroy(c)
    /\ UNCHANGED mngVars

Next ==
    \/ \E t \in Torrents : AddTorrent(t)
    \/ \E t \in Torrents, addrs \in SUBSET Addrs : TrackerAnswers(t, addrs)
    \/ \E c \in Clients :
          \/ Accept(c)
          \/ NetConnected(c) \/ NetData(c) \/ NetClosed(c)
          \/ OnConnected(c) \/ OnRead(c) \/ OnClosed(c)

Spec == Init /\ [][Next]_vars

\* libevent runs a callback it recorded.  Nothing is assumed of the network,
\* the tracker or the user.
Fairness ==
    \A c \in Clients :
        WF_vars(OnConnected(c)) /\ WF_vars(OnRead(c)) /\ WF_vars(OnClosed(c))

FairSpec == Spec /\ Fairness

-----------------------------------------------------------------------------
(***************************************************************************)
(* Properties                                                              *)
(***************************************************************************)
\* A live dialled connection is the one its Peer points to, and that Peer is
\* in the table: client->peer is never a stale pointer, and no peer has two
\* connections, although peer->client may dangle and addresses are reused.
BackPointer ==
    \A c \in Live :
        peer[c] # NULL => peer[c] \in h_peers /\ peer_client[peer[c]] = c

\* The torrent of a connection is registered whenever a callback looks it up:
\* on_event_cb (line 554) and the seeder's answer (line 417) pass what
\* tbfs_peer_client_handshake_pkg_create returns to libevent unchecked.
TorrentThere ==
    \A c \in Clients :
        "connected" \in pending[c] \/ state[c] \in Shaken
            => hs_info_hash[c] \in h_torrent_data

\* Nothing can call back into a PeerClient that was freed, even one freed by
\* its own callback while others were recorded.
NothingAfterFree ==
    \A c \in Clients \ Live : pending[c] = {} /\ fd[c] = "none"

\* The read callback never finds a client still connecting: it would drain,
\* unseen, the handshake the peer sent (line 530).
NoHandshakeDrained ==
    \A c \in Clients :
        "read" \in pending[c] /\ "connected" \notin pending[c]
            => state[c] # "Connecting"

\* The count that "info" prints and that decides whether to dial is the number
\* of Peer objects, whatever the tracker repeats.
PeerCountExact ==
    \A t \in Torrents :
        peer_count[t] = Cardinality({p \in h_peers : p[1] = t})

\* A connection goes through its stages in order and never back, and only the
\* side that dialled asks for a piece.
Position == [Connecting |-> 0, ReadingHandshake |-> 1, ReadingPeerID |-> 2,
             Ready |-> 3, Piece |-> 4]

StagesInOrder ==
    [][\A c \in Live \cap Live' :
          /\ Position[state[c]] <= Position[state'[c]]
          /\ state'[c] = "Piece" => peer'[c] # NULL]_vars

\* A PeerClient whose connection ended is freed: the event is handed over
\* however many other callbacks of it are recorded.
ClosedIsFreed == \A c \in Clients : fd[c] = "shut" ~> state[c] = "Freed"

\* The comment on tbfs_peer_mng_peers_updated: "launch "pieces" requests to
\* peers".  After an answer, every peer of the torrent that was dialled before
\* or now has a connection to launch a request on.
LaunchRequests ==
    [][\A t \in Torrents, addrs \in SUBSET Addrs :
          TrackerAnswers(t, addrs) =>
              \A p \in h_peers' :
                  p[1] = t /\ peer_client'[p] # NULL
                      => /\ state'[peer_client'[p]] # "Freed"
                         /\ peer'[peer_client'[p]] = p]_vars
=============================================================================
