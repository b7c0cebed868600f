------------------------------ MODULE PeerWire ------------------------------
(***************************************************************************)
(* A conversation of two PeerClients of this program                       *)
(* (src/src/tbfs_peer_client.c): the one that dialled, a leecher, and the  *)
(* one that PeerServer accepted, a seeder.  They are of two nodes, or of   *)
(* one: a tracker lists the asking node among its peers.                   *)
(*                                                                         *)
(* Between them is TCP: bytes in order, cut into segments anywhere.  A     *)
(* callback finds a prefix of what was sent and not yet read, and leaves   *)
(* nothing of it behind (line 530), so an input buffer is empty between    *)
(* two callbacks and needs no variable.                                    *)
(*                                                                         *)
(* Cells.  Messages are sequences of bytes, as the program writes them.    *)
(* The two parts of a handshake are two cells each, the second of which    *)
(* completes it: cutting them elsewhere makes no other difference.  The    *)
(* bitfield has one byte, 0: bf_pieces_have is never set.                  *)
(***************************************************************************)
EXTENDS PeerClient, Integers, SequencesExt

CONSTANTS
    Torrents,   \* info hashes
    IDs         \* values of conf "peer.peer_id"

ASSUME TorrentsAssumption == Torrents \subseteq WireHashes

\* A hash that was read in full is 40 digits (sha1_to_hexstr).
ASSUME HashesAssumption == "short" \notin WireHashes

Ends == {"dialler", "acceptor"}
Other(e) == IF e = "dialler" THEN "acceptor" ELSE "dialler"

VARIABLES
    peer_id,         \* conf "peer.peer_id" of each end's node
    h_torrent_data,  \* the registered torrents of each end's node
    client,          \* each end's PeerClient, as PeerClient.tla describes it
    wire,            \* what was sent to each end and not read
    lost,            \* has the connection been cut?
    received,        \* history: how many cells each end has read
    packet_ends      \* history: after how many a packet sent to it ends

vars == <<peer_id, h_torrent_data, client, wire, lost, received, packet_ends>>

SelfConnected == peer_id["dialler"] = peer_id["acceptor"]

Cells == WireHashes \cup IDs \cup 0..255

TypeOK ==
    /\ peer_id \in [Ends -> IDs]
    /\ h_torrent_data \in [Ends -> SUBSET Torrents]
    /\ \A e \in Ends :
          /\ client[e].state \in Stages \cup {"Freed"}
          /\ client[e].state = "Connecting" => e = "dialler"
          /\ client[e].leecher = (e = "dialler")
          /\ client[e].hs \in WireHashes \cup {"", "short"}
          /\ client[e].out = <<>>
          /\ \A i \in DOMAIN wire[e] : wire[e][i] \in Cells
    /\ lost \in BOOLEAN
    /\ received \in [Ends -> Nat]
    /\ packet_ends \in [Ends -> SUBSET Nat]

-----------------------------------------------------------------------------
\* The packages.
HandshakePkg(e, h) == <<19, h, 45, peer_id[e]>>

Pkg(e, h, kind) ==
    CASE kind = "handshake"  -> HandshakePkg(e, h)
      [] kind = "bitfield"   -> <<0, 0, 0, 2, 5, 0>>
      [] kind = "interested" -> <<0, 0, 0, 1, 2>>
      [] kind = "unchoke"    -> <<0, 0, 0, 1, 1>>
      [] kind = "request"    -> <<0, 0, 0, 13, 6, 0, 0, 0, 0, 0, 0, 0, 0,
                                  0, 0, 15, 160>>

\* The parsers.  Each takes its bytes off the front of the buffer.
Rest(buf, n) == SubSeq(buf, n + 1, Len(buf))

HashIn(buf) == IF Len(buf) < 2 THEN "short" ELSE buf[2]

IDIn(buf, self) ==
    CASE buf = <<>>   -> "none"
      [] Len(buf) = 1 -> "short"
      [] OTHER        -> IF buf[2] = self THEN "self" ELSE "foreign"

MsgIn(buf) ==
    CASE buf = <<>> -> "none"
      [] Len(buf) < 5 \/ SubSeq(buf, 1, 4) = <<0, 0, 0, 0>> -> "other"
      [] OTHER -> CASE buf[5] = 1 -> "unchoke"
                    [] buf[5] = 6 -> IF Len(buf) < 17 THEN "short request"
                                                      ELSE "request"
                    [] OTHER      -> "other"

\* What the stages that apply in this state find in the buffer, in turn.  A
\* stage that does not apply takes nothing.
Parsed(e, buf) ==
    LET stage    == client[e].state
        atID     == IF stage = "ReadingHandshake" THEN Rest(buf, 2) ELSE buf
        id       == IDIn(atID, peer_id[e])
        atMsg    == IF stage = "Ready" THEN buf ELSE Rest(atID, 2)
    IN  [hash |-> HashIn(buf), id |-> id, msg |-> MsgIn(atMsg)]

\* bufferevent_write_buffer for every package in out; what is sent to an end
\* that is gone is lost.
Send(from, h, out, w, ends) ==
    LET to   == Other(from)
        sent == [i \in DOMAIN out |-> Pkg(from, h, out[i])]
        len(k) == Len(FlattenSeq(SubSeq(sent, 1, k)))
        base == received[to] + Len(wire[to])
    IN  IF client[to].state = "Freed"
        THEN wire' = w /\ packet_ends' = ends
        ELSE /\ wire' = [w EXCEPT ![to] = @ \o FlattenSeq(sent)]
             /\ packet_ends' = [ends EXCEPT
                    ![to] = @ \cup {base + len(k) : k \in DOMAIN out}]

-----------------------------------------------------------------------------
\* Fault: the stage of a client with a socket is not advanced.
CreatedConnecting(e, t) ==
    [state   |-> "Connecting",
     leecher |-> e = "dialler",
     hs      |-> IF e = "dialler" THEN t ELSE "",
     out     |-> <<>>]

\* The dialler was created by tbfs_peer_client_create_with_addr for torrent t
\* of its node, the acceptor by PeerServer on a socket.
Created(e, t) ==
    [state   |-> IF e = "dialler" THEN "Connecting" ELSE "ReadingHandshake",
     leecher |-> e = "dialler",
     hs      |-> IF e = "dialler" THEN t ELSE "",
     out     |-> <<>>]

Init ==
    /\ peer_id \in [Ends -> IDs]
    /\ h_torrent_data \in [Ends -> SUBSET Torrents]
    /\ SelfConnected => h_torrent_data["dialler"] = h_torrent_data["acceptor"]
    /\ \E t \in h_torrent_data["dialler"] :
          client = [e \in Ends |-> Created(e, t)]
    /\ wire = [e \in Ends |-> <<>>]
    /\ lost = FALSE
    /\ received = [e \in Ends |-> 0]
    /\ packet_ends = [e \in Ends |-> {0}]

\* A user registers a torrent at one of the nodes, at any time.
AddTorrent(e, t) ==
    /\ t \notin h_torrent_data[e]
    /\ h_torrent_data' =
          [x \in Ends |-> IF x = e \/ SelfConnected
                          THEN h_torrent_data[x] \cup {t}
                          ELSE h_torrent_data[x]]
    /\ UNCHANGED <<peer_id, client, wire, lost, received, packet_ends>>

\* Fault: the handshake is not sent.
OnConnectedSilent ==
    /\ client["dialler"].state = "Connecting" /\ ~lost
    /\ client' = [client EXCEPT !["dialler"].state = "ReadingHandshake"]
    /\ UNCHANGED <<peer_id, h_torrent_data, wire, lost, received, packet_ends>>

\* tbfs_peer_client_on_event_cb, BEV_EVENT_CONNECTED.
OnConnected ==
    /\ client["dialler"].state = "Connecting" /\ ~lost
    /\ client' = [client EXCEPT !["dialler"].state = "ReadingHandshake"]
    /\ Send("dialler", client["dialler"].hs, <<"handshake">>, wire, packet_ends)
    /\ UNCHANGED <<peer_id, h_torrent_data, lost, received>>

\* tbfs_peer_client_on_read_cb on the first n cells that were sent.  What a
\* client that is destroyed still had to write is never written: libevent
\* writes after the callback, and bufferevent_free drops the output buffer.
OnRead(e) ==
    /\ client[e].state \notin {"Connecting", "Freed"}
    /\ \E n \in 1..Len(wire[e]) :
          LET in    == Parsed(e, SubSeq(wire[e], 1, n))
              after == ReadCb(client[e], in, h_torrent_data[e])
              freed == after.state = "Freed"
          IN  /\ client' = [client EXCEPT ![e] = [after EXCEPT !.out = <<>>]]
              /\ Send(e, after.hs, IF freed THEN <<>> ELSE after.out,
                      [wire EXCEPT
                          ![e] = IF freed THEN <<>> ELSE Rest(@, n)],
                      packet_ends)
              /\ received' = [received EXCEPT ![e] = @ + n]
    /\ UNCHANGED <<peer_id, h_torrent_data, lost>>

\* tbfs_peer_client_on_event_cb, BEV_EVENT_EOF once the other end is gone and
\* all it sent was read, or BEV_EVENT_ERROR, at once, when the connection was
\* cut or the other end's socket was closed on unread data.
OnClosed(e) ==
    /\ client[e].state # "Freed"
    /\ lost \/ client[Other(e)].state = "Freed"
    /\ client' = [client EXCEPT ![e] = Destroyed(@)]
    /\ wire' = [wire EXCEPT ![e] = <<>>]
    /\ UNCHANGED <<peer_id, h_torrent_data, lost, received, packet_ends>>

\* The network cuts the connection, for both ends.
Lose ==
    /\ ~lost
    /\ lost' = TRUE
    /\ UNCHANGED <<peer_id, h_torrent_data, client, wire, received, packet_ends>>

Next ==
    \/ OnConnected
    \/ Lose
    \/ \E e \in Ends : \/ OnRead(e)
                       \/ OnClosed(e)
                       \/ \E t \in Torrents : AddTorrent(e, t)

Spec == Init /\ [][Next]_vars

\* TCP delivers what was sent and libevent runs the callbacks; that the
\* connection is cut or a torrent registered is nobody's duty.
Fairness ==
    /\ WF_vars(OnConnected)
    /\ \A e \in Ends : WF_vars(OnRead(e)) /\ WF_vars(OnClosed(e))

FairSpec == Spec /\ Fairness

-----------------------------------------------------------------------------
(***************************************************************************)
(* Properties                                                              *)
(***************************************************************************)
\* Two ends that are both past the handshake talk about one torrent, and both
\* nodes have it, however the handshakes were cut and whenever a torrent was
\* registered.
SameTorrent ==
    (\A e \in Ends : client[e].state \in Shaken)
        => /\ client["dialler"].hs = client["acceptor"].hs
           /\ \A e \in Ends : client[e].hs \in h_torrent_data[e]

\* A node that was given its own address never gets ready to trade with
\* itself: both ends recognise the id (tbfs_peer_client.c:439).
SelfRefused ==
    SelfConnected => \A e \in Ends : client[e].state \notin {"Ready", "Piece"}

\* No piece is ever asked of a node of this program: Interested is answered
\* with nothing (tbfs_peer_client.c:502), Unchoke is only sent in answer to
\* Unchoke (tbfs_peer_client.c:482-501), and no way of cutting the messages
\* makes one be taken for an Unchoke.
NeverAsked == \A e \in Ends : client[e].state # "Piece"

\* The handshake always comes to an end: both ends ready or both freed, and
\* it never stops with one end waiting for the other.
ReadyOrFreed ==
    <>[](\/ \A e \in Ends : client[e].state = "Ready"
         \/ \A e \in Ends : client[e].state = "Freed")

\* The comment on the branch the callback always takes: "a new packet
\* received".
NewPacketReceived ==
    [][\A e \in Ends :
          received'[e] # received[e] => received[e] \in packet_ends[e]]_vars
=============================================================================
