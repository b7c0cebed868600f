----------------------------- MODULE PeerClient -----------------------------
(***************************************************************************)
(* What one run of tbfs_peer_client_on_read_cb does                        *)
(* (src/src/tbfs_peer_client.c), as operators on a client                  *)
(*     [state, leecher, hs, out]                                           *)
(* where leecher is client->peer # NULL, hs is hs_info_hash and out is     *)
(* what the callback appended to the output buffer.  PeerConn uses them    *)
(* for the life of the PeerClient objects, PeerWire for the conversation   *)
(* of two nodes.                                                           *)
(*                                                                         *)
(* The callback falls through the stages of the handshake as long as the   *)
(* input buffer holds bytes, looks at one message, and then drains what is *)
(* left (line 530): a call is described by what its parsers make of the    *)
(* buffer, a record of Contents.                                           *)
(***************************************************************************)
EXTENDS Sequences

CONSTANT WireHashes     \* info hashes as sha1_to_hexstr writes them

\* PeerClientState.  A PeerClient that was destroyed is "Freed".
Stages == {"Connecting", "ReadingHandshake", "ReadingPeerID", "Ready", "Piece"}

\* The stages in which hs_info_hash was looked up and found.
Shaken == {"ReadingPeerID", "Ready", "Piece"}

\* hash: the result of handshake_parse, "short" when it runs out of bytes.
\* id:   the result of handshake_peerid_parse; "none" when no byte is left.
\* msg:  the message, "none" when no byte is left.  "other" stands for all
\*       the kinds the callback ignores: Choke, Interested, KeepAlive, unknown
\*       types and PMT_Error (less than a length and a type).
Contents ==
    [ hash : WireHashes \cup {"short"},
      id   : {"none", "short", "self", "foreign"},
      msg  : {"none", "unchoke", "request", "short request", "other"} ]

\* The callback runs with at least one byte in the buffer, and the first
\* parser to find none is not called.
Possible(state, in) ==
    /\ state = "ReadingHandshake" /\ in.id = "none" => in.msg = "none"
    /\ state = "ReadingPeerID" => in.id # "none"
    /\ state = "Ready" => in.msg # "none"

Destroyed(cl) == [cl EXCEPT !.state = "Freed"]

\* Fault: the table of torrents is not consulted.
HandshakeStageUnchecked(cl, in, known) ==
    IF cl.state # "ReadingHandshake" THEN cl
    ELSE [cl EXCEPT !.state = "ReadingPeerID",
                    !.hs    = in.hash,
                    !.out   = IF cl.leecher THEN @ ELSE Append(@, "handshake")]

\* Lines 393-424.  known is TBFSMng's table of torrents; a seeder answers
\* with its own handshake.
HandshakeStage(cl, in, known) ==
    IF cl.state # "ReadingHandshake" THEN cl
    ELSE IF in.hash \notin known THEN Destroyed(cl)
    ELSE [cl EXCEPT !.state = "ReadingPeerID",
                    !.hs    = in.hash,
                    !.out   = IF cl.leecher THEN @ ELSE Append(@, "handshake")]

\* Fault: the peer's id is not compared with the own one.
PeerIDStageUncompared(cl, in, known) ==
    IF cl.state # "ReadingPeerID" \/ in.id = "none" THEN cl
    ELSE IF in.id = "short" THEN Destroyed(cl)
    ELSE [cl EXCEPT !.state = "Ready",
                    !.out   = Append(@, IF cl.leecher THEN "interested"
                                                      ELSE "bitfield")]

\* Fault: a leecher sends the wrong message, Unchoke.
PeerIDStageUnchoking(cl, in, known) ==
    IF cl.state # "ReadingPeerID" \/ in.id = "none" THEN cl
    ELSE IF in.id # "foreign" THEN Destroyed(cl)
    ELSE [cl EXCEPT !.state = "Ready",
                    !.out   = Append(@, IF cl.leecher THEN "unchoke"
                                                      ELSE "bitfield")]

\* Lines 426-473.  tbfs_peer_client_bitfield_pkg_create looks hs up again and
\* fails when the torrent is gone.
PeerIDStage(cl, in, known) ==
    IF cl.state # "ReadingPeerID" \/ in.id = "none" THEN cl
    ELSE IF in.id # "foreign" \/ (~cl.leecher /\ cl.hs \notin known)
    THEN Destroyed(cl)
    ELSE [cl EXCEPT !.state = "Ready",
                    !.out   = Append(@, IF cl.leecher THEN "interested"
                                                      ELSE "bitfield")]

\* Fault: a seeder that is unchoked asks for a piece too.
MessageStageAlike(cl, in) ==
    IF cl.state # "Ready" \/ in.msg # "unchoke" THEN cl
    ELSE [cl EXCEPT !.state = "Piece", !.out = Append(@, "request")]

\* Lines 475-514.
MessageStage(cl, in) ==
    IF cl.state # "Ready" THEN cl
    ELSE CASE in.msg = "unchoke" /\ cl.leecher ->
                  [cl EXCEPT !.state = "Piece", !.out = Append(@, "request")]
           [] in.msg = "unchoke" /\ ~cl.leecher ->
                  [cl EXCEPT !.out = Append(@, "unchoke")]
           [] in.msg = "short request" -> Destroyed(cl)
           [] OTHER -> cl

\* tbfs_peer_client_on_read_cb.  In Connecting no stage applies, in Piece the
\* data is logged: both only drain the buffer.
ReadCb(cl, in, known) ==
    MessageStage(PeerIDStage(HandshakeStage(cl, in, known), in, known), in)
=============================================================================
