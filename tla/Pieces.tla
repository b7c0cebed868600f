------------------------------- MODULE Pieces -------------------------------
(***************************************************************************)
(* The pieces a node wants: a Bitfield of the Torrent                      *)
(* (src/src/tbfs_torrent.c, tbfs_bitfield.c) and the queue of its PeerMng  *)
(* (tbfs_peer_mng.c), both filled by the command that adds a piece         *)
(* (tbfs_cmd_server.c).  No piece is ever taken off either.                *)
(*                                                                         *)
(* The two keep the same set in different forms: bits of bytes, highest    *)
(* bit first, and a list that is searched before a number is pushed.  The  *)
(* bitfield also has a counter, and that counter, not the bits, decides    *)
(* whether the torrent wants anything (tbfs_peer_mng_peers_updated).       *)
(*                                                                         *)
(* Counters and lengths are guint32: Word is 2^32 in the code, ByteBits 8. *)
(* TotalPieces is what every command about a torrent states; a user who    *)
(* states different totals, or a piece that the torrent does not have, is  *)
(* not modelled.                                                           *)
(***************************************************************************)
EXTENDS Integers, Sequences, FiniteSets

CONSTANTS
    Torrents,
    TotalPieces,    \* the number of pieces of a torrent
    Word,           \* number of values of a guint32
    ByteBits,       \* bits in a byte
    MaxCommands     \* bound on the commands given about one torrent

\* The largest total leaves room for rounding up to whole bytes (line 55).
ASSUME ByteBitsAssumption == ByteBits \in Nat \ {0}
ASSUME WordAssumption     == Word \in Nat /\ Word > ByteBits
ASSUME TotalAssumption    ==
    \A t \in Torrents : TotalPieces[t] \in 1 .. (Word - ByteBits)

PieceIDs(t) == 0 .. TotalPieces[t] - 1

VARIABLES
    h_torrent_data,     \* the registered torrents
    bits,               \* bf_pieces_want->bits: the bits that are set in each byte,
                        \* bit 0 the lowest
    set_count,          \* bf_pieces_want->set_count
    q_pieces_wanted,    \* PeerMng.q_pieces_wanted, its head first
    commands            \* history: the pieces commanded so far, in order

vars == <<h_torrent_data, bits, set_count, q_pieces_wanted, commands>>

\* Fault: whole bytes only.
BytesNeededDown(bit_count) == bit_count \div ByteBits

\* get_bytes_needed.
BytesNeeded(bit_count) == ((bit_count + ByteBits - 1) % Word) \div ByteBits

Bytes(t) == 0 .. BytesNeeded(TotalPieces[t]) - 1

TypeOK ==
    /\ h_torrent_data \in SUBSET Torrents
    /\ \A t \in Torrents :
           /\ bits[t] \in [Bytes(t) -> SUBSET (0 .. ByteBits - 1)]
           /\ set_count[t] \in 0 .. Word - 1
           /\ q_pieces_wanted[t] \in Seq(PieceIDs(t))
           /\ commands[t] \in Seq(PieceIDs(t))

-----------------------------------------------------------------------------
Init ==
    /\ h_torrent_data = {}
    /\ bits = [t \in Torrents |-> [b \in Bytes(t) |-> {}]]
    /\ set_count = [t \in Torrents |-> 0]
    /\ q_pieces_wanted = [t \in Torrents |-> <<>>]
    /\ commands = [t \in Torrents |-> <<>>]

\* Fault: 0x100 >> (bit & 7).
MaskOfShifted(bit) == ByteBits - (bit % ByteBits)

\* The byte of a piece, and the one bit of 0x80 >> (bit & 7).
ByteOf(bit) == bit \div ByteBits
MaskOf(bit) == ByteBits - 1 - (bit % ByteBits)

\* tbfs_bitfield_set_bit on the bits; its set_count++ is in AddPiece.
SetBit(bf, bit) == [bf EXCEPT ![ByteOf(bit)] = @ \cup {MaskOf(bit)}]

\* Fault: the queue is not searched.
PieceAddedUnsearched(q, piece) == <<piece>> \o q

\* tbfs_peer_mng_torrent_piece_added: the head of the queue, unless it is
\* there.
PieceAdded(q, piece) ==
    IF \E i \in DOMAIN q : q[i] = piece THEN q ELSE <<piece>> \o q

\* Fault: the bit of a piece is set and not counted.
AddPieceUncounted(t, piece) ==
    /\ Len(commands[t]) < MaxCommands
    /\ h_torrent_data' = h_torrent_data \cup {t}
    /\ bits' = [bits EXCEPT ![t] = SetBit(@, piece)]
    /\ q_pieces_wanted' = [q_pieces_wanted EXCEPT ![t] = PieceAdded(@, piece)]
    /\ commands' = [commands EXCEPT ![t] = Append(@, piece)]
    /\ UNCHANGED set_count

\* tbfs_cmd_server_on_add_torrent_cb: registers the torrent when it is new and
\* calls tbfs_torrent_add_piece.  A piece may be added again.
AddPiece(t, piece) ==
    /\ Len(commands[t]) < MaxCommands
    /\ h_torrent_data' = h_torrent_data \cup {t}
    /\ bits' = [bits EXCEPT ![t] = SetBit(@, piece)]
    /\ set_count' = [set_count EXCEPT ![t] = (@ + 1) % Word]
    /\ q_pieces_wanted' = [q_pieces_wanted EXCEPT ![t] = PieceAdded(@, piece)]
    /\ commands' = [commands EXCEPT ![t] = Append(@, piece)]

Next == \E t \in Torrents : \E piece \in PieceIDs(t) : AddPiece(t, piece)

Spec == Init /\ [][Next]_vars

\* tbfs_peer_mng_peers_updated returns before it dials: "No pieces wanted".
NoPiecesWanted(t) == set_count[t] = 0

-----------------------------------------------------------------------------
(***************************************************************************)
(* Properties                                                              *)
(***************************************************************************)
Elements(s) == {s[i] : i \in DOMAIN s}

\* The pieces a reader finds in the bits as the peer wire protocol orders
\* them, the highest bit of a byte first.
Read(t) ==
    UNION {{b * ByteBits + (ByteBits - 1 - i) : i \in bits[t][b]} : b \in Bytes(t)}

\* The bitfield holds the pieces that were commanded and no other: each was
\* written inside the bytes allocated, in the bit where it is looked for, and
\* the spare bits of the last byte stay clear.
BitsAreAsked == \A t \in Torrents : Read(t) = Elements(commands[t])

\* The queue holds the same pieces, each once, and of two pieces the one that
\* was first asked for later is nearer to the head.
QueueIsAsked ==
    \A t \in Torrents :
        LET q == q_pieces_wanted[t]
        IN  /\ Elements(q) = Elements(commands[t])
            /\ \A i, j \in DOMAIN q :
                  i < j => \E k \in DOMAIN commands[t] :
                              /\ commands[t][k] = q[j]
                              /\ \A n \in 1 .. k : commands[t][n] # q[i]

\* The counter answers for the bits although it counts commands: until it
\* has gone round, a torrent wants nothing exactly when no bit is set, and
\* that is only before it is registered.
WantedSeen ==
    \A t \in Torrents :
        Len(commands[t]) < Word =>
            /\ NoPiecesWanted(t) <=> Read(t) = {}
            /\ t \in h_torrent_data <=> ~NoPiecesWanted(t)
=============================================================================
