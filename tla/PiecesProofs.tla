---------------------------- MODULE PiecesProofs ----------------------------
(***************************************************************************)
(* Proofs about Pieces, for any word and byte and any number of pieces the *)
(* word has room for.  That the bit of a piece is inside the bytes that    *)
(* were allocated, and is where a reader looks, is arithmetic (ByteInside, *)
(* BitWhereRead); the rest follows from it command by command.             *)
(***************************************************************************)
EXTENDS Pieces, TLAPS

\* set_count is the number of commands, as far as a word can tell, and a
\* torrent is registered by its first command.
Counted ==
    \A t \in Torrents :
        /\ set_count[t] = Len(commands[t]) % Word
        /\ t \in h_torrent_data <=> Len(commands[t]) > 0

Shape ==
    /\ bits = [t \in Torrents |-> bits[t]]
    /\ set_count = [t \in Torrents |-> set_count[t]]
    /\ q_pieces_wanted = [t \in Torrents |-> q_pieces_wanted[t]]
    /\ commands = [t \in Torrents |-> commands[t]]

IInv == TypeOK /\ Shape /\ Counted /\ BitsAreAsked /\ QueueIsAsked

-----------------------------------------------------------------------------
(***************************************************************************)
(* Arithmetic                                                              *)
(***************************************************************************)
LEMMA DivMod ==
    ASSUME NEW a \in Nat, NEW b \in Nat \ {0}
    PROVE  /\ a % b \in 0 .. b - 1 /\ a \div b \in Nat
           /\ a = (a \div b) * b + (a % b)
<1>1. a % b \in 0 .. b - 1 /\ a \div b \in Nat  OBVIOUS
<1>2. a = (a \div b) * b + (a % b)  OBVIOUS
<1> QED  BY <1>1, <1>2

\* Rounding up reaches the byte of every number below n.
LEMMA DivBelow ==
    ASSUME NEW n \in Nat, NEW p \in 0 .. n - 1, NEW b \in Nat \ {0}
    PROVE  p \div b < (n + b - 1) \div b
<1> DEFINE q == p \div b
           m == (n + b - 1) \div b
           r == p % b
           s == (n + b - 1) % b
<1>0. p \in Nat /\ n + b - 1 \in Nat  OBVIOUS
<1>1. p = q * b + r /\ q \in Nat /\ r \in 0 .. b - 1  BY <1>0, DivMod
<1>2. n + b - 1 = m * b + s /\ m \in Nat /\ s \in 0 .. b - 1  BY <1>0, DivMod
<1> HIDE DEF q, m, r, s
<1>3. q * b < m * b  BY <1>1, <1>2
<1>4. q >= m => q * b >= m * b  BY <1>1, <1>2
<1>5. q < m  BY <1>1, <1>2, <1>3, <1>4
<1> QED  BY <1>5 DEF q, m

\* A remainder is the number itself below the divisor.
LEMMA Below ==
    ASSUME NEW a \in Nat, NEW b \in Nat \ {0}, a < b
    PROVE  a % b = a
OBVIOUS

\* Counting on from a remainder.
LEMMA CountOn ==
    ASSUME NEW a \in Nat, NEW b \in Nat \ {0}
    PROVE  ((a % b) + 1) % b = (a + 1) % b
<1> DEFINE q == a \div b
           r == a % b
<1>1. a = q * b + r /\ q \in Nat /\ r \in 0 .. b - 1  BY DivMod
<1> HIDE DEF q, r
<1>2. CASE r = b - 1
  <2>1. a + 1 = (q + 1) * b  BY <1>1, <1>2
  <2>2. (a + 1) % b = 0 /\ (r + 1) % b = 0  BY <1>1, <1>2, <2>1
  <2> QED  BY <2>2 DEF r
<1>3. CASE r # b - 1
  <2>1. a + 1 = q * b + (r + 1) /\ r + 1 \in 0 .. b - 1  BY <1>1, <1>3
  <2>2. (a + 1) % b = r + 1 /\ (r + 1) % b = r + 1  BY <1>1, <2>1
  <2> QED  BY <2>2 DEF r
<1> QED  BY <1>2, <1>3

USE ByteBitsAssumption, WordAssumption, TotalAssumption

\* The byte of a piece was allocated: rounding up does not wrap.
LEMMA ByteInside ==
    ASSUME NEW t \in Torrents, NEW piece \in PieceIDs(t)
    PROVE  ByteOf(piece) \in Bytes(t) /\ MaskOf(piece) \in 0 .. ByteBits - 1
<1> DEFINE n == TotalPieces[t]
<1>1. n \in 1 .. (Word - ByteBits) /\ piece \in 0 .. n - 1  BY DEF PieceIDs
<1>2. (n + ByteBits - 1) % Word = n + ByteBits - 1
  BY <1>1
<1>3. piece \div ByteBits < (n + ByteBits - 1) \div ByteBits  BY <1>1, DivBelow
<1>a. piece \in Nat /\ n + ByteBits - 1 \in Nat  BY <1>1
<1>4. piece % ByteBits \in 0 .. ByteBits - 1 /\ piece \div ByteBits \in Nat
  BY <1>a, DivMod
<1>5. (n + ByteBits - 1) \div ByteBits \in Nat  BY <1>a, DivMod
<1> QED
  BY <1>1, <1>2, <1>3, <1>4, <1>5 DEF ByteOf, MaskOf, Bytes, BytesNeeded

\* The bit of a piece stands for that piece.
LEMMA BitWhereRead ==
    ASSUME NEW piece \in Nat
    PROVE  ByteOf(piece) * ByteBits + (ByteBits - 1 - MaskOf(piece)) = piece
<1>1. piece = (piece \div ByteBits) * ByteBits + (piece % ByteBits)
      /\ piece % ByteBits \in 0 .. ByteBits - 1 /\ piece \div ByteBits \in Nat
  BY DivMod
<1> QED  BY <1>1 DEF ByteOf, MaskOf

-----------------------------------------------------------------------------
(***************************************************************************)
(* One command                                                             *)
(***************************************************************************)
LEMMA InitIInv == Init => IInv
<1> SUFFICES ASSUME Init PROVE IInv  OBVIOUS
<1>1. TypeOK
  <2>1. \A t \in Torrents : bits[t] \in [Bytes(t) -> SUBSET (0 .. ByteBits - 1)]
    BY DEF Init
  <2> QED  BY <2>1 DEF Init, TypeOK
<1>2. Shape  BY DEF Init, Shape
<1>3. Counted  BY DEF Init, Counted
<1>4. BitsAreAsked
  <2> SUFFICES ASSUME NEW t \in Torrents PROVE Read(t) = Elements(commands[t])
    BY DEF BitsAreAsked
  <2>1. Read(t) = {}  BY DEF Init, Read
  <2>2. Elements(commands[t]) = {}  BY DEF Init, Elements
  <2> QED  BY <2>1, <2>2
<1>5. QueueIsAsked  BY DEF Init, QueueIsAsked, Elements
<1> QED  BY <1>1, <1>2, <1>3, <1>4, <1>5 DEF IInv

\* An element more.
LEMMA AppendElements ==
    ASSUME NEW S, NEW s \in Seq(S), NEW e \in S
    PROVE  Elements(Append(s, e)) = Elements(s) \cup {e}
<1>1. Len(Append(s, e)) = Len(s) + 1 /\ DOMAIN Append(s, e) = 1 .. Len(s) + 1
  OBVIOUS
<1>2. \A i \in 1 .. Len(s) : Append(s, e)[i] = s[i]  OBVIOUS
<1>3. Append(s, e)[Len(s) + 1] = e /\ DOMAIN s = 1 .. Len(s) /\ Len(s) \in Nat
  OBVIOUS
<1> QED  BY <1>1, <1>2, <1>3 DEF Elements

\* What the command does to the torrent it is about.
LEMMA ReadAfter ==
    ASSUME IInv, NEW t \in Torrents, NEW piece \in PieceIDs(t), AddPiece(t, piece)
    PROVE  /\ bits'[t] \in [Bytes(t) -> SUBSET (0 .. ByteBits - 1)]
           /\ Read(t)' = Read(t) \cup {piece}
<1> DEFINE B == ByteOf(piece)
           M == MaskOf(piece)
           value(b, i) == b * ByteBits + (ByteBits - 1 - i)
<1>1. B \in Bytes(t) /\ M \in 0 .. ByteBits - 1  BY ByteInside
<1>2. bits[t] \in [Bytes(t) -> SUBSET (0 .. ByteBits - 1)]
  BY DEF IInv, TypeOK
<1>3. bits'[t] = [bits[t] EXCEPT ![B] = @ \cup {M}]
  BY DEF IInv, Shape, AddPiece, SetBit
<1>4. \A b \in Bytes(t) :
          bits'[t][b] = IF b = B THEN bits[t][b] \cup {M} ELSE bits[t][b]
  BY <1>1, <1>2, <1>3
<1>5. bits'[t] \in [Bytes(t) -> SUBSET (0 .. ByteBits - 1)]
  BY <1>1, <1>2, <1>3
<1>6. value(B, M) = piece
  BY BitWhereRead, TotalAssumption DEF PieceIDs
<1> HIDE DEF B, M, value
<1>7. UNION {{value(b, i) : i \in bits'[t][b]} : b \in Bytes(t)}
        = (UNION {{value(b, i) : i \in bits[t][b]} : b \in Bytes(t)}) \cup {piece}
  <2> DEFINE old == UNION {{value(b, i) : i \in bits[t][b]} : b \in Bytes(t)}
             new == UNION {{value(b, i) : i \in bits'[t][b]} : b \in Bytes(t)}
  <2>1. ASSUME NEW x \in new PROVE x \in old \cup {piece}
    <3>1. PICK b \in Bytes(t) : \E i \in bits'[t][b] : x = value(b, i)  OBVIOUS
    <3>2. PICK i \in bits'[t][b] : x = value(b, i)  BY <3>1
    <3>3. i \in bits[t][b] \/ (b = B /\ i = M)  BY <1>4, <3>2
    <3> QED  BY <1>6, <3>2, <3>3
  <2>2. ASSUME NEW x \in old \cup {piece} PROVE x \in new
    <3>1. CASE x = piece
      <4>1. M \in bits'[t][B]  BY <1>1, <1>4
      <4> QED  BY <1>1, <1>6, <3>1, <4>1
    <3>2. CASE x \in old
      <4>1. PICK b \in Bytes(t) : \E i \in bits[t][b] : x = value(b, i)  BY <3>2
      <4>2. bits[t][b] \subseteq bits'[t][b]  BY <1>4
      <4> QED  BY <4>1, <4>2
    <3> QED  BY <3>1, <3>2
  <2> QED  BY <2>1, <2>2
<1> QED  BY <1>5, <1>7 DEF Read, value

\* The queue keeps its order: what is pushed was commanded last, and was never
\* commanded before.
LEMMA QueueAfter ==
    ASSUME IInv, NEW t \in Torrents, NEW piece \in PieceIDs(t), AddPiece(t, piece)
    PROVE  LET q == q_pieces_wanted'[t]
               cs == commands'[t]
           IN  /\ q \in Seq(PieceIDs(t))
               /\ Elements(q) = Elements(cs)
               /\ \A i, j \in DOMAIN q :
                     i < j => \E k \in DOMAIN cs :
                                 cs[k] = q[j] /\ \A n \in 1 .. k : cs[n] # q[i]
<1> DEFINE q == q_pieces_wanted[t]
           cs == commands[t]
           q1 == q_pieces_wanted'[t]
           cs1 == commands'[t]
<1>1. q \in Seq(PieceIDs(t)) /\ cs \in Seq(PieceIDs(t))
  BY DEF IInv, TypeOK
<1>2. /\ Elements(q) = Elements(cs)
      /\ \A i, j \in DOMAIN q :
            i < j => \E k \in DOMAIN cs :
                        cs[k] = q[j] /\ \A n \in 1 .. k : cs[n] # q[i]
  BY DEF IInv, QueueIsAsked
<1>3. cs1 = Append(cs, piece)  BY DEF IInv, Shape, AddPiece
<1>4. q1 = PieceAdded(q, piece)  BY DEF IInv, Shape, AddPiece
<1> HIDE DEF q, cs, q1, cs1
<1>5. Elements(cs1) = Elements(cs) \cup {piece}  BY <1>1, <1>3, AppendElements
<1>6. /\ DOMAIN cs = 1 .. Len(cs) /\ Len(cs) \in Nat
      /\ DOMAIN cs1 = 1 .. Len(cs) + 1
      /\ \A k \in DOMAIN cs : cs1[k] = cs[k]
  BY <1>1, <1>3
<1>7. CASE \E i \in DOMAIN q : q[i] = piece
  <2>1. q1 = q  BY <1>4, <1>7 DEF PieceAdded
  <2>2. piece \in Elements(q)  BY <1>7 DEF Elements
  <2>3. Elements(q1) = Elements(cs1)  BY <1>2, <1>5, <2>1, <2>2
  <2>4. ASSUME NEW i \in DOMAIN q1, NEW j \in DOMAIN q1, i < j
        PROVE  \E k \in DOMAIN cs1 :
                   cs1[k] = q1[j] /\ \A n \in 1 .. k : cs1[n] # q1[i]
    <3>1. PICK k \in DOMAIN cs : cs[k] = q[j] /\ \A n \in 1 .. k : cs[n] # q[i]
      BY <1>2, <2>1, <2>4
    <3>2. \A n \in 1 .. k : n \in DOMAIN cs  BY <1>6
    <3> QED  BY <1>6, <2>1, <3>1, <3>2
  <2> QED  BY <1>1, <2>1, <2>3, <2>4 DEF q1, cs1
<1>8. CASE ~ \E i \in DOMAIN q : q[i] = piece
  <2>1. q1 = <<piece>> \o q  BY <1>4, <1>8 DEF PieceAdded
  <2>2. /\ q1 \in Seq(PieceIDs(t)) /\ Len(q1) = Len(q) + 1
        /\ DOMAIN q = 1 .. Len(q) /\ Len(q) \in Nat
        /\ DOMAIN q1 = 1 .. Len(q) + 1
        /\ q1[1] = piece /\ \A i \in 2 .. Len(q) + 1 : q1[i] = q[i - 1]
    BY <1>1, <2>1
  <2>3. piece \notin Elements(cs)  BY <1>2, <1>8 DEF Elements
  <2>4. Elements(q1) = Elements(q) \cup {piece}
    <3>1. \A i \in DOMAIN q : i + 1 \in DOMAIN q1 /\ q1[i + 1] = q[i]
      BY <2>2
    <3>2. \A i \in DOMAIN q1 : i = 1 \/ (i - 1 \in DOMAIN q /\ q1[i] = q[i - 1])
      BY <2>2
    <3>3. 1 \in DOMAIN q1 /\ q1[1] = piece  BY <2>2
    <3>4. ASSUME NEW x \in Elements(q1) PROVE x \in Elements(q) \cup {piece}
      <4>1. PICK i \in DOMAIN q1 : x = q1[i]  BY DEF Elements
      <4> QED  BY <3>2, <3>3, <4>1 DEF Elements
    <3>5. ASSUME NEW x \in Elements(q) PROVE x \in Elements(q1)
      <4>1. PICK i \in DOMAIN q : x = q[i]  BY DEF Elements
      <4> QED  BY <3>1, <4>1 DEF Elements
    <3>6. piece \in Elements(q1)  BY <3>3 DEF Elements
    <3> QED  BY <3>4, <3>5, <3>6
  <2>5. ASSUME NEW i \in DOMAIN q1, NEW j \in DOMAIN q1, i < j
        PROVE  \E k \in DOMAIN cs1 :
                   cs1[k] = q1[j] /\ \A n \in 1 .. k : cs1[n] # q1[i]
    <3>1. j - 1 \in DOMAIN q /\ q1[j] = q[j - 1]  BY <2>2, <2>5
    <3>2. CASE i = 1
      <4>1. q[j - 1] \in Elements(cs)  BY <1>2, <3>1 DEF Elements
      <4>2. PICK k \in DOMAIN cs : cs[k] = q[j - 1]  BY <4>1 DEF Elements
      <4>3. \A n \in 1 .. k : n \in DOMAIN cs /\ cs[n] # piece
        BY <1>6, <2>3 DEF Elements
      <4> QED  BY <1>6, <2>2, <3>1, <3>2, <4>2, <4>3
    <3>3. CASE i # 1
      <4>1. i - 1 \in DOMAIN q /\ q1[i] = q[i - 1] /\ i - 1 < j - 1
        BY <2>2, <2>5, <3>3
      <4>2. PICK k \in DOMAIN cs :
                cs[k] = q[j - 1] /\ \A n \in 1 .. k : cs[n] # q[i - 1]
        BY <1>2, <3>1, <4>1
      <4>3. \A n \in 1 .. k : n \in DOMAIN cs  BY <1>6
      <4> QED  BY <1>6, <3>1, <4>1, <4>2, <4>3
    <3> QED  BY <3>2, <3>3
  <2> QED  BY <1>2, <1>5, <2>2, <2>4, <2>5 DEF q1, cs1
<1> QED  BY <1>7, <1>8

\* A command for a piece, a repeated one too, keeps the invariant.
LEMMA AddPieceIInv ==
    ASSUME IInv, NEW t \in Torrents, NEW piece \in PieceIDs(t), AddPiece(t, piece)
    PROVE  IInv'
<1>1. \A u \in Torrents \ {t} :
          /\ bits'[u] = bits[u] /\ set_count'[u] = set_count[u]
          /\ q_pieces_wanted'[u] = q_pieces_wanted[u]
          /\ commands'[u] = commands[u]
  BY DEF IInv, Shape, AddPiece
<1>2. Shape'  BY DEF IInv, Shape, AddPiece
<1>3. commands[t] \in Seq(PieceIDs(t)) /\ commands'[t] = Append(commands[t], piece)
  BY DEF IInv, TypeOK, Shape, AddPiece
<1>4. commands'[t] \in Seq(PieceIDs(t)) /\ Len(commands'[t]) = Len(commands[t]) + 1
      /\ Len(commands[t]) \in Nat
  BY <1>3
<1>5. set_count[t] = Len(commands[t]) % Word /\ set_count[t] \in 0 .. Word - 1
      /\ set_count'[t] = (set_count[t] + 1) % Word
  BY DEF IInv, TypeOK, Shape, Counted, AddPiece
<1>6. set_count'[t] = Len(commands'[t]) % Word /\ set_count'[t] \in 0 .. Word - 1
  <2>1. Word \in Nat \ {0}  OBVIOUS
  <2>2. ((Len(commands[t]) % Word) + 1) % Word = (Len(commands[t]) + 1) % Word
    BY <1>4, <2>1, CountOn
  <2>3. Len(commands[t]) + 1 \in Nat  BY <1>4
  <2>4. (Len(commands[t]) + 1) % Word \in 0 .. Word - 1  BY <2>1, <2>3, DivMod
  <2> QED  BY <1>4, <1>5, <2>2, <2>4
<1>7. TypeOK'
  <2>1. h_torrent_data' \in SUBSET Torrents  BY DEF IInv, TypeOK, AddPiece
  <2>2. ASSUME NEW u \in Torrents
        PROVE  /\ bits'[u] \in [Bytes(u) -> SUBSET (0 .. ByteBits - 1)]
               /\ set_count'[u] \in 0 .. Word - 1
               /\ q_pieces_wanted'[u] \in Seq(PieceIDs(u))
               /\ commands'[u] \in Seq(PieceIDs(u))
    <3>1. CASE u = t  BY <1>4, <1>6, <3>1, ReadAfter, QueueAfter
    <3>2. CASE u # t  BY <1>1, <3>2 DEF IInv, TypeOK
    <3> QED  BY <3>1, <3>2
  <2> QED  BY <2>1, <2>2 DEF TypeOK
<1>8. Counted'
  <2>1. ASSUME NEW u \in Torrents
        PROVE  /\ set_count'[u] = Len(commands'[u]) % Word
               /\ u \in h_torrent_data' <=> Len(commands'[u]) > 0
    <3>1. h_torrent_data' = h_torrent_data \cup {t}  BY DEF AddPiece
    <3>2. CASE u = t  BY <1>4, <1>6, <3>1, <3>2
    <3>3. CASE u # t  BY <1>1, <3>1, <3>3 DEF IInv, Counted
    <3> QED  BY <3>2, <3>3
  <2> QED  BY <2>1 DEF Counted
<1>9. BitsAreAsked'
  <2>1. ASSUME NEW u \in Torrents PROVE Read(u)' = Elements(commands'[u])
    <3>1. Read(u) = Elements(commands[u])  BY DEF IInv, BitsAreAsked
    <3>2. CASE u = t
      <4>1. Elements(commands'[t]) = Elements(commands[t]) \cup {piece}
        BY <1>3, AppendElements
      <4> QED  BY <3>1, <3>2, <4>1, ReadAfter
    <3>3. CASE u # t
      <4>1. Read(u)' = Read(u)  BY <1>1, <3>3 DEF Read
      <4> QED  BY <1>1, <3>1, <3>3, <4>1
    <3> QED  BY <3>2, <3>3
  <2> QED  BY <2>1 DEF BitsAreAsked
<1>10. QueueIsAsked'
  <2>1. ASSUME NEW u \in Torrents
        PROVE  /\ Elements(q_pieces_wanted'[u]) = Elements(commands'[u])
               /\ \A i, j \in DOMAIN q_pieces_wanted'[u] :
                     i < j => \E k \in DOMAIN commands'[u] :
                                 /\ commands'[u][k] = q_pieces_wanted'[u][j]
                                 /\ \A n \in 1 .. k :
                                        commands'[u][n] # q_pieces_wanted'[u][i]
    <3>1. CASE u = t  BY <3>1, QueueAfter
    <3>2. CASE u # t  BY <1>1, <3>2 DEF IInv, QueueIsAsked
    <3> QED  BY <3>1, <3>2
  <2> QED  BY <2>1 DEF QueueIsAsked
<1> QED  BY <1>2, <1>7, <1>8, <1>9, <1>10 DEF IInv

\* No step breaks IInv.
LEMMA NextIInv == IInv /\ [Next]_vars => IInv'
<1> SUFFICES ASSUME IInv, [Next]_vars PROVE IInv'  OBVIOUS
<1>1. CASE Next  BY <1>1, AddPieceIInv DEF Next
<1>2. CASE UNCHANGED vars
  <2> USE <1>2 DEF vars, IInv
  <2>1. TypeOK'  BY DEF TypeOK
  <2>2. Shape'  BY DEF Shape
  <2>3. Counted'  BY DEF Counted
  <2>4. BitsAreAsked'  BY DEF BitsAreAsked, Read
  <2>5. QueueIsAsked'  BY DEF QueueIsAsked
  <2> QED  BY <2>1, <2>2, <2>3, <2>4, <2>5
<1> QED  BY <1>1, <1>2

-----------------------------------------------------------------------------
(***************************************************************************)
(* Theorems                                                                *)
(***************************************************************************)
\* All of it together is invariant.
THEOREM Invariant == Spec => []IInv
<1> QED  BY InitIInv, NextIInv, PTL DEF Spec

\* Every byte that is written was allocated and every counter fits its word.
THEOREM TypeCorrect == Spec => []TypeOK
<1>1. IInv => TypeOK  BY DEF IInv
<1> QED  BY Invariant, <1>1, PTL

\* The bitfield of any torrent, of any size the word has room for, holds
\* exactly the pieces commanded (tbfs_bitfield_set_bit).
THEOREM Bits == Spec => []BitsAreAsked
<1>1. IInv => BitsAreAsked  BY DEF IInv
<1> QED  BY Invariant, <1>1, PTL

\* The queue holds the same pieces, once each, newest first
\* (tbfs_peer_mng_torrent_piece_added).
THEOREM Queue == Spec => []QueueIsAsked
<1>1. IInv => QueueIsAsked  BY DEF IInv
<1> QED  BY Invariant, <1>1, PTL

\* "No pieces wanted" (tbfs_peer_mng_peers_updated) is right about any torrent
\* that was given fewer than 2^32 commands.
THEOREM Seen == Spec => []WantedSeen
<1>1. IInv => WantedSeen
  <2> SUFFICES ASSUME IInv, NEW t \in Torrents, Len(commands[t]) < Word
               PROVE  /\ NoPiecesWanted(t) <=> Read(t) = {}
                      /\ t \in h_torrent_data <=> ~NoPiecesWanted(t)
    BY DEF WantedSeen
  <2>1. Len(commands[t]) \in Nat /\ DOMAIN commands[t] = 1 .. Len(commands[t])
    BY DEF IInv, TypeOK
  <2>2. set_count[t] = Len(commands[t])
    <3>1. set_count[t] = Len(commands[t]) % Word  BY DEF IInv, Counted
    <3>2. Word \in Nat \ {0}  OBVIOUS
    <3>3. Len(commands[t]) % Word = Len(commands[t])  BY <2>1, <3>2, Below
    <3> QED  BY <3>1, <3>3
  <2>3. Elements(commands[t]) = {} <=> Len(commands[t]) = 0
    <3>1. Elements(commands[t]) = {} <=> DOMAIN commands[t] = {}
      BY DEF Elements
    <3>2. 1 .. Len(commands[t]) = {} <=> Len(commands[t]) = 0
      <4>1. Len(commands[t]) > 0 => 1 \in 1 .. Len(commands[t])  BY <2>1
      <4>2. Len(commands[t]) = 0 => 1 .. Len(commands[t]) = {}  OBVIOUS
      <4> QED  BY <2>1, <4>1, <4>2
    <3> QED  BY <2>1, <3>1, <3>2
  <2>4. Read(t) = Elements(commands[t])  BY DEF IInv, BitsAreAsked
  <2>5. t \in h_torrent_data <=> Len(commands[t]) > 0  BY DEF IInv, Counted
  <2> QED  BY <2>1, <2>2, <2>3, <2>4, <2>5 DEF NoPiecesWanted
<1> QED  BY Invariant, <1>1, PTL
=============================================================================
