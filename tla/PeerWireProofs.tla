--------------------------- MODULE PeerWireProofs ---------------------------
(***************************************************************************)
(* Proofs about PeerWire, for any number of torrents and ids and for every *)
(* way TCP may cut what is sent.  What an end is sent in a whole           *)
(* conversation is fixed from the start, so an end that has read k cells   *)
(* is at cell k of its Stream, and the stage it is in says what k is       *)
(* (Progress); that no stage takes one part of the stream for another is   *)
(* then a matter of a few cases (ReadResult).                              *)
(***************************************************************************)
EXTENDS PeerWire, TLAPS

hash == client["dialler"].hs

\* All that an end is ever sent.
Stream(e) ==
    IF e = "acceptor" THEN <<19, hash, 45, peer_id["dialler"], 0, 0, 0, 1, 2>>
    ELSE <<19, hash, 45, peer_id["acceptor"], 0, 0, 0, 2, 5, 0>>

\* How much of the other end's stream the client e has written by a stage.
WrittenBy(e, state) ==
    CASE state = "Connecting" -> 0
      [] state = "ReadingHandshake" -> IF e = "dialler" THEN 4 ELSE 0
      [] state = "ReadingPeerID" -> 4
      [] OTHER -> IF e = "dialler" THEN 9 ELSE 10

Written(e) == WrittenBy(e, client[e].state)

Types ==
    /\ peer_id \in [Ends -> IDs]
    /\ h_torrent_data \in [Ends -> SUBSET Torrents]
    /\ lost \in BOOLEAN
    /\ received \in [Ends -> Nat]
    /\ packet_ends \in [Ends -> SUBSET Nat]

Shape ==
    /\ client = [e \in Ends |-> client[e]]
    /\ wire \in [Ends -> Seq(Cells)]
    /\ \A e \in Ends :
          /\ client[e] = [state   |-> client[e].state,
                          leecher |-> e = "dialler",
                          hs      |-> client[e].hs,
                          out     |-> <<>>]
          /\ client[e].state \in {"Connecting", "ReadingHandshake",
                                  "ReadingPeerID", "Ready", "Freed"}
          /\ client[e].state = "Connecting" => e = "dialler"

\* m is what stands in s after the first r cells.
Within(m, s, r) ==
    /\ r + Len(m) <= Len(s)
    /\ \A i \in 1 .. Len(m) : m[i] = s[r + i]

\* What was sent to an end and not read is the next part of its stream, and
\* between two ends that live nothing is missing.
InStream ==
    \A e \in Ends :
        /\ Within(wire[e], Stream(e), received[e])
        /\ client[e].state = "Freed" => wire[e] = <<>>
        /\ client[e].state # "Freed" /\ client[Other(e)].state # "Freed" =>
              received[e] + Len(wire[e]) = Written(Other(e))

Progress ==
    \A e \in Ends :
        /\ client[e].state \in {"Connecting", "ReadingHandshake"} =>
              received[e] = 0
        /\ client[e].state = "ReadingPeerID" => received[e] = 2
        /\ client[e].state = "Ready" => received[e] >= 4 /\ ~SelfConnected

Agreed ==
    /\ hash \in Torrents /\ hash \in h_torrent_data["dialler"]
    /\ client["acceptor"].hs \in WireHashes \cup {""}
    /\ client["acceptor"].state \in Shaken =>
          client["acceptor"].hs = hash /\ hash \in h_torrent_data["acceptor"]

IInv == Types /\ Shape /\ InStream /\ Progress /\ Agreed

USE TorrentsAssumption, HashesAssumption

-----------------------------------------------------------------------------
(***************************************************************************)
(* Sequences                                                               *)
(***************************************************************************)
LEMMA Joined ==
    ASSUME NEW S, NEW s \in Seq(S), NEW t \in Seq(S)
    PROVE  /\ s \o t \in Seq(S)
           /\ Len(s) \in Nat /\ Len(t) \in Nat
           /\ Len(s \o t) = Len(s) + Len(t)
           /\ \A k \in 1 .. Len(s) + Len(t) :
                 (s \o t)[k] = IF k <= Len(s) THEN s[k] ELSE t[k - Len(s)]
<1>1. s \o t \in Seq(S)  OBVIOUS
<1>2. Len(s) \in Nat /\ Len(t) \in Nat  OBVIOUS
<1>3. Len(s \o t) = Len(s) + Len(t)  OBVIOUS
<1>4. \A k \in 1 .. Len(s) + Len(t) :
          (s \o t)[k] = IF k <= Len(s) THEN s[k] ELSE t[k - Len(s)]
  OBVIOUS
<1> QED  BY <1>1, <1>2, <1>3, <1>4

\* A sequence cut in two: what each part holds.
LEMMA Cut ==
    ASSUME NEW S, NEW s \in Seq(S), NEW n \in 0 .. Len(s)
    PROVE  /\ SubSeq(s, 1, n) \in Seq(S) /\ Len(SubSeq(s, 1, n)) = n
           /\ \A i \in 1 .. n : SubSeq(s, 1, n)[i] = s[i]
           /\ Rest(s, n) \in Seq(S) /\ Len(Rest(s, n)) = Len(s) - n
           /\ \A i \in 1 .. Len(s) - n : Rest(s, n)[i] = s[n + i]
<1>1. SubSeq(s, 1, n) \in Seq(S) /\ Len(SubSeq(s, 1, n)) = n
      /\ \A i \in 1 .. n : SubSeq(s, 1, n)[i] = s[i]
  OBVIOUS
<1>2. Rest(s, n) \in Seq(S) /\ Len(Rest(s, n)) = Len(s) - n
  BY DEF Rest
<1>3. \A i \in 1 .. Len(s) - n : Rest(s, n)[i] = s[n + i]
  BY DEF Rest
<1> QED  BY <1>1, <1>2, <1>3

\* Two sequences with the same cells are the same.
LEMMA Same ==
    ASSUME NEW S, NEW s \in Seq(S), NEW t \in Seq(S), Len(s) = Len(t),
           \A i \in 1 .. Len(s) : s[i] = t[i]
    PROVE  s = t
OBVIOUS

\* The first cells of one or two.
LEMMA Short ==
    ASSUME NEW S, NEW a \in S, NEW b \in S
    PROVE  /\ SubSeq(<<a>>, 1, 1) = <<a>>
           /\ SubSeq(<<a, b>>, 1, 1) = <<a>>
           /\ SubSeq(<<a, b>>, 1, 2) = <<a, b>>
<1>1. <<a>> \in Seq(S) /\ Len(<<a>>) = 1 /\ <<a>>[1] = a  OBVIOUS
<1>2. <<a, b>> \in Seq(S) /\ Len(<<a, b>>) = 2 /\ <<a, b>>[1] = a
      /\ <<a, b>>[2] = b
  OBVIOUS
<1> DEFINE x == <<a>>
           y == <<a, b>>
<1> HIDE DEF x, y
<1>3. SubSeq(x, 1, 1) \in Seq(S) /\ Len(SubSeq(x, 1, 1)) = 1
      /\ SubSeq(x, 1, 1)[1] = a
  BY <1>1, Cut DEF x
<1>4. SubSeq(y, 1, 1) \in Seq(S) /\ Len(SubSeq(y, 1, 1)) = 1
      /\ SubSeq(y, 1, 1)[1] = a
  BY <1>2, Cut DEF y
<1>5. SubSeq(y, 1, 2) \in Seq(S) /\ Len(SubSeq(y, 1, 2)) = 2
      /\ SubSeq(y, 1, 2)[1] = a /\ SubSeq(y, 1, 2)[2] = b
  BY <1>2, Cut DEF y
<1>6. \A i \in 1 .. 1 : i = 1  OBVIOUS
<1>7. \A i \in 1 .. 2 : i = 1 \/ i = 2  OBVIOUS
<1>8. SubSeq(x, 1, 1) = x  BY <1>1, <1>3, <1>6, Same DEF x
<1>9. SubSeq(y, 1, 1) = x  BY <1>1, <1>4, <1>6, Same DEF x
<1>10. SubSeq(y, 1, 2) = y  BY <1>2, <1>5, <1>7, Same DEF y
<1> QED  BY <1>8, <1>9, <1>10 DEF x, y

\* The packages of one callback, which are never more than two.
LEMMA FlattenNone == FlattenSeq(<<>>) = <<>>
BY DEF FlattenSeq

\* One package, written,
LEMMA FlattenOne ==
    ASSUME NEW S, NEW a \in Seq(S)
    PROVE  FlattenSeq(<<a>>) = a
<1> DEFINE s == <<a>>
           Joins(f) == [i \in 1 .. Len(s) |->
                           IF i = 1 THEN s[i] ELSE f[i - 1] \o s[i]]
           g == [i \in 1 .. Len(s) |-> a]
           F == CHOOSE f : f = Joins(f)
<1>1. g = Joins(g)  OBVIOUS
<1>2. F = Joins(F)
  <2> HIDE DEF g
  <2> QED  BY <1>1
<1>3. F[1] = a
  <2> HIDE DEF F
  <2> QED  BY <1>2
<1>4. FlattenSeq(s) = F[1]  BY DEF FlattenSeq
<1> QED  BY <1>3, <1>4

\* or two, one after the other.
LEMMA FlattenTwo ==
    ASSUME NEW S, NEW a \in Seq(S), NEW b \in Seq(S)
    PROVE  FlattenSeq(<<a, b>>) = a \o b
<1> DEFINE s == <<a, b>>
           Joins(f) == [i \in 1 .. Len(s) |->
                           IF i = 1 THEN s[i] ELSE f[i - 1] \o s[i]]
           g == [i \in 1 .. Len(s) |-> IF i = 1 THEN a ELSE a \o b]
           F == CHOOSE f : f = Joins(f)
<1>0. Len(s) = 2 /\ s[1] = a /\ s[2] = b  OBVIOUS
<1>1. g = Joins(g)
  <2> SUFFICES ASSUME NEW i \in 1 .. Len(s) PROVE g[i] = Joins(g)[i]
    OBVIOUS
  <2>1. i = 1 \/ i = 2  BY <1>0
  <2>2. g[1] = a /\ g[2] = a \o b  BY <1>0
  <2>3. Joins(g)[1] = a /\ Joins(g)[2] = g[1] \o b
    <3> HIDE DEF g, s
    <3> QED  BY <1>0
  <2> HIDE DEF g, s
  <2> QED  BY <2>1, <2>2, <2>3
<1>2. F = Joins(F)
  <2> HIDE DEF g
  <2> QED  BY <1>1
<1>3. F[2] = a \o b
  <2> HIDE DEF F, s
  <2>1. \A i \in 1 .. Len(s) : F[i] = IF i = 1 THEN s[i] ELSE F[i - 1] \o s[i]
    BY <1>2
  <2>2. F[1] = a  BY <1>0, <2>1
  <2>3. F[2] = F[1] \o b
    <3>1. 2 \in 1 .. Len(s) /\ 2 # 1 /\ 2 - 1 = 1  BY <1>0
    <3> QED  BY <1>0, <2>1, <3>1
  <2> QED  BY <2>2, <2>3
<1>4. FlattenSeq(s) = F[2]  BY <1>0 DEF FlattenSeq
<1> QED  BY <1>3, <1>4
-----------------------------------------------------------------------------
(***************************************************************************)
(* What is written                                                         *)
(***************************************************************************)
Outs == {<<>>, <<"handshake">>, <<"interested">>, <<"bitfield">>,
         <<"handshake", "bitfield">>}

\* The cells of the packages of one callback.
Cellular(e, h, out) ==
    CASE out = <<>>               -> <<>>
      [] out = <<"handshake">>    -> <<19, h, 45, peer_id[e]>>
      [] out = <<"interested">>   -> <<0, 0, 0, 1, 2>>
      [] out = <<"bitfield">>     -> <<0, 0, 0, 2, 5, 0>>
      [] OTHER -> <<19, h, 45, peer_id[e], 0, 0, 0, 2, 5, 0>>

\* The bytes of each package.
LEMMA PkgCells ==
    ASSUME NEW e \in Ends, NEW h \in WireHashes, peer_id \in [Ends -> IDs]
    PROVE  /\ Pkg(e, h, "handshake") = <<19, h, 45, peer_id[e]>>
           /\ Pkg(e, h, "interested") = <<0, 0, 0, 1, 2>>
           /\ Pkg(e, h, "bitfield") = <<0, 0, 0, 2, 5, 0>>
           /\ Pkg(e, h, "handshake") \in Seq(Cells)
           /\ Pkg(e, h, "interested") \in Seq(Cells)
           /\ Pkg(e, h, "bitfield") \in Seq(Cells)
<1>1. /\ Pkg(e, h, "handshake") = <<19, h, 45, peer_id[e]>>
      /\ Pkg(e, h, "interested") = <<0, 0, 0, 1, 2>>
      /\ Pkg(e, h, "bitfield") = <<0, 0, 0, 2, 5, 0>>
  BY DEF Pkg, HandshakePkg
<1>2. {0, 1, 2, 5, 19, 45, h, peer_id[e]} \subseteq Cells
  <2>1. {0, 1, 2, 5, 19, 45} \subseteq 0 .. 255  OBVIOUS
  <2>2. peer_id[e] \in IDs  OBVIOUS
  <2> QED  BY <2>1, <2>2 DEF Cells
<1> HIDE DEF Cells
<1>3. 0 \in Cells /\ 1 \in Cells /\ 2 \in Cells /\ 5 \in Cells /\ 19 \in Cells
      /\ 45 \in Cells /\ h \in Cells /\ peer_id[e] \in Cells
  BY <1>2
<1>4. <<19, h, 45, peer_id[e]>> \in Seq(Cells)  BY <1>3
<1>5. <<0, 0, 0, 1, 2>> \in Seq(Cells)  BY <1>3
<1>6. <<0, 0, 0, 2, 5, 0>> \in Seq(Cells)  BY <1>3
<1> QED  BY <1>1, <1>4, <1>5, <1>6

\* What is sent, and that a packet ends after a number of cells.
LEMMA SendEffect ==
    ASSUME NEW from \in Ends, NEW h, NEW out \in Outs,
           h \in WireHashes \/ out = <<>>,
           NEW w \in [Ends -> Seq(Cells)], NEW ends \in [Ends -> SUBSET Nat],
           IInv, Send(from, h, out, w, ends)
    PROVE  /\ packet_ends' \in [Ends -> SUBSET Nat]
           /\ Cellular(from, h, out) \in Seq(Cells)
           /\ client[Other(from)].state = "Freed" => wire' = w
           /\ client[Other(from)].state # "Freed" =>
                 wire' = [w EXCEPT ![Other(from)] = @ \o Cellular(from, h, out)]
<1> DEFINE to == Other(from)
           sent == [i \in DOMAIN out |-> Pkg(from, h, out[i])]
           len(k) == Len(FlattenSeq(SubSeq(sent, 1, k)))
           base == received[to] + Len(wire[to])
<1>1. peer_id \in [Ends -> IDs] /\ to \in Ends /\ wire[to] \in Seq(Cells)
      /\ received[to] \in Nat
  BY DEF IInv, Types, Shape, Other, Ends
<1>2. base \in Nat  BY <1>1
<1>3. /\ FlattenSeq(sent) = Cellular(from, h, out)
      /\ FlattenSeq(sent) \in Seq(Cells)
      /\ \A k \in DOMAIN out : len(k) \in Nat
  <2> DEFINE H == Pkg(from, h, "handshake")
             B == Pkg(from, h, "bitfield")
  <2>1. CASE out = <<>>
    <3>1. sent = <<>>  BY <2>1
    <3>2. Cellular(from, h, out) = <<>>  BY <2>1 DEF Cellular
    <3>3. DOMAIN out = {}  BY <2>1
    <3>4. <<>> \in Seq(Cells)  OBVIOUS
    <3> HIDE DEF sent, len
    <3> QED  BY <3>1, <3>2, <3>3, <3>4, FlattenNone
  <2>2. ASSUME NEW kind \in {"handshake", "interested", "bitfield"},
               out = <<kind>>
        PROVE  <1>3!:
    <3> DEFINE P == Pkg(from, h, kind)
    <3>0. h \in WireHashes  BY <2>2
    <3>1. P \in Seq(Cells)  BY <1>1, <3>0, PkgCells
    <3> HIDE DEF P
    <3>2. sent = <<P>>  BY <2>2 DEF P
    <3>3. Cellular(from, h, out) = P
      BY <1>1, <2>2, <3>0, PkgCells DEF Cellular, P
    <3>4. SubSeq(<<P>>, 1, 1) = <<P>>  BY <3>1, Short
    <3>5. DOMAIN out = {1}  BY <2>2
    <3> HIDE DEF sent
    <3>6. FlattenSeq(sent) = P  BY <3>1, <3>2, FlattenOne
    <3>7. len(1) = Len(P)  BY <3>1, <3>2, <3>4, FlattenOne
    <3>8. Len(P) \in Nat  BY <3>1
    <3> QED  BY <3>1, <3>3, <3>5, <3>6, <3>7, <3>8
  <2>3. CASE out = <<"handshake", "bitfield">>
    <3>0. h \in WireHashes  BY <2>3
    <3>1. H \in Seq(Cells) /\ B \in Seq(Cells)  BY <1>1, <3>0, PkgCells
    <3>2. sent = <<H, B>>  BY <2>3
    <3>3. Cellular(from, h, out) = H \o B
      <4>1. Cellular(from, h, out)
              = <<19, h, 45, peer_id[from], 0, 0, 0, 2, 5, 0>>
        BY <2>3 DEF Cellular
      <4>2. H = <<19, h, 45, peer_id[from]>> /\ B = <<0, 0, 0, 2, 5, 0>>
        BY <1>1, <3>0, PkgCells
      <4>3. <<19, h, 45, peer_id[from], 0, 0, 0, 2, 5, 0>>
              = <<19, h, 45, peer_id[from]>> \o <<0, 0, 0, 2, 5, 0>>
        OBVIOUS
      <4> HIDE DEF H, B
      <4> QED  BY <4>1, <4>2, <4>3
    <3> HIDE DEF H, B
    <3>4. SubSeq(<<H, B>>, 1, 1) = <<H>> /\ SubSeq(<<H, B>>, 1, 2) = <<H, B>>
      BY <3>1, Short
    <3>5. DOMAIN out = {1, 2}  BY <2>3
    <3> HIDE DEF sent
    <3>6. FlattenSeq(sent) = H \o B  BY <3>1, <3>2, FlattenTwo
    <3>7. len(1) = Len(H) /\ len(2) = Len(H \o B)
      BY <3>1, <3>2, <3>4, FlattenOne, FlattenTwo
    <3>8. H \o B \in Seq(Cells) /\ Len(H) \in Nat /\ Len(H \o B) \in Nat
      <4>1. H \o B \in Seq(Cells)  BY <3>1, Joined
      <4> HIDE DEF Cells
      <4> QED  BY <3>1, <4>1
    <3> QED  BY <3>3, <3>5, <3>6, <3>7, <3>8
  <2> QED  BY <2>1, <2>2, <2>3 DEF Outs
<1> HIDE DEF sent, base, len
<1>4. {base + len(k) : k \in DOMAIN out} \subseteq Nat  BY <1>2, <1>3
<1>5. \/ /\ client[to].state = "Freed"
         /\ wire' = w /\ packet_ends' = ends
      \/ /\ client[to].state # "Freed"
         /\ wire' = [w EXCEPT ![to] = @ \o FlattenSeq(sent)]
         /\ packet_ends' = [ends EXCEPT
                ![to] = @ \cup {base + len(k) : k \in DOMAIN out}]
  BY DEF Send, sent, base, len
<1>6. packet_ends' \in [Ends -> SUBSET Nat]  BY <1>1, <1>4, <1>5
<1> QED  BY <1>3, <1>5, <1>6
-----------------------------------------------------------------------------
(***************************************************************************)
(* The stages of a read callback, for what the parsers of this program     *)
(* find in what this program writes.                                       *)
(***************************************************************************)
Rec(state, leecher, hs, out) ==
    [state |-> state, leecher |-> leecher, hs |-> hs, out |-> out]

\* A client's record by its fields,
LEMMA RecFields ==
    ASSUME NEW s, NEW k, NEW h, NEW o
    PROVE  /\ Rec(s, k, h, o).state = s /\ Rec(s, k, h, o).leecher = k
           /\ Rec(s, k, h, o).hs = h /\ Rec(s, k, h, o).out = o
BY DEF Rec

\* when it is freed,
LEMMA RecFreed ==
    ASSUME NEW s, NEW k, NEW h, NEW o
    PROVE  Destroyed(Rec(s, k, h, o)) = Rec("Freed", k, h, o)
BY DEF Rec, Destroyed

Fields == {"state", "leecher", "hs", "out"}

\* from its fields,
LEMMA RecIs ==
    ASSUME NEW r, DOMAIN r = Fields, r = [f \in Fields |-> r[f]]
    PROVE  r = Rec(r.state, r.leecher, r.hs, r.out)
BY DEF Rec, Fields

\* and as a function.
LEMMA RecFunction ==
    ASSUME NEW s, NEW k, NEW h, NEW o
    PROVE  /\ DOMAIN Rec(s, k, h, o) = Fields
           /\ Rec(s, k, h, o) = [f \in Fields |-> Rec(s, k, h, o)[f]]
BY DEF Rec, Fields

\* Messages are for clients that are Ready.
LEMMA NotReady ==
    ASSUME NEW s, NEW k, NEW h, NEW o, NEW in, s # "Ready"
    PROVE  MessageStage(Rec(s, k, h, o), in) = Rec(s, k, h, o)
<1> DEFINE c == Rec(s, k, h, o)
<1>1. c.state # "Ready"  BY RecFields
<1> HIDE DEF c
<1>2. MessageStage(c, in) = c  BY <1>1 DEF MessageStage
<1> QED  BY <1>2 DEF c

\* A destroyed client goes through no further stage.
LEMMA FreedStages ==
    ASSUME NEW k, NEW h, NEW o, NEW in, NEW known
    PROVE  MessageStage(PeerIDStage(Rec("Freed", k, h, o), in, known), in)
             = Rec("Freed", k, h, o)
<1>1. PeerIDStage(Rec("Freed", k, h, o), in, known) = Rec("Freed", k, h, o)
  BY RecFields DEF PeerIDStage
<1>2. MessageStage(Rec("Freed", k, h, o), in) = Rec("Freed", k, h, o)
  BY NotReady
<1> QED  BY <1>1, <1>2

\* A handshake with a hash the node does not know, or with part of one.
LEMMA HashRefused ==
    ASSUME NEW k, NEW h, NEW in, NEW known, in.hash \notin known
    PROVE  ReadCb(Rec("ReadingHandshake", k, h, <<>>), in, known)
             = Rec("Freed", k, h, <<>>)
<1>1. HandshakeStage(Rec("ReadingHandshake", k, h, <<>>), in, known)
        = Rec("Freed", k, h, <<>>)
  BY RecFields, RecFreed DEF HandshakeStage
<1> QED  BY <1>1, FreedStages DEF ReadCb

\* A handshake for a known torrent is taken, and answered by who was dialled.
LEMMA HashAccepted ==
    ASSUME NEW k \in BOOLEAN, NEW h, NEW in, NEW known, in.hash \in known
    PROVE  HandshakeStage(Rec("ReadingHandshake", k, h, <<>>), in, known)
             = Rec("ReadingPeerID", k, in.hash,
                   IF k THEN <<>> ELSE <<"handshake">>)
<1> DEFINE c == Rec("ReadingHandshake", k, h, <<>>)
<1>1. c.state = "ReadingHandshake" /\ c.leecher = k /\ c.out = <<>>
  BY RecFields
<1>2. HandshakeStage(c, in, known)
        = [c EXCEPT !.state = "ReadingPeerID", !.hs = in.hash,
                    !.out = IF c.leecher THEN c.out
                            ELSE Append(c.out, "handshake")]
  <2> HIDE DEF c
  <2> QED  BY <1>1 DEF HandshakeStage
<1>3. Append(<<>>, "handshake") = <<"handshake">>  OBVIOUS
<1>4. (IF c.leecher THEN c.out ELSE Append(c.out, "handshake"))
        = (IF k THEN <<>> ELSE <<"handshake">>)
  <2> HIDE DEF c
  <2> QED  BY <1>1, <1>3
<1> DEFINE o1 == IF c.leecher THEN c.out ELSE Append(c.out, "handshake")
<1> HIDE DEF o1
<1> DEFINE e == [c EXCEPT !.state = "ReadingPeerID", !.hs = in.hash, !.out = o1]
<1>5. e = Rec("ReadingPeerID", k, in.hash, o1)
  <2>1. DOMAIN c = Fields /\ c.leecher = k  BY RecFields, RecFunction
  <2> HIDE DEF c
  <2>2. DOMAIN e = Fields /\ e = [f \in Fields |-> e[f]]  BY <2>1
  <2>3. e.state = "ReadingPeerID" /\ e.leecher = k /\ e.hs = in.hash
        /\ e.out = o1
    BY <2>1 DEF Fields
  <2> HIDE DEF e
  <2> QED  BY <2>2, <2>3, RecIs
<1>6. o1 = IF k THEN <<>> ELSE <<"handshake">>  BY <1>4 DEF o1
<1> QED  BY <1>2, <1>5, <1>6 DEF o1

\* The id is not all there, or is the own one.
LEMMA IDRefused ==
    ASSUME NEW k, NEW h, NEW o, NEW in, NEW known,
           in.id \notin {"none", "foreign"}
    PROVE  MessageStage(
               PeerIDStage(Rec("ReadingPeerID", k, h, o), in, known), in)
             = Rec("Freed", k, h, o)
<1>1. PeerIDStage(Rec("ReadingPeerID", k, h, o), in, known)
        = Rec("Freed", k, h, o)
  BY RecFields, RecFreed DEF PeerIDStage
<1>2. MessageStage(Rec("Freed", k, h, o), in) = Rec("Freed", k, h, o)
  BY NotReady
<1> QED  BY <1>1, <1>2

\* Without a peer id a client waits.
LEMMA IDAwaited ==
    ASSUME NEW k, NEW h, NEW o, NEW in, NEW known, in.id = "none"
    PROVE  MessageStage(
               PeerIDStage(Rec("ReadingPeerID", k, h, o), in, known), in)
             = Rec("ReadingPeerID", k, h, o)
<1>1. PeerIDStage(Rec("ReadingPeerID", k, h, o), in, known)
        = Rec("ReadingPeerID", k, h, o)
  BY RecFields DEF PeerIDStage
<1>2. MessageStage(Rec("ReadingPeerID", k, h, o), in)
        = Rec("ReadingPeerID", k, h, o)
  BY NotReady
<1> QED  BY <1>1, <1>2

\* A client that is Ready answers nothing but an Unchoke.
LEMMA ReadyIgnores ==
    ASSUME NEW k, NEW h, NEW o, NEW in, in.msg \in {"none", "other"}
    PROVE  MessageStage(Rec("Ready", k, h, o), in) = Rec("Ready", k, h, o)
<1> DEFINE c == Rec("Ready", k, h, o)
<1>1. in.msg # "unchoke" /\ in.msg # "short request"  OBVIOUS
<1>2. MessageStage(c, in) = c
  <2> HIDE DEF c
  <2> QED  BY <1>1 DEF MessageStage
<1> QED  BY <1>2

\* Another's peer id makes a client Ready, and each side says its part.
LEMMA IDAccepted ==
    ASSUME NEW k \in BOOLEAN, NEW h, NEW o, NEW in, NEW known,
           in.id = "foreign", h \in known, in.msg \in {"none", "other"}
    PROVE  MessageStage(
               PeerIDStage(Rec("ReadingPeerID", k, h, o), in, known), in)
             = Rec("Ready", k, h,
                   Append(o, IF k THEN "interested" ELSE "bitfield"))
<1> DEFINE c == Rec("ReadingPeerID", k, h, o)
<1>1. c.state = "ReadingPeerID" /\ c.leecher = k /\ c.hs = h /\ c.out = o
  BY RecFields
<1>2. PeerIDStage(c, in, known)
        = [c EXCEPT !.state = "Ready",
                    !.out = Append(c.out, IF c.leecher THEN "interested"
                                                       ELSE "bitfield")]
  <2> HIDE DEF c
  <2> QED  BY <1>1 DEF PeerIDStage
<1> DEFINE o1 == Append(c.out, IF c.leecher THEN "interested" ELSE "bitfield")
<1>3. o1 = Append(o, IF k THEN "interested" ELSE "bitfield")
  <2> HIDE DEF c
  <2> QED  BY <1>1
<1> HIDE DEF o1
<1> DEFINE e == [c EXCEPT !.state = "Ready", !.out = o1]
<1>4. e = Rec("Ready", k, h, o1)
  <2>1. DOMAIN c = Fields /\ c.leecher = k /\ c.hs = h
    BY RecFields, RecFunction
  <2> HIDE DEF c
  <2>2. DOMAIN e = Fields /\ e = [f \in Fields |-> e[f]]  BY <2>1
  <2>3. e.state = "Ready" /\ e.leecher = k /\ e.hs = h /\ e.out = o1
    BY <2>1 DEF Fields
  <2> HIDE DEF e
  <2> QED  BY <2>2, <2>3, RecIs
<1>5. PeerIDStage(c, in, known) = Rec("Ready", k, h, o1)
  BY <1>2, <1>4 DEF o1
<1>6. MessageStage(Rec("Ready", k, h, o1), in) = Rec("Ready", k, h, o1)
  BY ReadyIgnores
<1> QED  BY <1>3, <1>5, <1>6

\* What Append leaves and what it adds.
LEMMA AppendCells ==
    ASSUME NEW S, NEW s \in Seq(S), NEW e \in S
    PROVE  /\ \A i \in 1 .. Len(s) : Append(s, e)[i] = s[i]
           /\ Append(s, e)[Len(s) + 1] = e
<1>1. \A i \in 1 .. Len(s) : Append(s, e)[i] = s[i]  OBVIOUS
<1>2. Append(s, e)[Len(s) + 1] = e  OBVIOUS
<1> QED  BY <1>1, <1>2

\* The first and the second package a callback writes.
LEMMA AppendOne ==
    ASSUME NEW S, NEW a \in S, NEW b \in S
    PROVE  Append(<<>>, b) = <<b>> /\ Append(<<a>>, b) = <<a, b>>
<1>1. Append(<<>>, b) = <<b>>  OBVIOUS
<1>2. Append(<<a>>, b) = <<a, b>>
  <2> DEFINE x == <<a>>
             y == <<a, b>>
  <2>1. x \in Seq(S) /\ Len(x) = 1 /\ x[1] = a  OBVIOUS
  <2>2. y \in Seq(S) /\ Len(y) = 2 /\ y[1] = a /\ y[2] = b  OBVIOUS
  <2> HIDE DEF x, y
  <2>3. Append(x, b) \in Seq(S) /\ Len(Append(x, b)) = 2
    BY <2>1
  <2>a. Append(x, b)[1] = a /\ Append(x, b)[2] = b
    <3>1. Append(x, b)[Len(x) + 1] = b
          /\ \A i \in 1 .. Len(x) : Append(x, b)[i] = x[i]
      <4>1. x \in Seq(S) /\ b \in S  BY <2>1
      <4> QED  BY ONLY <4>1, AppendCells, Zenon
    <3>2. 1 \in 1 .. 1 /\ 1 + 1 = 2  OBVIOUS
    <3>3. Append(x, b)[2] = b  BY <2>1, <3>1, <3>2
    <3>4. Append(x, b)[1] = x[1]  BY <2>1, <3>1, <3>2
    <3> QED  BY <2>1, <3>3, <3>4
  <2>4. \A i \in 1 .. 2 : i = 1 \/ i = 2  OBVIOUS
  <2>5. Append(x, b) = y  BY <2>2, <2>3, <2>a, <2>4, Same
  <2> QED  BY <2>5 DEF x, y
<1> QED  BY <1>1, <1>2
-----------------------------------------------------------------------------
(***************************************************************************)
(* What is read                                                            *)
(***************************************************************************)
LEMMA EndsAre == Ends = {"dialler", "acceptor"}
                 /\ \A e \in Ends : Other(e) \in Ends /\ Other(e) # e
                                    /\ Other(Other(e)) = e
BY DEF Ends, Other

\* The streams cell by cell.
LEMMA StreamCells ==
    ASSUME NEW e \in Ends
    PROVE  /\ Len(Stream(e)) = IF e = "acceptor" THEN 9 ELSE 10
           /\ Stream(e)[1] = 19 /\ Stream(e)[2] = hash /\ Stream(e)[3] = 45
           /\ Stream(e)[4] = peer_id[Other(e)]
           /\ Stream(e)[5] = 0 /\ Stream(e)[6] = 0 /\ Stream(e)[7] = 0
           /\ Stream(e)[8] = IF e = "acceptor" THEN 1 ELSE 2
           /\ Stream(e)[9] = IF e = "acceptor" THEN 2 ELSE 5
           /\ e = "dialler" => Stream(e)[10] = 0
<1>1. CASE e = "acceptor"
  <2>1. Stream(e) = <<19, hash, 45, peer_id["dialler"], 0, 0, 0, 1, 2>>
    BY <1>1 DEF Stream
  <2>2. Other(e) = "dialler"  BY <1>1 DEF Other
  <2> QED  BY <1>1, <2>1, <2>2
<1>2. CASE e = "dialler"
  <2>1. Stream(e) = <<19, hash, 45, peer_id["acceptor"], 0, 0, 0, 2, 5, 0>>
    BY <1>2 DEF Stream
  <2>2. Other(e) = "acceptor"  BY <1>2 DEF Other
  <2> QED  BY <1>2, <2>1, <2>2
<1> QED  BY <1>1, <1>2 DEF Ends

\* A part of a stream, cell by cell,
LEMMA WithinCell ==
    ASSUME NEW S, NEW m \in Seq(S), NEW s, Len(s) \in Nat, NEW r \in Nat,
           Within(m, s, r), NEW i \in 1 .. Len(m)
    PROVE  m[i] = s[r + i] /\ r + i \in 1 .. Len(s)
<1>1. m[i] = s[r + i] /\ r + Len(m) <= Len(s)  BY DEF Within
<1>2. Len(m) \in Nat  OBVIOUS
<1>3. r + i \in 1 .. Len(s)  BY <1>1, <1>2
<1> QED  BY <1>1, <1>3

\* cut in two,
LEMMA WithinCut ==
    ASSUME NEW S, NEW m \in Seq(S), NEW s, Len(s) \in Nat, NEW r \in Nat,
           Within(m, s, r), NEW n \in 0 .. Len(m)
    PROVE  /\ Within(SubSeq(m, 1, n), s, r)
           /\ Within(Rest(m, n), s, r + n)
<1>1. Len(m) \in Nat /\ n \in Nat /\ r + Len(m) <= Len(s)  BY DEF Within
<1> DEFINE a == SubSeq(m, 1, n)
           b == Rest(m, n)
<1>2. Len(a) = n /\ \A i \in 1 .. n : a[i] = m[i]  BY Cut
<1>3. Len(b) = Len(m) - n /\ \A i \in 1 .. Len(m) - n : b[i] = m[n + i]
  BY Cut
<1> HIDE DEF a, b
<1>4. Within(a, s, r)
  <2>1. r + Len(a) <= Len(s)  BY <1>1, <1>2
  <2>2. ASSUME NEW i \in 1 .. Len(a) PROVE a[i] = s[r + i]
    <3>1. i \in 1 .. Len(m) /\ i \in 1 .. n  BY <1>1, <1>2
    <3>2. a[i] = m[i]  BY <1>2, <3>1
    <3>3. m[i] = s[r + i]  BY <3>1, WithinCell
    <3> QED  BY <3>2, <3>3
  <2> QED  BY <2>1, <2>2 DEF Within
<1>5. Within(b, s, r + n)
  <2>1. r + n + Len(b) <= Len(s)  BY <1>1, <1>3
  <2>2. ASSUME NEW i \in 1 .. Len(b) PROVE b[i] = s[r + n + i]
    <3>1. n + i \in 1 .. Len(m) /\ i \in 1 .. Len(m) - n
          /\ r + (n + i) = r + n + i
      BY <1>1, <1>3
    <3>2. b[i] = m[n + i]  BY <1>3, <3>1
    <3>3. m[n + i] = s[r + (n + i)]  BY <3>1, WithinCell
    <3> QED  BY <3>1, <3>2, <3>3
  <2> QED  BY <2>1, <2>2 DEF Within
<1> QED  BY <1>4, <1>5 DEF a, b

\* and joined again.
LEMMA WithinJoined ==
    ASSUME NEW S, NEW m \in Seq(S), NEW t \in Seq(S), NEW s, Len(s) \in Nat,
           NEW r \in Nat, Within(m, s, r), Within(t, s, r + Len(m))
    PROVE  Within(m \o t, s, r)
<1> DEFINE j == m \o t
<1>1. /\ Len(m) \in Nat /\ Len(t) \in Nat /\ Len(j) = Len(m) + Len(t)
      /\ \A k \in 1 .. Len(m) + Len(t) :
            j[k] = IF k <= Len(m) THEN m[k] ELSE t[k - Len(m)]
  BY Joined
<1> HIDE DEF j
<1>2. r + Len(j) <= Len(s)
  <2>1. r + Len(m) + Len(t) <= Len(s)  BY DEF Within
  <2> QED  BY <1>1, <2>1
<1>3. ASSUME NEW k \in 1 .. Len(j) PROVE j[k] = s[r + k]
  <2>0. k \in 1 .. Len(m) + Len(t)  BY <1>1
  <2>1. CASE k <= Len(m)
    <3>1. k \in 1 .. Len(m)  BY <1>1, <2>1
    <3>2. m[k] = s[r + k]  BY <3>1, WithinCell
    <3>3. j[k] = m[k]  BY <1>1, <2>0, <2>1
    <3> QED  BY <3>2, <3>3
  <2>2. CASE ~(k <= Len(m))
    <3>1. k - Len(m) \in 1 .. Len(t) /\ r + Len(m) \in Nat
          /\ r + Len(m) + (k - Len(m)) = r + k
      BY <1>1, <2>0, <2>2
    <3>2. t[k - Len(m)] = s[r + Len(m) + (k - Len(m))]
      BY <3>1, WithinCell
    <3>3. j[k] = t[k - Len(m)]  BY <1>1, <2>0, <2>2
    <3> QED  BY <3>1, <3>2, <3>3
  <2> QED  BY <2>1, <2>2
<1>4. Within(j, s, r)  BY <1>2, <1>3 DEF Within
<1> QED  BY <1>4 DEF j

\* Wherever the part after the handshake is cut, what is left of it is not
\* taken for an Unchoke or a Request.
LEMMA NoUnchoke ==
    ASSUME NEW e \in Ends, NEW m \in Seq(Cells), NEW r \in Nat, r >= 4,
           Within(m, Stream(e), r)
    PROVE  MsgIn(m) \in {"none", "other"}
<1>1. Len(m) \in Nat  OBVIOUS
<1>2. CASE Len(m) < 5  BY <1>2 DEF MsgIn
<1>3. CASE Len(m) >= 5
  <2>0. Len(Stream(e)) \in Nat  BY StreamCells
  <2>1. m[5] = Stream(e)[r + 5] /\ r + 5 \in 1 .. Len(Stream(e))
    <3>1. 5 \in 1 .. Len(m)  BY <1>1, <1>3
    <3> QED  BY <2>0, <3>1, WithinCell
  <2>2. CASE e = "acceptor"
    <3>1. Len(Stream(e)) = 9  BY <2>2, StreamCells
    <3>2. r + 5 = 9  BY <2>1, <3>1
    <3>3. Stream(e)[9] = 2  BY <2>2, StreamCells
    <3>4. m[5] = 2  BY <2>1, <3>2, <3>3
    <3> QED  BY <3>4 DEF MsgIn
  <2>3. CASE e # "acceptor"
    <3>1. Len(Stream(e)) = 10  BY <2>3, StreamCells
    <3>2. r + 5 = 9 \/ r + 5 = 10  BY <2>1, <3>1
    <3>3. Stream(e)[9] = 5 /\ Stream(e)[10] = 0
      <4>1. e = "dialler"  BY <2>3 DEF Ends
      <4> QED  BY <2>3, <4>1, StreamCells
    <3>4. m[5] = 5 \/ m[5] = 0  BY <2>1, <3>2, <3>3
    <3> QED  BY <3>4 DEF MsgIn
  <2> QED  BY <2>2, <2>3
<1> QED  BY <1>1, <1>2, <1>3

\* The part of its stream that a client finds when TCP gives it n cells.
Buffer(e, n) == SubSeq(wire[e], 1, n)
Found(e, n) == Parsed(e, Buffer(e, n))
After(e, n) == ReadCb(client[e], Found(e, n), h_torrent_data[e])

\* What a read callback finds in its buffer is the next part of the stream.
LEMMA BufferCells ==
    ASSUME IInv, NEW e \in Ends, NEW n \in 1 .. Len(wire[e])
    PROVE  /\ Buffer(e, n) \in Seq(Cells) /\ Len(Buffer(e, n)) = n
           /\ n \in Nat /\ n > 0 /\ received[e] \in Nat
           /\ n \in 0 .. Len(wire[e])
           /\ Within(Buffer(e, n), Stream(e), received[e])
<1>1. wire[e] \in Seq(Cells) /\ received[e] \in Nat
  BY DEF IInv, Shape, Types
<1>2. Len(wire[e]) \in Nat  BY <1>1
<1>3. n \in 0 .. Len(wire[e]) /\ n \in Nat /\ n > 0  BY <1>2
<1>4. Within(wire[e], Stream(e), received[e])  BY DEF IInv, InStream
<1>5. Len(Stream(e)) \in Nat  BY StreamCells
<1>6. Buffer(e, n) \in Seq(Cells) /\ Len(Buffer(e, n)) = n
  BY <1>1, <1>3, Cut DEF Buffer
<1>7. Within(Buffer(e, n), Stream(e), received[e])
  BY <1>1, <1>3, <1>4, <1>5, WithinCut DEF Buffer
<1> QED  BY <1>1, <1>3, <1>6, <1>7

\* The id and the message, in a buffer that starts at the id.
LEMMA FromTheID ==
    ASSUME NEW e \in Ends, NEW s \in Seq(Cells), Within(s, Stream(e), 2)
    PROVE  /\ IDIn(s, peer_id[e]) = "none" <=> Len(s) = 0
           /\ IDIn(s, peer_id[e]) = "foreign" => Len(s) >= 2 /\ ~SelfConnected
           /\ Len(s) >= 2 => MsgIn(Rest(s, 2)) \in {"none", "other"}
<1>1. Len(s) \in Nat /\ (s = <<>> <=> Len(s) = 0)  OBVIOUS
<1>0. Len(Stream(e)) \in Nat  BY StreamCells
<1>2. IDIn(s, peer_id[e]) = "none" <=> Len(s) = 0  BY <1>1 DEF IDIn
<1>3. ASSUME IDIn(s, peer_id[e]) = "foreign"
      PROVE  Len(s) >= 2 /\ ~SelfConnected
  <2>1. Len(s) # 0 /\ Len(s) # 1 /\ s[2] # peer_id[e]
    BY <1>1, <1>3 DEF IDIn
  <2>a. Len(s) >= 2 /\ 2 \in 1 .. Len(s)
    <3>1. \A l \in Nat : l # 0 /\ l # 1 => l >= 2 /\ 2 \in 1 .. l  OBVIOUS
    <3> QED  BY ONLY <1>1, <2>1, <3>1
  <2>2. s[2] = Stream(e)[2 + 2]  BY <1>0, <2>a, WithinCell
  <2>3. s[2] = peer_id[Other(e)]
    <3>1. 2 + 2 = 4  OBVIOUS
    <3> QED  BY <2>2, <3>1, StreamCells
  <2>4. peer_id[Other(e)] # peer_id[e]  BY <2>1, <2>3
  <2>5. ~SelfConnected  BY <2>4 DEF SelfConnected, Other, Ends
  <2> QED  BY <2>a, <2>5
<1>4. ASSUME Len(s) >= 2 PROVE MsgIn(Rest(s, 2)) \in {"none", "other"}
  <2>1. 2 \in 0 .. Len(s)  BY <1>1, <1>4
  <2>2. Rest(s, 2) \in Seq(Cells)  BY <2>1, Cut
  <2>3. Within(Rest(s, 2), Stream(e), 2 + 2)  BY <1>0, <2>1, WithinCut
  <2>4. 2 + 2 \in Nat /\ 2 + 2 >= 4  OBVIOUS
  <2> QED  BY <2>2, <2>3, <2>4, NoUnchoke
<1> QED  BY <1>2, <1>3, <1>4

\* What the parsers find, in each of the stages.
LEMMA FoundIn ==
    ASSUME IInv, NEW e \in Ends, NEW n \in 1 .. Len(wire[e])
    PROVE  /\ client[e].state = "ReadingHandshake" =>
                 /\ n = 1 => Found(e, n).hash = "short"
                 /\ n # 1 =>
                       /\ Found(e, n).hash = hash
                       /\ Found(e, n).id = "none" <=> n = 2
                       /\ Found(e, n).id = "foreign" =>
                             /\ n >= 4 /\ ~SelfConnected
                             /\ Found(e, n).msg \in {"none", "other"}
           /\ client[e].state = "ReadingPeerID" =>
                 /\ Found(e, n).id # "none"
                 /\ Found(e, n).id = "foreign" =>
                       /\ n >= 2 /\ ~SelfConnected
                       /\ Found(e, n).msg \in {"none", "other"}
           /\ client[e].state = "Ready" => Found(e, n).msg \in {"none", "other"}
<1> DEFINE b == Buffer(e, n)
           stage == client[e].state
           atID == IF stage = "ReadingHandshake" THEN Rest(b, 2) ELSE b
           atMsg == IF stage = "Ready" THEN b ELSE Rest(atID, 2)
           in == Found(e, n)
           r == received[e]
<1>1. /\ in.hash = HashIn(b) /\ in.id = IDIn(atID, peer_id[e])
      /\ in.msg = MsgIn(atMsg)
  BY DEF Found, Parsed
<1>2. /\ b \in Seq(Cells) /\ Len(b) = n /\ n \in Nat /\ n > 0 /\ r \in Nat
      /\ Within(b, Stream(e), r)
  BY BufferCells
<1>0. Len(Stream(e)) \in Nat  BY StreamCells
<1> HIDE DEF b, in, r
<1>3. ASSUME stage = "ReadingHandshake", n = 1 PROVE in.hash = "short"
  BY <1>1, <1>2, <1>3 DEF HashIn
<1>4. ASSUME stage = "ReadingHandshake", n # 1
      PROVE  /\ in.hash = hash
             /\ in.id = "none" <=> n = 2
             /\ in.id = "foreign" => /\ n >= 4 /\ ~SelfConnected
                                     /\ in.msg \in {"none", "other"}
  <2>1. r = 0  BY <1>4 DEF IInv, Progress, r
  <2>2. n >= 2 /\ 2 \in 1 .. Len(b) /\ 2 \in 0 .. Len(b)  BY <1>2, <1>4
  <2>3. in.hash = hash
    <3>1. in.hash = b[2]  BY <1>1, <1>2, <2>2 DEF HashIn
    <3>2. b[2] = Stream(e)[0 + 2]  BY <1>0, <1>2, <2>1, <2>2, WithinCell
    <3>3. 0 + 2 = 2  OBVIOUS
    <3> QED  BY <3>1, <3>2, <3>3, StreamCells
  <2> DEFINE s == Rest(b, 2)
  <2>4. s \in Seq(Cells) /\ Len(s) = n - 2  BY <1>2, <2>2, Cut
  <2>5. atID = s /\ atMsg = Rest(s, 2)  BY <1>4
  <2>6. in.id = IDIn(s, peer_id[e]) /\ in.msg = MsgIn(Rest(s, 2))
    BY <1>1, <2>5
  <2>7. Within(s, Stream(e), 2)
    <3>1. Within(s, Stream(e), r + 2)  BY <1>0, <1>2, <2>2, WithinCut
    <3>2. r + 2 = 2  BY <2>1
    <3> QED  BY <3>1, <3>2
  <2> HIDE DEF s
  <2>10. /\ in.id = "none" <=> Len(s) = 0
         /\ in.id = "foreign" => Len(s) >= 2 /\ ~SelfConnected
         /\ Len(s) >= 2 => in.msg \in {"none", "other"}
    BY <2>4, <2>6, <2>7, FromTheID
  <2> QED  BY <1>2, <2>2, <2>3, <2>4, <2>10
<1>5. ASSUME stage = "ReadingPeerID"
      PROVE  /\ in.id # "none"
             /\ in.id = "foreign" => /\ n >= 2 /\ ~SelfConnected
                                     /\ in.msg \in {"none", "other"}
  <2>1. r = 2  BY <1>5 DEF IInv, Progress, r
  <2>2. in.id = IDIn(b, peer_id[e]) /\ in.msg = MsgIn(Rest(b, 2))
    BY <1>1, <1>5
  <2>3. /\ in.id = "none" <=> Len(b) = 0
        /\ in.id = "foreign" => Len(b) >= 2 /\ ~SelfConnected
        /\ Len(b) >= 2 => in.msg \in {"none", "other"}
    BY <1>2, <2>1, <2>2, FromTheID
  <2> QED  BY <1>2, <2>3
<1>6. ASSUME stage = "Ready" PROVE in.msg \in {"none", "other"}
  <2>1. r >= 4  BY <1>6 DEF IInv, Progress, r
  <2>2. in.msg = MsgIn(b)  BY <1>1, <1>6
  <2> QED  BY <1>2, <2>1, <2>2, NoUnchoke
<1> QED  BY <1>3, <1>4, <1>5, <1>6 DEF in

\* Everything a read callback can do in the conversation.
LEMMA ReadResult ==
    ASSUME IInv, NEW e \in Ends,
           client[e].state \notin {"Connecting", "Freed"},
           NEW n \in 1 .. Len(wire[e])
    PROVE  \E st, hs, o :
              /\ After(e, n) = Rec(st, e = "dialler", hs, o)
              /\ e = "dialler" => hs = hash
              /\ hs \in WireHashes \cup {""}
              /\ \/ st = "Freed"
                 \/ /\ client[e].state = "ReadingHandshake"
                    /\ st = "ReadingPeerID" /\ n = 2
                    /\ hs = hash /\ hash \in h_torrent_data[e]
                    /\ o = IF e = "dialler" THEN <<>> ELSE <<"handshake">>
                 \/ /\ client[e].state = "ReadingHandshake"
                    /\ st = "Ready" /\ n >= 4 /\ ~SelfConnected
                    /\ hs = hash /\ hash \in h_torrent_data[e]
                    /\ o = IF e = "dialler" THEN <<"interested">>
                                            ELSE <<"handshake", "bitfield">>
                 \/ /\ client[e].state = "ReadingPeerID"
                    /\ st = "Ready" /\ n >= 2 /\ ~SelfConnected
                    /\ hs = hash /\ hash \in h_torrent_data[e]
                    /\ o = IF e = "dialler" THEN <<"interested">>
                                            ELSE <<"bitfield">>
                 \/ /\ client[e].state = "Ready"
                    /\ st = "Ready" /\ hs = client[e].hs /\ o = <<>>
<1> DEFINE cl == client[e]
           k == (e = "dialler")
           known == h_torrent_data[e]
           in == Found(e, n)
<1>1. /\ cl = Rec(cl.state, k, cl.hs, <<>>)
      /\ cl.state \in {"ReadingHandshake", "ReadingPeerID", "Ready"}
      /\ known \subseteq Torrents /\ hash \in WireHashes
      /\ cl.hs \in WireHashes \cup {""}
      /\ k => cl.hs = hash /\ hash \in known
      /\ k \in BOOLEAN
  BY DEF IInv, Types, Shape, Agreed, Ends, hash, Rec
<1>2. "short" \notin known  BY <1>1
<1>3. After(e, n)
        = MessageStage(PeerIDStage(HandshakeStage(cl, in, known), in, known), in)
  BY DEF After, ReadCb
<1>4. /\ Append(<<>>, "interested") = <<"interested">>
      /\ Append(<<>>, "bitfield") = <<"bitfield">>
      /\ Append(<<"handshake">>, "bitfield") = <<"handshake", "bitfield">>
  <2> DEFINE S == {"interested", "bitfield", "handshake"}
  <2>1. "interested" \in S /\ "bitfield" \in S /\ "handshake" \in S
    OBVIOUS
  <2> HIDE DEF S
  <2>2. Append(<<>>, "interested") = <<"interested">>  BY <2>1, AppendOne
  <2>3. /\ Append(<<>>, "bitfield") = <<"bitfield">>
        /\ Append(<<"handshake">>, "bitfield") = <<"handshake", "bitfield">>
    BY <2>1, AppendOne
  <2> QED  BY <2>2, <2>3
<1>5. CASE cl.state = "ReadingHandshake"
  <2>1. cl = Rec("ReadingHandshake", k, cl.hs, <<>>)  BY <1>1, <1>5
  <2>2. CASE in.hash \notin known
    <3>1. After(e, n) = Rec("Freed", k, cl.hs, <<>>)
      BY <2>1, <2>2, HashRefused DEF After
    <3> QED  BY <1>1, <3>1
  <2>3. CASE in.hash \in known
    <3>1. n # 1  BY <1>2, <1>5, <2>3, FoundIn
    <3>2. /\ in.hash = hash
          /\ in.id = "none" <=> n = 2
          /\ in.id = "foreign" => /\ n >= 4 /\ ~SelfConnected
                                  /\ in.msg \in {"none", "other"}
      BY <1>5, <3>1, FoundIn
    <3> DEFINE o == IF k THEN <<>> ELSE <<"handshake">>
    <3>3. HandshakeStage(cl, in, known) = Rec("ReadingPeerID", k, hash, o)
      <4>1. k \in BOOLEAN  OBVIOUS
      <4>2. HandshakeStage(Rec("ReadingHandshake", k, cl.hs, <<>>), in, known)
              = Rec("ReadingPeerID", k, in.hash, o)
        <5> HIDE DEF k, in, known
        <5> QED  BY <2>3, <4>1, HashAccepted
      <4> QED  BY <2>1, <3>2, <4>2
    <3>4. CASE in.id = "none"
      <4>1. After(e, n) = Rec("ReadingPeerID", k, hash, o)
        BY <1>3, <3>3, <3>4, IDAwaited
      <4> QED  BY <1>1, <1>5, <2>3, <3>2, <3>4, <4>1
    <3>5. CASE in.id \notin {"none", "foreign"}
      <4>1. After(e, n) = Rec("Freed", k, hash, o)
        BY <1>3, <3>3, <3>5, IDRefused
      <4> QED  BY <1>1, <4>1
    <3>6. CASE in.id = "foreign"
      <4>1. After(e, n)
              = Rec("Ready", k, hash,
                    Append(o, IF k THEN "interested" ELSE "bitfield"))
        <5>1. k \in BOOLEAN /\ hash \in known /\ in.msg \in {"none", "other"}
          BY <2>3, <3>2, <3>6
        <5>2. MessageStage(
                 PeerIDStage(Rec("ReadingPeerID", k, hash, o), in, known), in)
                = Rec("Ready", k, hash,
                      Append(o, IF k THEN "interested" ELSE "bitfield"))
          <6> HIDE DEF o, k, in, known
          <6> QED  BY <3>6, <5>1, IDAccepted
        <5> QED  BY <1>3, <3>3, <5>2
      <4>2. Append(o, IF k THEN "interested" ELSE "bitfield")
              = IF k THEN <<"interested">> ELSE <<"handshake", "bitfield">>
        BY <1>4
      <4> HIDE DEF o
      <4> QED  BY <1>1, <1>5, <2>3, <3>2, <3>6, <4>1, <4>2
    <3> QED  BY <3>4, <3>5, <3>6
  <2> QED  BY <2>2, <2>3
<1>6. CASE cl.state = "ReadingPeerID"
  <2>1. cl = Rec("ReadingPeerID", k, hash, <<>>) /\ hash \in known
    BY <1>1, <1>6 DEF IInv, Agreed, Shaken, Ends
  <2>2. HandshakeStage(cl, in, known) = Rec("ReadingPeerID", k, hash, <<>>)
    BY <1>6, <2>1 DEF HandshakeStage
  <2>3. /\ in.id # "none"
        /\ in.id = "foreign" => /\ n >= 2 /\ ~SelfConnected
                                /\ in.msg \in {"none", "other"}
    BY <1>6, FoundIn
  <2>4. CASE in.id # "foreign"
    <3>1. After(e, n) = Rec("Freed", k, hash, <<>>)
      BY <1>3, <2>2, <2>3, <2>4, IDRefused
    <3> QED  BY <1>1, <3>1
  <2>5. CASE in.id = "foreign"
    <3>1. After(e, n)
            = Rec("Ready", k, hash,
                  Append(<<>>, IF k THEN "interested" ELSE "bitfield"))
      <4>1. k \in BOOLEAN /\ hash \in known /\ in.msg \in {"none", "other"}
        BY <2>1, <2>3, <2>5
      <4>2. MessageStage(
               PeerIDStage(Rec("ReadingPeerID", k, hash, <<>>), in, known), in)
              = Rec("Ready", k, hash,
                    Append(<<>>, IF k THEN "interested" ELSE "bitfield"))
        <5> DEFINE o == <<>>
        <5> HIDE DEF k, in, known, o
        <5>1. MessageStage(
                 PeerIDStage(Rec("ReadingPeerID", k, hash, o), in, known), in)
                = Rec("Ready", k, hash,
                      Append(o, IF k THEN "interested" ELSE "bitfield"))
          BY <2>5, <4>1, IDAccepted
        <5> QED  BY <5>1 DEF o
      <4> QED  BY <1>3, <2>2, <4>2
    <3>2. Append(<<>>, IF k THEN "interested" ELSE "bitfield")
            = IF k THEN <<"interested">> ELSE <<"bitfield">>
      BY <1>4
    <3> QED  BY <1>1, <1>6, <2>1, <2>3, <2>5, <3>1, <3>2
  <2> QED  BY <2>4, <2>5
<1>7. CASE cl.state = "Ready"
  <2>1. HandshakeStage(cl, in, known) = cl  BY <1>7 DEF HandshakeStage
  <2>2. PeerIDStage(cl, in, known) = cl  BY <1>7 DEF PeerIDStage
  <2>3. in.msg \in {"none", "other"}  BY <1>7, FoundIn
  <2>4. MessageStage(cl, in) = Rec("Ready", k, cl.hs, <<>>)
    <3>1. cl = Rec("Ready", k, cl.hs, <<>>)  BY <1>1, <1>7
    <3>2. MessageStage(Rec("Ready", k, cl.hs, <<>>), in)
            = Rec("Ready", k, cl.hs, <<>>)
      <4> HIDE DEF in, cl
      <4> QED  BY <2>3, ReadyIgnores
    <3> QED  BY <3>1, <3>2
  <2>5. After(e, n) = Rec("Ready", k, cl.hs, <<>>)
    BY <1>3, <2>1, <2>2, <2>4
  <2> QED  BY <1>1, <1>7, <2>5
<1> QED  BY <1>1, <1>5, <1>6, <1>7
-----------------------------------------------------------------------------
(***************************************************************************)
(* The steps                                                               *)
(***************************************************************************)
LEMMA IInvTypeOK == IInv => TypeOK
<1> SUFFICES ASSUME IInv PROVE TypeOK  OBVIOUS
<1>1. ASSUME NEW e \in Ends
      PROVE  /\ client[e].state \in Stages \cup {"Freed"}
             /\ client[e].state = "Connecting" => e = "dialler"
             /\ client[e].leecher = (e = "dialler")
             /\ client[e].hs \in WireHashes \cup {"", "short"}
             /\ client[e].out = <<>>
  <2>1. client[e].hs \in WireHashes \cup {""}  BY DEF IInv, Agreed, hash, Ends
  <2>2. client[e] = Rec(client[e].state, e = "dialler", client[e].hs, <<>>)
    BY DEF IInv, Shape, Rec
  <2>3. client[e].leecher = (e = "dialler") /\ client[e].out = <<>>
    BY <2>2, RecFields
  <2> QED  BY <2>1, <2>3 DEF IInv, Shape, Stages
<1>2. ASSUME NEW e \in Ends, NEW i \in DOMAIN wire[e]
      PROVE  wire[e][i] \in Cells
  <2>1. wire[e] \in Seq(Cells)  BY DEF IInv, Shape
  <2> HIDE DEF Cells
  <2> QED  BY <2>1
<1> QED  BY <1>1, <1>2 DEF IInv, Types, TypeOK

\* A connection starts with the invariant.
LEMMA InitIInv == Init => IInv
<1> SUFFICES ASSUME Init PROVE IInv  OBVIOUS
<1> PICK t \in h_torrent_data["dialler"] :
           client = [e \in Ends |-> Created(e, t)]
  BY DEF Init
<1>1. Types
  <2>1. \A e \in Ends : {0} \in SUBSET Nat /\ 0 \in Nat  OBVIOUS
  <2> QED  BY <2>1 DEF Init, Types
<1>2. ASSUME NEW e \in Ends
      PROVE  /\ client[e].state = IF e = "dialler" THEN "Connecting"
                                                  ELSE "ReadingHandshake"
             /\ client[e].hs = IF e = "dialler" THEN t ELSE ""
             /\ client[e] = [state |-> client[e].state,
                             leecher |-> e = "dialler",
                             hs |-> client[e].hs, out |-> <<>>]
  BY DEF Created
<1>3. wire = [e \in Ends |-> <<>>] /\ received = [e \in Ends |-> 0]
  BY DEF Init
<1>4. Shape
  <2>1. <<>> \in Seq(Cells)  OBVIOUS
  <2>2. wire \in [Ends -> Seq(Cells)]
    <3> HIDE DEF Cells
    <3> QED  BY <1>3, <2>1
  <2> QED  BY <1>2, <2>2 DEF Shape
<1>5. InStream
  <2> SUFFICES ASSUME NEW e \in Ends
               PROVE  /\ Within(wire[e], Stream(e), received[e])
                      /\ received[e] + Len(wire[e]) = Written(Other(e))
                      /\ client[e].state # "Freed"
    BY DEF InStream
  <2>1. wire[e] = <<>> /\ received[e] = 0 /\ Len(<<>>) = 0  BY <1>3
  <2>2. Within(<<>>, Stream(e), 0)
    <3>1. 0 + Len(<<>>) <= Len(Stream(e))  BY StreamCells
    <3> QED  BY <3>1 DEF Within
  <2>3. Written(Other(e)) = 0  BY <1>2, EndsAre DEF Written, WrittenBy
  <2>4. received[e] + Len(wire[e]) = 0
    <3>1. Len(wire[e]) = 0  BY <2>1
    <3> QED  BY <2>1, <3>1
  <2>5. client[e].state # "Freed"  BY <1>2
  <2>6. Within(wire[e], Stream(e), received[e])  BY <2>1, <2>2
  <2> QED  BY <2>3, <2>4, <2>5, <2>6
<1>6. Progress  BY <1>2, <1>3 DEF Progress
<1>7. Agreed
  <2>1. hash = t  BY <1>2 DEF hash, Ends
  <2>2. t \in Torrents /\ t \in h_torrent_data["dialler"]
    BY <1>1 DEF Types, Ends
  <2>3. client["acceptor"].hs = "" /\ client["acceptor"].state \notin Shaken
    BY <1>2 DEF Ends, Shaken
  <2> QED  BY <2>1, <2>2, <2>3 DEF Agreed
<1> QED  BY <1>1, <1>4, <1>5, <1>6, <1>7 DEF IInv

\* Torrents are only added: whatever else a step leaves alone still holds.
LEMMA FrameStep ==
    ASSUME IInv, peer_id' = peer_id, client' = client, wire' = wire,
           received' = received, packet_ends' = packet_ends,
           lost' \in BOOLEAN, h_torrent_data' \in [Ends -> SUBSET Torrents],
           \A e \in Ends : h_torrent_data[e] \subseteq h_torrent_data'[e]
    PROVE  IInv'
<1>0. hash' = hash /\ SelfConnected' = SelfConnected
      /\ \A e \in Ends : Stream(e)' = Stream(e) /\ Written(e)' = Written(e)
  BY DEF hash, SelfConnected, Stream, Written
<1>1. Types'  BY DEF IInv, Types
<1>2. Shape'  BY DEF IInv, Shape
<1>3. InStream'  BY <1>0, EndsAre DEF IInv, InStream
<1>4. Progress'  BY <1>0 DEF IInv, Progress
<1>5. Agreed'  BY <1>0, EndsAre DEF IInv, Agreed
<1> QED  BY <1>1, <1>2, <1>3, <1>4, <1>5 DEF IInv
\* One client e reads n cells of its stream, or none, goes on to another stage
\* and writes the cells of out.
Moves(e, st, hs, n, out) ==
    /\ st \in {"ReadingHandshake", "ReadingPeerID", "Ready", "Freed"}
    /\ hs \in WireHashes \cup {""}
    /\ n \in 0 .. Len(wire[e])
    /\ out \in Seq(Cells)
    /\ UNCHANGED <<peer_id, h_torrent_data, lost>>
    /\ client' = [client EXCEPT ![e] = Rec(st, e = "dialler", hs, <<>>)]
    /\ received' = [received EXCEPT ![e] = @ + n]
    /\ packet_ends' \in [Ends -> SUBSET Nat]
    /\ wire' \in [Ends -> Seq(Cells)]
    /\ wire'[e] = IF st = "Freed" THEN <<>> ELSE Rest(wire[e], n)
    /\ wire'[Other(e)] =
          IF st = "Freed" \/ client[Other(e)].state = "Freed"
          THEN wire[Other(e)] ELSE wire[Other(e)] \o out

\* What it writes is the next part of the other end's stream, and what it has
\* read is enough for the stage.
Fits(e, st, hs, n, out) ==
    /\ st # "Freed" => /\ Within(out, Stream(Other(e)), Written(e))
                       /\ Written(e) + Len(out) = WrittenBy(e, st)
    /\ e = "dialler" => hs = hash
    /\ e = "acceptor" /\ st \in Shaken =>
          hs = hash /\ hash \in h_torrent_data["acceptor"]
    /\ st = "ReadingHandshake" => received[e] + n = 0
    /\ st = "ReadingPeerID" => received[e] + n = 2
    /\ st = "Ready" => received[e] + n >= 4 /\ ~SelfConnected

\* A client that moves by what fits its stream keeps the invariant.
LEMMA ClientStep ==
    ASSUME IInv, NEW e \in Ends, client[e].state # "Freed",
           NEW st, NEW hs, NEW n, NEW out,
           Moves(e, st, hs, n, out), Fits(e, st, hs, n, out)
    PROVE  IInv'
<1> DEFINE f == Other(e)
           k == (e = "dialler")
<1>0. /\ st \in {"ReadingHandshake", "ReadingPeerID", "Ready", "Freed"}
      /\ hs \in WireHashes \cup {""}
  BY DEF Moves
<1>1. f \in Ends /\ f # e /\ Other(f) = e /\ Ends = {e, f}
  BY EndsAre DEF Ends, Other
<1>2. wire[e] \in Seq(Cells) /\ wire[f] \in Seq(Cells)
  BY <1>1 DEF IInv, Shape
<1>g. out \in Seq(Cells)  BY DEF Moves
<1>3. Len(wire[e]) \in Nat /\ Len(wire[f]) \in Nat /\ Len(out) \in Nat
  BY <1>2, <1>g
<1>a. n \in 0 .. Len(wire[e])  BY DEF Moves
<1>b. n \in Nat  BY ONLY <1>3, <1>a
<1>c. received \in [Ends -> Nat] /\ received' = [received EXCEPT ![e] = @ + n]
  BY DEF IInv, Types, Moves
<1>d. received[e] \in Nat /\ received[f] \in Nat
      /\ received'[e] = received[e] + n /\ received'[f] = received[f]
  BY <1>1, <1>c
<1>e. client = [x \in Ends |-> client[x]]
      /\ client' = [client EXCEPT ![e] = Rec(st, k, hs, <<>>)]
  BY DEF IInv, Shape, Moves
<1>f. client' = [x \in Ends |-> client'[x]]  BY <1>e
<1>4. client'[e] = Rec(st, k, hs, <<>>) /\ client'[f] = client[f]
  BY <1>1, <1>e
<1>5. client'[e].state = st /\ client'[e].hs = hs
  BY <1>4, RecFields
<1>6. hash' = hash
  <2>1. CASE e = "dialler"  BY <1>5, <2>1 DEF hash, Fits
  <2>2. CASE e # "dialler"
    <3>1. f = "dialler"  BY <1>1, <2>2 DEF Ends
    <3> QED  BY <1>4, <3>1 DEF hash
  <2> QED  BY <2>1, <2>2
<1>7. SelfConnected' = SelfConnected /\ \A x \in Ends : Stream(x)' = Stream(x)
  BY <1>6 DEF SelfConnected, Stream, Moves
<1>8. Len(Stream(e)) \in Nat /\ Len(Stream(f)) \in Nat
  <2>1. \A x \in Ends : Len(Stream(x)) \in Nat
    <3> SUFFICES ASSUME NEW x \in Ends PROVE Len(Stream(x)) \in Nat  OBVIOUS
    <3>1. Len(Stream(x)) = IF x = "acceptor" THEN 9 ELSE 10  BY StreamCells
    <3> QED  BY ONLY <3>1
  <2> QED  BY <1>1, <2>1
<1>9. Written(e)' = WrittenBy(e, st) /\ Written(f)' = Written(f)
  BY <1>4, <1>5 DEF Written
<1>10. Types'
  <2>1. received' \in [Ends -> Nat]
    <3>1. \A x \in Ends : received'[x] \in Nat  BY ONLY <1>1, <1>b, <1>d
    <3> QED  BY <3>1 DEF IInv, Types, Moves
  <2> QED  BY <2>1 DEF IInv, Types, Moves
<1>11. Shape'
  <2>1. client'[e] = [state |-> client'[e].state, leecher |-> e = "dialler",
                      hs |-> client'[e].hs, out |-> <<>>]
    BY <1>4, <1>5 DEF Rec
  <2>2. client'[f] = [state |-> client'[f].state, leecher |-> f = "dialler",
                      hs |-> client'[f].hs, out |-> <<>>]
    <3>1. client[f] = [state |-> client[f].state, leecher |-> f = "dialler",
                       hs |-> client[f].hs, out |-> <<>>]
      BY <1>1 DEF IInv, Shape
    <3> QED  BY <1>4, <3>1
  <2>3. /\ client'[f].state \in {"Connecting", "ReadingHandshake",
                                 "ReadingPeerID", "Ready", "Freed"}
        /\ client'[f].state = "Connecting" => f = "dialler"
    BY <1>1, <1>4 DEF IInv, Shape
  <2>4. \A x \in Ends :
          /\ client'[x] = [state |-> client'[x].state,
                           leecher |-> x = "dialler",
                           hs |-> client'[x].hs, out |-> <<>>]
          /\ client'[x].state \in {"Connecting", "ReadingHandshake",
                                   "ReadingPeerID", "Ready", "Freed"}
          /\ client'[x].state = "Connecting" => x = "dialler"
    BY <1>0, <1>1, <1>5, <2>1, <2>2, <2>3
  <2> QED  BY <1>f, <2>4 DEF Shape, Moves
<1>12. /\ Within(wire'[e], Stream(e), received'[e])
       /\ st = "Freed" => wire'[e] = <<>>
       /\ st # "Freed" /\ client[f].state # "Freed" =>
             received'[e] + Len(wire'[e]) = Written(f)
  <2>0. Within(wire[e], Stream(e), received[e])  BY DEF IInv, InStream
  <2>1. CASE st = "Freed"
    <3>1. wire'[e] = <<>> /\ Len(<<>>) = 0  BY <2>1 DEF Moves
    <3>2. received[e] + Len(wire[e]) <= Len(Stream(e))
      BY <2>0 DEF Within
    <3>3. received'[e] + 0 <= Len(Stream(e))
      BY ONLY <1>3, <1>8, <1>a, <1>b, <1>d, <3>2
    <3>4. Within(<<>>, Stream(e), received'[e])
      BY ONLY <3>1, <3>3 DEF Within
    <3> QED  BY <2>1, <3>1, <3>4
  <2>2. CASE st # "Freed"
    <3>1. wire'[e] = Rest(wire[e], n)  BY <2>2 DEF Moves
    <3>2. Within(wire'[e], Stream(e), received'[e])
      BY <1>2, <1>8, <1>a, <1>d, <2>0, <3>1, WithinCut
    <3>3. Len(wire'[e]) = Len(wire[e]) - n
      <4>1. Len(Rest(wire[e], n)) = Len(wire[e]) - n  BY <1>2, <1>a, Cut
      <4> QED  BY <3>1, <4>1
    <3>4. client[f].state # "Freed" =>
              received[e] + Len(wire[e]) = Written(f)
      BY <1>1 DEF IInv, InStream
    <3>5. received'[e] + Len(wire'[e]) = received[e] + Len(wire[e])
      BY ONLY <1>3, <1>b, <1>d, <3>3
    <3> QED  BY <2>2, <3>2, <3>4, <3>5
  <2> QED  BY <2>1, <2>2
<1>13. /\ Within(wire'[f], Stream(f), received'[f])
       /\ client[f].state = "Freed" => wire'[f] = <<>>
       /\ st # "Freed" /\ client[f].state # "Freed" =>
             received'[f] + Len(wire'[f]) = WrittenBy(e, st)
  <2>0. /\ Within(wire[f], Stream(f), received[f])
        /\ client[f].state = "Freed" => wire[f] = <<>>
        /\ client[f].state # "Freed" =>
              received[f] + Len(wire[f]) = Written(e)
    BY <1>1 DEF IInv, InStream
  <2>1. CASE st = "Freed" \/ client[f].state = "Freed"
    <3>1. wire'[f] = wire[f]  BY <2>1 DEF Moves
    <3> QED  BY <1>d, <2>0, <2>1, <3>1
  <2>2. CASE ~(st = "Freed" \/ client[f].state = "Freed")
    <3>1. wire'[f] = wire[f] \o out  BY <2>2 DEF Moves
    <3>2. received[f] + Len(wire[f]) = Written(e)  BY <2>0, <2>2
    <3>3. Within(out, Stream(f), received[f] + Len(wire[f]))
      BY <2>2, <3>2 DEF Fits
    <3>4. Within(wire'[f], Stream(f), received[f])
      <4>1. Within(wire[f] \o out, Stream(f), received[f])
        BY <1>2, <1>8, <1>d, <1>g, <2>0, <3>3, WithinJoined
      <4> QED  BY <3>1, <4>1
    <3>5. Len(wire'[f]) = Len(wire[f]) + Len(out)  BY <1>2, <1>g, <3>1, Joined
    <3>6. Written(e) + Len(out) = WrittenBy(e, st)  BY <2>2 DEF Fits
    <3>7. received[f] + Len(wire'[f]) = WrittenBy(e, st)
      <4>1. received[f] + (Len(wire[f]) + Len(out))
              = (received[f] + Len(wire[f])) + Len(out)
        BY ONLY <1>3, <1>d
      <4> QED  BY <3>2, <3>5, <3>6, <4>1
    <3> QED  BY <1>d, <2>2, <3>4, <3>7
  <2> QED  BY <2>1, <2>2
<1>14. InStream'
  <2>1. /\ Within(wire'[e], Stream(e)', received'[e])
        /\ client'[e].state = "Freed" => wire'[e] = <<>>
        /\ client'[e].state # "Freed" /\ client'[f].state # "Freed" =>
              received'[e] + Len(wire'[e]) = Written(f)'
    BY <1>4, <1>5, <1>7, <1>9, <1>12
  <2>2. /\ Within(wire'[f], Stream(f)', received'[f])
        /\ client'[f].state = "Freed" => wire'[f] = <<>>
        /\ client'[f].state # "Freed" /\ client'[e].state # "Freed" =>
              received'[f] + Len(wire'[f]) = Written(e)'
    BY <1>1, <1>4, <1>5, <1>7, <1>9, <1>13
  <2> QED  BY <1>1, <2>1, <2>2 DEF InStream
<1>15. Progress'
  <2>1. /\ st \in {"Connecting", "ReadingHandshake"} => received'[e] = 0
        /\ st = "ReadingPeerID" => received'[e] = 2
        /\ st = "Ready" => received'[e] >= 4 /\ ~SelfConnected
    BY <1>0, <1>d DEF Fits
  <2>2. /\ client[f].state \in {"Connecting", "ReadingHandshake"} =>
              received'[f] = 0
        /\ client[f].state = "ReadingPeerID" => received'[f] = 2
        /\ client[f].state = "Ready" => received'[f] >= 4 /\ ~SelfConnected
    BY <1>1, <1>d DEF IInv, Progress
  <2> QED  BY <1>1, <1>4, <1>5, <1>7, <2>1, <2>2 DEF Progress
<1>16. Agreed'
  <2>1. hash \in Torrents /\ hash \in h_torrent_data["dialler"]
    BY DEF IInv, Agreed
  <2>2. CASE e = "acceptor"
    <3>1. client'["acceptor"].hs = hs /\ client'["acceptor"].state = st
      BY <1>5, <2>2
    <3> QED  BY <1>0, <1>6, <2>1, <2>2, <3>1 DEF Agreed, Fits, Moves
  <2>3. CASE e # "acceptor"
    <3>1. f = "acceptor"  BY <1>1, <2>3 DEF Ends
    <3>2. client'["acceptor"] = client["acceptor"]  BY <1>4, <3>1
    <3> QED  BY <1>6, <3>2 DEF IInv, Agreed, Moves
  <2> QED  BY <2>2, <2>3
<1> QED  BY <1>10, <1>11, <1>14, <1>15, <1>16 DEF IInv

\* Every package is the part of the other end's stream that it must be.
LEMMA HandshakesFit ==
    ASSUME NEW e \in Ends
    PROVE  /\ Within(Cellular(e, hash, <<"handshake">>), Stream(Other(e)), 0)
           /\ Len(Cellular(e, hash, <<"handshake">>)) = 4
<1> DEFINE c == <<19, hash, 45, peer_id[e]>>
           s == Stream(Other(e))
<1>1. Cellular(e, hash, <<"handshake">>) = c  BY DEF Cellular
<1>2. Len(c) = 4 /\ c[1] = 19 /\ c[2] = hash /\ c[3] = 45
      /\ c[4] = peer_id[e]
  OBVIOUS
<1>3. s[1] = 19 /\ s[2] = hash /\ s[3] = 45 /\ s[4] = peer_id[e]
      /\ 0 + 4 <= Len(s)
  BY EndsAre, StreamCells
<1> HIDE DEF c, s
<1>4. \A i \in 1 .. 4 : c[i] = s[0 + i]
  <2>1. \A i \in 1 .. 4 :
           (i = 1 \/ i = 2 \/ i = 3 \/ i = 4) /\ 0 + i = i
    OBVIOUS
  <2> QED  BY <1>2, <1>3, <2>1
<1>5. Within(c, s, 0)
  <2>1. Len(c) = 4 /\ 0 + 4 <= Len(s)  BY <1>2, <1>3
  <2> QED  BY <2>1, <1>4 DEF Within
<1> QED  BY <1>1, <1>2, <1>5 DEF s

\* What a dialler writes once it is Ready fits the other's stream,
LEMMA InterestedFits ==
    /\ Within(Cellular("dialler", hash, <<"interested">>), Stream("acceptor"), 4)
    /\ Len(Cellular("dialler", hash, <<"interested">>)) = 5
<1> DEFINE c == <<0, 0, 0, 1, 2>>
           s == Stream("acceptor")
<1>1. Cellular("dialler", hash, <<"interested">>) = c  BY DEF Cellular
<1>2. Len(c) = 5 /\ c[1] = 0 /\ c[2] = 0 /\ c[3] = 0 /\ c[4] = 1 /\ c[5] = 2
  OBVIOUS
<1>3. s[5] = 0 /\ s[6] = 0 /\ s[7] = 0 /\ s[8] = 1 /\ s[9] = 2
      /\ 4 + 5 <= Len(s)
  BY StreamCells DEF Ends
<1> HIDE DEF c, s
<1>4. \A i \in 1 .. 5 : c[i] = s[4 + i]
  <2>1. \A i \in 1 .. 5 :
           \/ i = 1 /\ 4 + i = 5
           \/ i = 2 /\ 4 + i = 6
           \/ i = 3 /\ 4 + i = 7
           \/ i = 4 /\ 4 + i = 8
           \/ i = 5 /\ 4 + i = 9
    OBVIOUS
  <2> QED  BY <1>2, <1>3, <2>1
<1>5. Within(c, s, 4)
  <2>1. Len(c) = 5 /\ 4 + 5 <= Len(s)  BY <1>2, <1>3
  <2> QED  BY <2>1, <1>4 DEF Within
<1> QED  BY <1>1, <1>2, <1>5 DEF s

\* what an acceptor writes does,
LEMMA BitfieldFits ==
    /\ Within(Cellular("acceptor", hash, <<"bitfield">>), Stream("dialler"), 4)
    /\ Len(Cellular("acceptor", hash, <<"bitfield">>)) = 6
<1> DEFINE c == <<0, 0, 0, 2, 5, 0>>
           s == Stream("dialler")
<1>1. Cellular("acceptor", hash, <<"bitfield">>) = c  BY DEF Cellular
<1>2. Len(c) = 6 /\ c[1] = 0 /\ c[2] = 0 /\ c[3] = 0 /\ c[4] = 2 /\ c[5] = 5
      /\ c[6] = 0
  OBVIOUS
<1>3. s[5] = 0 /\ s[6] = 0 /\ s[7] = 0 /\ s[8] = 2 /\ s[9] = 5 /\ s[10] = 0
      /\ 4 + 6 <= Len(s)
  BY StreamCells DEF Ends
<1> HIDE DEF c, s
<1>4. \A i \in 1 .. 6 : c[i] = s[4 + i]
  <2>1. \A i \in 1 .. 6 :
           \/ i = 1 /\ 4 + i = 5
           \/ i = 2 /\ 4 + i = 6
           \/ i = 3 /\ 4 + i = 7
           \/ i = 4 /\ 4 + i = 8
           \/ i = 5 /\ 4 + i = 9
           \/ i = 6 /\ 4 + i = 10
    OBVIOUS
  <2> QED  BY <1>2, <1>3, <2>1
<1>5. Within(c, s, 4)
  <2>1. Len(c) = 6 /\ 4 + 6 <= Len(s)  BY <1>2, <1>3
  <2> QED  BY <2>1, <1>4 DEF Within
<1> QED  BY <1>1, <1>2, <1>5 DEF s

\* A seeder that reads the whole handshake at once answers with both.
LEMMA BothFit ==
    /\ Within(Cellular("acceptor", hash, <<"handshake", "bitfield">>),
              Stream("dialler"), 0)
    /\ Len(Cellular("acceptor", hash, <<"handshake", "bitfield">>)) = 10
<1> DEFINE c == Stream("dialler")
<1>1. Cellular("acceptor", hash, <<"handshake", "bitfield">>) = c
  BY DEF Cellular, Stream
<1>2. Len(c) = 10  BY StreamCells DEF Ends
<1> HIDE DEF c
<1>3. \A i \in 1 .. 10 : c[i] = c[0 + i]
  <2>1. \A i \in 1 .. 10 : 0 + i = i  OBVIOUS
  <2> QED  BY <2>1
<1>4. Within(c, c, 0)
  <2>1. 0 + 10 <= Len(c)  BY <1>2
  <2> QED  BY <1>2, <1>3, <2>1 DEF Within
<1> QED  BY <1>1, <1>2, <1>4 DEF c

\* and so does nothing.
LEMMA NothingFits ==
    ASSUME NEW e \in Ends,
           NEW st \in {"ReadingHandshake", "ReadingPeerID", "Ready", "Freed"}
    PROVE  /\ Within(<<>>, Stream(Other(e)), WrittenBy(e, st))
           /\ WrittenBy(e, st) \in Nat
           /\ WrittenBy(e, st) + Len(<<>>) = WrittenBy(e, st)
<1>1. Len(<<>>) = 0  OBVIOUS
<1>2. /\ WrittenBy(e, st) \in Nat
      /\ WrittenBy(e, st) <= IF e = "dialler" THEN 9 ELSE 10
  BY DEF WrittenBy
<1>3. Len(Stream(Other(e))) = IF e = "dialler" THEN 9 ELSE 10
  <2>1. Len(Stream(Other(e))) = IF Other(e) = "acceptor" THEN 9 ELSE 10
    BY EndsAre, StreamCells
  <2>2. Other(e) = "acceptor" <=> e = "dialler"  BY DEF Other, Ends
  <2> QED  BY <2>1, <2>2
<1>4. WrittenBy(e, st) + 0 <= Len(Stream(Other(e)))  BY <1>2, <1>3
<1>5. Within(<<>>, Stream(Other(e)), WrittenBy(e, st))
  BY <1>1, <1>4 DEF Within
<1>6. WrittenBy(e, st) + 0 = WrittenBy(e, st)  BY <1>2
<1> QED  BY <1>1, <1>2, <1>5, <1>6
\* What the invariant says of one end.
LEMMA ClientIs ==
    ASSUME IInv, NEW e \in Ends
    PROVE  /\ client[e] = Rec(client[e].state, e = "dialler", client[e].hs, <<>>)
           /\ client[e].hs \in WireHashes \cup {""}
           /\ e = "dialler" => client[e].hs = hash
           /\ hash \in WireHashes
           /\ wire \in [Ends -> Seq(Cells)] /\ wire[e] \in Seq(Cells)
           /\ received \in [Ends -> Nat] /\ received[e] \in Nat
           /\ Other(e) \in Ends /\ Other(e) # e
<1>1. client[e] = Rec(client[e].state, e = "dialler", client[e].hs, <<>>)
  BY DEF IInv, Shape, Rec
<1>2. hash \in WireHashes  BY DEF IInv, Agreed
<1>3. client[e].hs \in WireHashes \cup {""}
      /\ (e = "dialler" => client[e].hs = hash)
  BY DEF IInv, Agreed, hash, Ends
<1>4. wire \in [Ends -> Seq(Cells)] /\ wire[e] \in Seq(Cells)
  BY DEF IInv, Shape
<1>5. received \in [Ends -> Nat] /\ received[e] \in Nat
  BY DEF IInv, Types
<1> QED  BY <1>1, <1>2, <1>3, <1>4, <1>5, EndsAre

\* Each callback keeps the invariant: that of a connection that ended,
LEMMA OnClosedStep ==
    ASSUME IInv, NEW e \in Ends, OnClosed(e)
    PROVE  IInv'
<1> DEFINE hs == client[e].hs
           k == (e = "dialler")
<1>1. client[e] = Rec(client[e].state, k, hs, <<>>)  BY ClientIs
<1>2. client' = [client EXCEPT ![e] = Rec("Freed", k, hs, <<>>)]
  <2>1. Destroyed(client[e]) = Rec("Freed", k, hs, <<>>)
    <3> DEFINE s == client[e].state
    <3>1. client[e] = Rec(s, k, hs, <<>>)  BY <1>1
    <3> HIDE DEF s, k, hs
    <3>2. Destroyed(Rec(s, k, hs, <<>>)) = Rec("Freed", k, hs, <<>>)
      BY RecFreed
    <3> QED  BY <3>1, <3>2
  <2>2. client' = [client EXCEPT ![e] = Destroyed(client[e])]
    BY DEF OnClosed
  <2> QED  BY <2>1, <2>2
<1>3. wire \in [Ends -> Seq(Cells)] /\ wire' = [wire EXCEPT ![e] = <<>>]
      /\ Other(e) \in Ends /\ Other(e) # e
  BY ClientIs DEF OnClosed
<1>4. /\ wire' \in [Ends -> Seq(Cells)]
      /\ wire'[e] = <<>> /\ wire'[Other(e)] = wire[Other(e)]
  <2>1. <<>> \in Seq(Cells)  OBVIOUS
  <2> HIDE DEF Cells
  <2> QED  BY <1>3, <2>1
<1>5. received' = [received EXCEPT ![e] = @ + 0] /\ 0 \in 0 .. Len(wire[e])
  <2>1. received \in [Ends -> Nat] /\ wire[e] \in Seq(Cells)  BY ClientIs
  <2>2. received' = received  BY DEF OnClosed
  <2>3. Len(wire[e]) \in Nat  BY <2>1
  <2> QED  BY <2>1, <2>2, <2>3
<1>6. Moves(e, "Freed", hs, 0, <<>>)
  <2>1. <<>> \in Seq(Cells)  OBVIOUS
  <2>2. UNCHANGED <<peer_id, h_torrent_data, lost>>  BY DEF OnClosed
  <2>3. packet_ends' \in [Ends -> SUBSET Nat]  BY DEF OnClosed, IInv, Types
  <2>4. hs \in WireHashes \cup {""}  BY ClientIs
  <2> QED  BY <1>2, <1>4, <1>5, <2>1, <2>2, <2>3, <2>4 DEF Moves
<1>7. Fits(e, "Freed", hs, 0, <<>>)
  <2>1. e = "dialler" => hs = hash  BY ClientIs
  <2> QED  BY <2>1 DEF Fits, Shaken
<1>8. client[e].state # "Freed"  BY DEF OnClosed
<1> QED  BY <1>6, <1>7, <1>8, ClientStep

\* that of CONNECTED,
LEMMA OnConnectedStep ==
    ASSUME IInv, OnConnected
    PROVE  IInv'
<1> DEFINE e == "dialler"
           out == Cellular(e, hash, <<"handshake">>)
<1>0. e \in Ends /\ Other(e) = "acceptor"  BY DEF Ends, Other
<1>1. /\ client[e].state = "Connecting"
      /\ client' = [client EXCEPT ![e].state = "ReadingHandshake"]
      /\ Send(e, hash, <<"handshake">>, wire, packet_ends)
      /\ UNCHANGED <<peer_id, h_torrent_data, lost, received>>
  BY DEF OnConnected, hash
<1>2. client[e] = Rec("Connecting", TRUE, hash, <<>>)
  BY <1>0, <1>1, ClientIs
<1>3. client' = [client EXCEPT
                    ![e] = Rec("ReadingHandshake", e = "dialler", hash, <<>>)]
  <2>1. [client[e] EXCEPT !.state = "ReadingHandshake"]
          = Rec("ReadingHandshake", TRUE, hash, <<>>)
    <3> DEFINE c == client[e]
               k == TRUE
    <3>1. c = Rec("Connecting", k, hash, <<>>)  BY <1>2
    <3> HIDE DEF c, k
    <3>2. [c EXCEPT !.state = "ReadingHandshake"]
            = Rec("ReadingHandshake", k, hash, <<>>)
      BY ONLY <3>1 DEF Rec
    <3> QED  BY <3>2 DEF c, k
  <2>2. client' = [client EXCEPT
                      ![e] = [client[e] EXCEPT !.state = "ReadingHandshake"]]
    BY <1>1
  <2> QED  BY <2>1, <2>2
<1>4. /\ packet_ends' \in [Ends -> SUBSET Nat]
      /\ out \in Seq(Cells)
      /\ client[Other(e)].state = "Freed" => wire' = wire
      /\ client[Other(e)].state # "Freed" =>
            wire' = [wire EXCEPT ![Other(e)] = @ \o out]
  <2>1. hash \in WireHashes /\ wire \in [Ends -> Seq(Cells)]
    BY <1>0, ClientIs
  <2>2. packet_ends \in [Ends -> SUBSET Nat]  BY DEF IInv, Types
  <2>3. <<"handshake">> \in Outs  BY DEF Outs
  <2> HIDE DEF e
  <2> QED  BY <1>0, <1>1, <2>1, <2>2, <2>3, SendEffect
<1> HIDE DEF out
<1>5. /\ wire \in [Ends -> Seq(Cells)] /\ wire[e] \in Seq(Cells)
      /\ wire[Other(e)] \in Seq(Cells)
      /\ received \in [Ends -> Nat] /\ received[e] = 0
  BY <1>0, <1>1, EndsAre, ClientIs DEF IInv, Progress
<1>6. Rest(wire[e], 0) = wire[e] /\ 0 \in 0 .. Len(wire[e])
  <2>1. Len(wire[e]) \in Nat  BY <1>5
  <2>2. 0 \in 0 .. Len(wire[e])  BY <2>1
  <2> DEFINE w == wire[e]
             v == Rest(w, 0)
  <2>3. v \in Seq(Cells) /\ Len(v) = Len(w) - 0
        /\ \A i \in 1 .. Len(w) - 0 : v[i] = w[0 + i]
    BY <1>5, <2>2, Cut
  <2> HIDE DEF v
  <2>4. Len(v) = Len(w) /\ \A i \in 1 .. Len(v) : v[i] = w[i]
    BY <2>1, <2>3
  <2>5. v = w  BY <1>5, <2>3, <2>4, Same
  <2> QED  BY <2>2, <2>5 DEF v
<1>7. /\ wire' \in [Ends -> Seq(Cells)]
      /\ wire'[e] = Rest(wire[e], 0)
      /\ wire'[Other(e)] = IF client[Other(e)].state = "Freed"
                           THEN wire[Other(e)] ELSE wire[Other(e)] \o out
  <2> DEFINE f == Other(e)
             b == wire[f] \o out
             freed == client[f].state = "Freed"
  <2>1. b \in Seq(Cells)  BY <1>4, <1>5, Joined
  <2>2. e \in Ends /\ f \in Ends /\ f # e  BY <1>0, EndsAre
  <2>3. /\ freed => wire' = wire
        /\ ~freed => wire' = [wire EXCEPT ![f] = b]
    BY <1>4
  <2> HIDE DEF e, f, b, freed
  <2>4. /\ wire' \in [Ends -> Seq(Cells)] /\ wire'[e] = wire[e]
        /\ wire'[f] = IF freed THEN wire[f] ELSE b
    BY <1>5, <2>1, <2>2, <2>3
  <2> QED  BY <1>6, <2>4 DEF f, b, freed
<1>8. received' = [received EXCEPT ![e] = @ + 0]  BY <1>1, <1>5
<1>9. Moves(e, "ReadingHandshake", hash, 0, out)
  <2>1. hash \in WireHashes \cup {""}  BY <1>0, ClientIs
  <2>2. UNCHANGED <<peer_id, h_torrent_data, lost>>  BY <1>1
  <2> QED  BY <1>3, <1>4, <1>6, <1>7, <1>8, <2>1, <2>2 DEF Moves
<1>10. Fits(e, "ReadingHandshake", hash, 0, out)
  <2>1. Within(out, Stream(Other(e)), 0) /\ Len(out) = 4
    BY <1>0, HandshakesFit DEF out
  <2>2. Written(e) = 0 /\ WrittenBy(e, "ReadingHandshake") = 4
    BY <1>1 DEF Written, WrittenBy
  <2>3. received[e] + 0 = 0 /\ Written(e) + Len(out) = 4
    BY <1>5, <2>1, <2>2
  <2> QED  BY <2>1, <2>2, <2>3 DEF Fits
<1> QED  BY <1>0, <1>1, <1>9, <1>10, ClientStep
\* Nothing is appended.
LEMMA JoinedNone ==
    ASSUME NEW S, NEW s \in Seq(S) PROVE s \o <<>> = s
<1> DEFINE j == s \o <<>>
<1>1. <<>> \in Seq(S) /\ Len(<<>>) = 0 /\ Len(s) \in Nat  OBVIOUS
<1>2. /\ j \in Seq(S) /\ Len(j) = Len(s) + 0
      /\ \A k \in 1 .. Len(s) + 0 :
            j[k] = IF k <= Len(s) THEN s[k] ELSE <<>>[k - Len(s)]
  BY <1>1, Joined
<1> HIDE DEF j
<1>3. Len(j) = Len(s) /\ \A k \in 1 .. Len(j) : j[k] = s[k]
  BY <1>1, <1>2
<1>4. j = s  BY <1>2, <1>3, Same
<1> QED  BY <1>4 DEF j

\* The read callback keeps the invariant, wherever TCP cut the stream.
LEMMA OnReadStep ==
    ASSUME IInv, NEW e \in Ends, OnRead(e)
    PROVE  IInv'
<1> DEFINE k == (e = "dialler")
           f == Other(e)
<1>1. client[e].state \notin {"Connecting", "Freed"}  BY DEF OnRead
<1>2. PICK n \in 1 .. Len(wire[e]) :
         LET after == After(e, n)
             freed == after.state = "Freed"
         IN  /\ client' = [client EXCEPT ![e] = [after EXCEPT !.out = <<>>]]
             /\ Send(e, after.hs, IF freed THEN <<>> ELSE after.out,
                     [wire EXCEPT ![e] = IF freed THEN <<>> ELSE Rest(@, n)],
                     packet_ends)
             /\ received' = [received EXCEPT ![e] = @ + n]
  BY DEF OnRead, After, Found, Buffer
<1>3. PICK st, hs, o :
         /\ After(e, n) = Rec(st, k, hs, o)
         /\ k => hs = hash
         /\ hs \in WireHashes \cup {""}
         /\ \/ st = "Freed"
            \/ /\ client[e].state = "ReadingHandshake"
               /\ st = "ReadingPeerID" /\ n = 2
               /\ hs = hash /\ hash \in h_torrent_data[e]
               /\ o = IF k THEN <<>> ELSE <<"handshake">>
            \/ /\ client[e].state = "ReadingHandshake"
               /\ st = "Ready" /\ n >= 4 /\ ~SelfConnected
               /\ hs = hash /\ hash \in h_torrent_data[e]
               /\ o = IF k THEN <<"interested">> ELSE <<"handshake", "bitfield">>
            \/ /\ client[e].state = "ReadingPeerID"
               /\ st = "Ready" /\ n >= 2 /\ ~SelfConnected
               /\ hs = hash /\ hash \in h_torrent_data[e]
               /\ o = IF k THEN <<"interested">> ELSE <<"bitfield">>
            \/ /\ client[e].state = "Ready"
               /\ st = "Ready" /\ hs = client[e].hs /\ o = <<>>
  BY <1>1, ReadResult
<1> DEFINE freed == st = "Freed"
           sent == IF freed THEN <<>> ELSE o
           out == Cellular(e, hs, sent)
           w == [wire EXCEPT ![e] = IF freed THEN <<>> ELSE Rest(@, n)]
<1>4. /\ client' = [client EXCEPT ![e] = Rec(st, k, hs, <<>>)]
      /\ Send(e, hs, sent, w, packet_ends)
      /\ received' = [received EXCEPT ![e] = @ + n]
  <2> DEFINE after == After(e, n)
  <2>1. after.state = st /\ after.hs = hs /\ after.out = o
    <3>1. after = Rec(st, k, hs, o)  BY <1>3
    <3> HIDE DEF after, k
    <3> QED  BY <3>1, RecFields
  <2>2. [after EXCEPT !.out = <<>>] = Rec(st, k, hs, <<>>)
    <3>1. after = Rec(st, k, hs, o)  BY <1>3
    <3> HIDE DEF after, k
    <3> QED  BY ONLY <3>1 DEF Rec
  <2> HIDE DEF after
  <2> QED  BY <1>2, <2>1, <2>2 DEF after
<1>5. /\ wire \in [Ends -> Seq(Cells)] /\ wire[e] \in Seq(Cells)
      /\ wire[f] \in Seq(Cells) /\ received[e] \in Nat
      /\ hash \in WireHashes /\ f \in Ends /\ f # e
  BY ClientIs
<1>6. n \in Nat /\ n >= 1 /\ n \in 0 .. Len(wire[e])
  <2>1. Len(wire[e]) \in Nat  BY <1>5
  <2> QED  BY <2>1
<1>7. sent \in Outs /\ (hs \in WireHashes \/ sent = <<>>)
      /\ (freed => sent = <<>>)
  BY <1>3, <1>5 DEF Outs
<1>8. /\ w \in [Ends -> Seq(Cells)] /\ w[f] = wire[f]
      /\ w[e] = IF freed THEN <<>> ELSE Rest(wire[e], n)
  <2>1. Rest(wire[e], n) \in Seq(Cells)  BY <1>5, <1>6, Cut
  <2>2. <<>> \in Seq(Cells)  OBVIOUS
  <2> HIDE DEF f, freed
  <2> QED  BY ONLY <1>5, <2>1, <2>2
<1>9. packet_ends \in [Ends -> SUBSET Nat]  BY DEF IInv, Types
<1> HIDE DEF w, sent, freed
<1>10. /\ packet_ends' \in [Ends -> SUBSET Nat]
       /\ out \in Seq(Cells)
       /\ client[f].state = "Freed" => wire' = w
       /\ client[f].state # "Freed" =>
             wire' = [w EXCEPT ![f] = @ \o out]
  BY <1>4, <1>7, <1>8, <1>9, SendEffect
<1>11. freed => out = <<>>  BY <1>7 DEF Cellular
<1> HIDE DEF out
<1>12. /\ wire' \in [Ends -> Seq(Cells)]
       /\ wire'[e] = IF freed THEN <<>> ELSE Rest(wire[e], n)
       /\ wire'[f] = IF freed \/ client[f].state = "Freed"
                     THEN wire[f] ELSE wire[f] \o out
  <2> DEFINE b == wire[f] \o out
             gone == client[f].state = "Freed"
  <2>1. b \in Seq(Cells)  BY <1>5, <1>10, Joined
  <2>2. freed => b = wire[f]
    <3>1. wire[f] \o <<>> = wire[f]  BY <1>5, JoinedNone
    <3> QED  BY <1>11, <3>1
  <2>3. /\ gone => wire' = w
        /\ ~gone => wire' = [w EXCEPT ![f] = b]
    BY <1>8, <1>10
  <2> HIDE DEF f, b, gone
  <2>4. /\ wire' \in [Ends -> Seq(Cells)] /\ wire'[e] = w[e]
        /\ wire'[f] = IF gone THEN wire[f] ELSE b
    BY <1>5, <1>8, <2>1, <2>3
  <2> QED  BY <1>8, <2>2, <2>4 DEF b, gone
<1>13. Moves(e, st, hs, n, out)
  <2>1. UNCHANGED <<peer_id, h_torrent_data, lost>>  BY DEF OnRead
  <2>2. st \in {"ReadingHandshake", "ReadingPeerID", "Ready", "Freed"}
    BY <1>3
  <2> QED  BY <1>3, <1>4, <1>6, <1>10, <1>12, <2>1, <2>2 DEF Moves, freed
<1>14. Fits(e, st, hs, n, out)
  <2>0. k => hs = hash  BY <1>3
  <2>1. CASE st = "Freed"  BY <2>0, <2>1 DEF Fits, Shaken
  <2> DEFINE Part ==
               /\ Within(out, Stream(f), Written(e))
               /\ Written(e) + Len(out) = WrittenBy(e, st)
             Good ==
               /\ hs = hash /\ hash \in h_torrent_data[e]
               /\ st = "ReadingPeerID" \/ st = "Ready"
               /\ st = "ReadingPeerID" => received[e] + n = 2
               /\ st = "Ready" => received[e] + n >= 4 /\ ~SelfConnected
  <2>a. ASSUME Good, Part PROVE Fits(e, st, hs, n, out)
    <3>1. st # "Freed" /\ st # "ReadingHandshake"  BY <2>a
    <3>2. e = "acceptor" => hash \in h_torrent_data["acceptor"]  BY <2>a
    <3> HIDE DEF f
    <3> QED  BY <2>0, <2>a, <3>1, <3>2 DEF Fits, f
  <2> HIDE DEF k
  <2>2. CASE /\ client[e].state = "ReadingHandshake"
             /\ st = "ReadingPeerID" /\ n = 2
             /\ hs = hash /\ hash \in h_torrent_data[e]
             /\ o = IF k THEN <<>> ELSE <<"handshake">>
    <3>1. received[e] = 0  BY <2>2 DEF IInv, Progress
    <3>2. Good  BY <2>2, <3>1
    <3>3. out = Cellular(e, hash, o)  BY <2>2 DEF out, sent, freed
    <3>4. Written(e) = (IF k THEN 4 ELSE 0) /\ WrittenBy(e, st) = 4
      BY <2>2 DEF Written, WrittenBy, k
    <3>5. CASE k
      <4>1. out = <<>>  BY <2>2, <3>3, <3>5 DEF Cellular
      <4>2. Within(<<>>, Stream(f), WrittenBy(e, st))
            /\ WrittenBy(e, st) + Len(<<>>) = WrittenBy(e, st)
        BY <2>2, NothingFits
      <4>3. Part  BY <3>4, <3>5, <4>1, <4>2
      <4> QED  BY <2>a, <3>2, <4>3
    <3>6. CASE ~k
      <4>1. Within(out, Stream(f), 0) /\ Len(out) = 4
        BY <2>2, <3>3, <3>6, HandshakesFit
      <4>2. Part  BY <3>4, <3>6, <4>1
      <4> QED  BY <2>a, <3>2, <4>2
    <3> QED  BY <2>a, <3>5, <3>6
  <2>3. CASE /\ client[e].state = "ReadingHandshake"
             /\ st = "Ready" /\ n >= 4 /\ ~SelfConnected
             /\ hs = hash /\ hash \in h_torrent_data[e]
             /\ o = IF k THEN <<"interested">> ELSE <<"handshake", "bitfield">>
    <3>1. received[e] = 0  BY <2>3 DEF IInv, Progress
    <3>2. Good  BY <1>6, <2>3, <3>1
    <3>3. out = Cellular(e, hash, o)  BY <2>3 DEF out, sent, freed
    <3>4. Written(e) = (IF k THEN 4 ELSE 0)
          /\ WrittenBy(e, st) = (IF k THEN 9 ELSE 10)
      BY <2>3 DEF Written, WrittenBy, k
    <3>5. CASE k
      <4>1. e = "dialler" /\ f = "acceptor"  BY <3>5 DEF k, Other
      <4>2. Within(out, Stream(f), 4) /\ Len(out) = 5
        BY <2>3, <3>3, <3>5, <4>1, InterestedFits
      <4>3. Part  BY <3>4, <3>5, <4>2
      <4> QED  BY <2>a, <3>2, <4>3
    <3>6. CASE ~k
      <4>1. e = "acceptor" /\ f = "dialler"  BY <3>6 DEF k, Other, Ends
      <4>2. Within(out, Stream(f), 0) /\ Len(out) = 10
        BY <2>3, <3>3, <3>6, <4>1, BothFit
      <4>3. Part  BY <3>4, <3>6, <4>2
      <4> QED  BY <2>a, <3>2, <4>3
    <3> QED  BY <3>5, <3>6
  <2>4. CASE /\ client[e].state = "ReadingPeerID"
             /\ st = "Ready" /\ n >= 2 /\ ~SelfConnected
             /\ hs = hash /\ hash \in h_torrent_data[e]
             /\ o = IF k THEN <<"interested">> ELSE <<"bitfield">>
    <3>1. received[e] = 2  BY <2>4 DEF IInv, Progress
    <3>2. Good  BY <1>6, <2>4, <3>1
    <3>3. out = Cellular(e, hash, o)  BY <2>4 DEF out, sent, freed
    <3>4. Written(e) = 4 /\ WrittenBy(e, st) = (IF k THEN 9 ELSE 10)
      BY <2>4 DEF Written, WrittenBy, k
    <3>5. CASE k
      <4>1. e = "dialler" /\ f = "acceptor"  BY <3>5 DEF k, Other
      <4>2. Within(out, Stream(f), 4) /\ Len(out) = 5
        BY <2>4, <3>3, <3>5, <4>1, InterestedFits
      <4>3. Part  BY <3>4, <3>5, <4>2
      <4> QED  BY <2>a, <3>2, <4>3
    <3>6. CASE ~k
      <4>1. e = "acceptor" /\ f = "dialler"  BY <3>6 DEF k, Other, Ends
      <4>2. Within(out, Stream(f), 4) /\ Len(out) = 6
        BY <2>4, <3>3, <3>6, <4>1, BitfieldFits
      <4>3. Part  BY <3>4, <3>6, <4>2
      <4> QED  BY <2>a, <3>2, <4>3
    <3> QED  BY <3>5, <3>6
  <2>5. CASE /\ client[e].state = "Ready"
             /\ st = "Ready" /\ hs = client[e].hs /\ o = <<>>
    <3>1. received[e] >= 4 /\ ~SelfConnected  BY <2>5 DEF IInv, Progress
    <3>2. hs = hash /\ hash \in h_torrent_data[e]
      BY <2>0, <2>5 DEF IInv, Agreed, Shaken, Ends, k
    <3>3. Good  BY <1>5, <1>6, <2>5, <3>1, <3>2
    <3>4. out = <<>>  BY <2>5 DEF out, sent, freed, Cellular
    <3>5. Written(e) = WrittenBy(e, st)  BY <2>5 DEF Written
    <3>6. Within(<<>>, Stream(f), WrittenBy(e, st))
          /\ WrittenBy(e, st) + Len(<<>>) = WrittenBy(e, st)
      BY <2>5, NothingFits
    <3>7. Part  BY <3>4, <3>5, <3>6
    <3> QED  BY <2>a, <3>3, <3>7
  <2> QED  BY <1>3, <2>1, <2>2, <2>3, <2>4, <2>5
<1>15. client[e].state # "Freed"  BY <1>1
<1> QED  BY <1>13, <1>14, <1>15, ClientStep
-----------------------------------------------------------------------------
(***************************************************************************)
(* The theorems                                                            *)
(***************************************************************************)
LEMMA NextIInv == IInv /\ [Next]_vars => IInv'
<1> SUFFICES ASSUME IInv, [Next]_vars PROVE IInv'  OBVIOUS
<1>1. lost \in BOOLEAN /\ h_torrent_data \in [Ends -> SUBSET Torrents]
  BY DEF IInv, Types
<1>2. CASE OnConnected  BY <1>2, OnConnectedStep
<1>3. CASE Lose
  <2>1. lost' \in BOOLEAN /\ UNCHANGED <<peer_id, h_torrent_data, client, wire,
                                       received, packet_ends>>
    BY <1>3 DEF Lose
  <2> QED  BY <1>1, <2>1, FrameStep
<1>4. ASSUME NEW e \in Ends, OnRead(e) PROVE IInv'
  BY <1>4, OnReadStep
<1>5. ASSUME NEW e \in Ends, OnClosed(e) PROVE IInv'
  BY <1>5, OnClosedStep
<1>6. ASSUME NEW e \in Ends, NEW t \in Torrents, AddTorrent(e, t) PROVE IInv'
  <2>1. UNCHANGED <<peer_id, client, wire, lost, received, packet_ends>>
    BY <1>6 DEF AddTorrent
  <2>2. h_torrent_data' \in [Ends -> SUBSET Torrents]
        /\ \A x \in Ends : h_torrent_data[x] \subseteq h_torrent_data'[x]
    BY <1>1, <1>6 DEF AddTorrent
  <2> QED  BY <1>1, <2>1, <2>2, FrameStep
<1>7. CASE UNCHANGED vars
  <2>1. UNCHANGED <<peer_id, h_torrent_data, client, wire, lost, received,
                    packet_ends>>
    BY <1>7 DEF vars
  <2> QED  BY <1>1, <2>1, FrameStep
<1> QED  BY <1>2, <1>3, <1>4, <1>5, <1>6, <1>7 DEF Next

\* In every conversation, what is under way to an end is the next part of one
\* stream known from the start, and an end's stage says where it is in it.
THEOREM Invariant == Spec => []IInv
<1>1. Init => IInv  BY InitIInv
<1>2. IInv /\ [Next]_vars => IInv'  BY NextIInv
<1> QED  BY <1>1, <1>2, PTL DEF Spec

\* The stages, hashes and buffers of the two ends keep their types.
THEOREM TypeCorrect == Spec => []TypeOK
<1>1. IInv => TypeOK  BY IInvTypeOK
<1> QED  BY <1>1, Invariant, PTL

\* Two ends past the handshake agree on a torrent that both nodes have,
\* whatever torrents are registered meanwhile (tbfs_peer_client.c:393-424).
THEOREM SameTorrentAgreed == Spec => []SameTorrent
<1>1. IInv => SameTorrent
  <2> SUFFICES ASSUME IInv, \A e \in Ends : client[e].state \in Shaken
               PROVE  /\ client["dialler"].hs = client["acceptor"].hs
                      /\ \A e \in Ends : client[e].hs \in h_torrent_data[e]
    BY DEF SameTorrent
  <2> QED  BY DEF IInv, Agreed, hash, Ends
<1> QED  BY <1>1, Invariant, PTL

\* A node that dialled itself stops at the id (tbfs_peer_client.c:439), however
\* the handshakes are cut.
THEOREM SelfIsRefused == Spec => []SelfRefused
<1>1. IInv => SelfRefused  BY DEF IInv, Shape, Progress, SelfRefused
<1> QED  BY <1>1, Invariant, PTL

\* No way of cutting what two nodes of this program write to each other makes
\* one of them ask for a piece (tbfs_peer_client.c:475-514).
THEOREM NeverIsAsked == Spec => []NeverAsked
<1>1. IInv => NeverAsked  BY DEF IInv, Shape, NeverAsked
<1> QED  BY <1>1, Invariant, PTL
=============================================================================
