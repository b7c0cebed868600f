--------------------------- MODULE PeerConnProofs ---------------------------
(***************************************************************************)
(* Proofs about PeerConn, for any number of torrents, addresses and places *)
(* in memory.                                                              *)
(*                                                                         *)
(* The properties of one connection rest on how its stage, its socket and  *)
(* its recorded callbacks go together (Socket), and on the torrent of a    *)
(* dialled connection being registered from the start (DiallerKnown).      *)
(* BackPointer also needs that a dialler is chosen among the peers with no *)
(* pointer and is given a place where no client lives: DialResult.         *)
(***************************************************************************)
EXTENDS PeerConn, TLAPS, FiniteSetTheorems

\* A client that is connecting waits for its socket, for its CONNECTED
\* callback or for its end; only a connecting client can do so.
Socket ==
    \A c \in Clients :
        /\ state[c] = "Connecting" =>
               \/ "connected" \in pending[c]
               \/ fd[c] = "dialling" /\ pending[c] = {}
               \/ fd[c] = "shut" /\ pending[c] = {"closed"}
        /\ "connected" \in pending[c] => state[c] = "Connecting"
        /\ fd[c] = "dialling" => state[c] = "Connecting" /\ pending[c] = {}

\* A connecting client was dialled for a registered torrent, the handshake
\* stages were passed with a registered one, and only a client that was dialled
\* waits for a piece.
DiallerKnown ==
    /\ \A p \in h_peers : p[1] \in h_torrent_data
    /\ \A c \in Clients :
           state[c] \in {"Connecting"} \cup Shaken
               => hs_info_hash[c] \in h_torrent_data
    /\ \A c \in Clients : state[c] = "Piece" => peer[c] # NULL

IInv ==
    /\ TypeOK
    /\ BackPointer
    /\ NothingAfterFree
    /\ Socket
    /\ DiallerKnown

USE NullAssumption, AddrsAssumption

-----------------------------------------------------------------------------
(***************************************************************************)
(* What the operators return                                               *)
(***************************************************************************)
\* A read callback moves a client forward or destroys it; it leaves a hash
\* that it has looked up, or the one there was; and only a leecher gets to
\* Piece.
LEMMA ReadCbResult ==
    ASSUME NEW known, NEW cl, NEW in,
           cl = [state |-> cl.state, leecher |-> cl.leecher, hs |-> cl.hs,
                 out |-> cl.out],
           cl.state \in Stages, cl.leecher \in BOOLEAN
    PROVE  LET after == ReadCb(cl, in, known)
           IN  /\ after.state \in Stages \cup {"Freed"}
               /\ after.hs = cl.hs \/ after.hs \in known
               /\ after.state \in Shaken =>
                      \/ after.hs \in known
                      \/ cl.state \in Shaken /\ after.hs = cl.hs
               /\ after.state = "Connecting" =>
                      cl.state = "Connecting" /\ after.hs = cl.hs
               /\ after.state \in Stages =>
                      Position[cl.state] <= Position[after.state]
               /\ after.state = "Piece" => cl.leecher \/ cl.state = "Piece"
<1> DEFINE a == HandshakeStage(cl, in, known)
           b == PeerIDStage(a, in, known)
           d == MessageStage(b, in)
<1>1. /\ a = [state |-> a.state, leecher |-> a.leecher, hs |-> a.hs,
              out |-> a.out]
      /\ a.leecher = cl.leecher
      /\ \/ a.state = cl.state /\ a.hs = cl.hs
         \/ a.state = "Freed" /\ a.hs = cl.hs
         \/ /\ cl.state = "ReadingHandshake" /\ a.state = "ReadingPeerID"
            /\ a.hs \in known
  BY DEF HandshakeStage, Destroyed
<1>2. /\ b = [state |-> b.state, leecher |-> b.leecher, hs |-> b.hs,
              out |-> b.out]
      /\ b.leecher = cl.leecher
      /\ b.hs = a.hs
      /\ \/ b.state = a.state
         \/ b.state = "Freed"
         \/ a.state = "ReadingPeerID" /\ b.state = "Ready"
  BY <1>1 DEF PeerIDStage, Destroyed
<1>3. /\ d.hs = b.hs
      /\ \/ d.state = b.state
         \/ d.state = "Freed"
         \/ b.state = "Ready" /\ d.state = "Piece" /\ cl.leecher
  BY <1>2 DEF MessageStage, Destroyed
<1>4. d = ReadCb(cl, in, known)
  BY DEF ReadCb
<1> HIDE DEF a, b, d
<1>5. QED
  BY <1>1, <1>2, <1>3, <1>4 DEF Stages, Shaken, Position

\* After Dial a client is either as it was, or sits at a place that was free,
\* connecting for one undialled peer that points at it; and the pointers of
\* the other peers are as they were.
LEMMA DialResult ==
    ASSUME TypeOK, NEW dialled \in SUBSET Peers,
           NEW at \in Injection(dialled, Clients \ Live), Dial(at)
    PROVE  /\ peer_client' \in [Peers -> Clients \cup {NULL}]
           /\ \A p \in Peers \ dialled : peer_client'[p] = peer_client[p]
           /\ \A c \in Clients :
                 \/ /\ state'[c] = state[c]
                    /\ peer'[c] = peer[c]
                    /\ hs_info_hash'[c] = hs_info_hash[c]
                    /\ fd'[c] = fd[c]
                 \/ /\ state[c] = "Freed" /\ state'[c] = "Connecting"
                    /\ peer'[c] \in dialled
                    /\ peer_client'[peer'[c]] = c
                    /\ hs_info_hash'[c] = peer'[c][1]
                    /\ fd'[c] = "dialling"
           /\ pending' = pending
<1>1. /\ at \in [dialled -> Clients \ Live]
      /\ DOMAIN at = dialled
      /\ \A p, q \in dialled : at[p] = at[q] => p = q
  BY DEF Injection, IsInjective
<1>2. peer_client' = [p \in Peers |-> IF p \in dialled THEN at[p]
                                      ELSE peer_client[p]]
  BY <1>1 DEF Dial
<1>3. peer_client' \in [Peers -> Clients \cup {NULL}]
  BY <1>1, <1>2 DEF TypeOK
<1>4. \A p \in Peers \ dialled : peer_client'[p] = peer_client[p]
  BY <1>2
<1>5. ASSUME NEW c \in Clients, c \notin Range(at)
      PROVE  /\ state'[c] = state[c]
             /\ peer'[c] = peer[c]
             /\ hs_info_hash'[c] = hs_info_hash[c]
             /\ fd'[c] = fd[c]
  BY <1>5 DEF Dial
<1>6. ASSUME NEW c \in Clients, c \in Range(at)
      PROVE  /\ state[c] = "Freed" /\ state'[c] = "Connecting"
             /\ peer'[c] \in dialled
             /\ peer_client'[peer'[c]] = c
             /\ hs_info_hash'[c] = peer'[c][1]
             /\ fd'[c] = "dialling"
  <2>1. PICK p \in dialled : at[p] = c
    BY <1>1, <1>6 DEF Range
  <2>2. (CHOOSE q \in DOMAIN at : at[q] = c) = p
    BY <1>1, <2>1
  <2>3. peer'[c] = p /\ hs_info_hash'[c] = p[1]
    BY <1>6, <2>2 DEF Dial
  <2>4. state[c] = "Freed"
    BY <1>1, <2>1 DEF Live
  <2>5. state'[c] = "Connecting" /\ fd'[c] = "dialling"
    BY <1>6 DEF Dial
  <2>6. peer_client'[p] = c
    BY <1>2, <2>1
  <2>7. QED
    BY <2>1, <2>3, <2>4, <2>5, <2>6
<1>7. pending' = pending
  BY DEF Dial
<1>8. QED
  BY <1>3, <1>4, <1>5, <1>6, <1>7

-----------------------------------------------------------------------------
(***************************************************************************)
(* The invariant, action by action                                         *)
(***************************************************************************)
LEMMA InitIInv == Init => IInv
<1>1. SUFFICES ASSUME Init PROVE IInv
  OBVIOUS
<1>2. TypeOK
  BY <1>1 DEF Init, TypeOK
<1>3. Live = {}
  BY <1>1 DEF Init, Live
<1>4. BackPointer /\ NothingAfterFree
  BY <1>1, <1>3 DEF Init, BackPointer, NothingAfterFree
<1>5. Socket /\ DiallerKnown
  BY <1>1 DEF Init, Socket, DiallerKnown, Shaken
<1>6. QED
  BY <1>2, <1>4, <1>5 DEF IInv

\* A command adds no peer and no connection.
LEMMA AddTorrentIInv ==
    ASSUME IInv, NEW t \in Torrents, AddTorrent(t)
    PROVE  IInv'
BY DEF IInv, TypeOK, BackPointer, NothingAfterFree, Socket, DiallerKnown,
       Live, AddTorrent, clientVars

\* What TrackerAnswers does to the peers, before any of them dials.
LEMMA AddPeersResult ==
    ASSUME IInv, NEW t \in h_torrent_data, NEW addrs \in SUBSET Addrs,
           AddPeers(t, addrs)
    PROVE  /\ h_peers' \in SUBSET Peers
           /\ h_peers \subseteq h_peers'
           /\ peer_count' \in [Torrents -> Nat]
           /\ \A p \in h_peers' : p[1] \in h_torrent_data
<1> DEFINE listed == {t} \X addrs
<1>1. t \in Torrents /\ listed \in SUBSET Peers
  BY DEF IInv, TypeOK, Peers
<1>2. Cardinality(listed \ h_peers) \in Nat
  <2>1. IsFiniteSet(addrs)
    BY FS_Subset
  <2>2. IsFiniteSet({t})
    BY FS_Singleton
  <2>3. IsFiniteSet(listed)
    BY <2>1, <2>2, FS_Product
  <2>4. IsFiniteSet(listed \ h_peers)
    BY <2>3, FS_Subset
  <2>5. QED
    BY <2>4, FS_CardinalityType
<1>3. h_peers' = h_peers \cup listed
  BY DEF AddPeers
<1>4. peer_count' \in [Torrents -> Nat]
  <2>1. peer_count' = [peer_count EXCEPT ![t] =
                           @ + Cardinality(listed \ h_peers)]
    BY DEF AddPeers
  <2> HIDE DEF listed
  <2>2. peer_count[t] + Cardinality(listed \ h_peers) \in Nat
    <3>1. peer_count[t] \in Nat
      BY <1>1 DEF IInv, TypeOK
    <3>2. QED
      BY <1>2, <3>1
  <2>3. QED
    BY <1>1, <2>1, <2>2 DEF IInv, TypeOK
<1>5. \A p \in listed : p[1] = t
  OBVIOUS
<1>6. \A p \in h_peers' : p[1] \in h_torrent_data
  BY <1>3, <1>5 DEF IInv, DiallerKnown
<1>7. QED
  BY <1>1, <1>3, <1>4, <1>6 DEF IInv, TypeOK

\* An answer adds peers and dials, with memory that may have been another's.
LEMMA TrackerAnswersIInv ==
    ASSUME IInv, NEW t \in Torrents, NEW addrs \in SUBSET Addrs,
           TrackerAnswers(t, addrs)
    PROVE  IInv'
<1>1. /\ h_peers' \in SUBSET Peers
      /\ h_peers \subseteq h_peers'
      /\ peer_count' \in [Torrents -> Nat]
      /\ \A p \in h_peers' : p[1] \in h_torrent_data
  BY AddPeersResult DEF TrackerAnswers
<1>2. h_torrent_data' = h_torrent_data /\ want' = want
  BY DEF TrackerAnswers
<1>3. CASE UNCHANGED <<peer_client, clientVars>>
  BY <1>1, <1>2, <1>3 DEF IInv, TypeOK, BackPointer, NothingAfterFree, Socket,
                          DiallerKnown, Live, clientVars
<1>4. ASSUME NEW dialled \in SUBSET Undialled(t),
             NEW at \in Injection(dialled, Clients \ Live), Dial(at)
      PROVE  IInv'
  <2>1. dialled \in SUBSET Peers
    BY <1>1 DEF Undialled
  <2>2. \A p \in dialled : /\ p \in h_peers' /\ p[1] \in h_torrent_data
                           /\ peer_client[p] = NULL
    BY <1>1 DEF Undialled
  <2>3. /\ peer_client' \in [Peers -> Clients \cup {NULL}]
        /\ \A p \in Peers \ dialled : peer_client'[p] = peer_client[p]
        /\ \A c \in Clients :
              \/ /\ state'[c] = state[c]
                 /\ peer'[c] = peer[c]
                 /\ hs_info_hash'[c] = hs_info_hash[c]
                 /\ fd'[c] = fd[c]
              \/ /\ state[c] = "Freed" /\ state'[c] = "Connecting"
                 /\ peer'[c] \in dialled
                 /\ peer_client'[peer'[c]] = c
                 /\ hs_info_hash'[c] = peer'[c][1]
                 /\ fd'[c] = "dialling"
        /\ pending' = pending
    BY <1>4, <2>1, DialResult DEF IInv
  <2>4. TypeOK'
    <3>1. state' \in [Clients -> Stages \cup {"Freed"}]
      <4>1. ASSUME NEW c \in Clients
            PROVE  state'[c] \in Stages \cup {"Freed"}
        <5>1. state[c] \in Stages \cup {"Freed"}
          BY DEF IInv, TypeOK
        <5>2. "Connecting" \in Stages
          BY DEF Stages
        <5>3. QED
          BY <2>3, <5>1, <5>2
      <4>2. state' = [c \in Clients |-> state'[c]]
        BY <1>4 DEF Dial
      <4>3. QED
        BY <4>1, <4>2
    <3>2. peer' \in [Clients -> Peers \cup {NULL}]
      <4>1. ASSUME NEW c \in Clients
            PROVE  peer'[c] \in Peers \cup {NULL}
        <5>1. peer[c] \in Peers \cup {NULL}
          BY DEF IInv, TypeOK
        <5>2. QED
          BY <2>1, <2>3, <5>1
      <4>2. peer' = [c \in Clients |-> peer'[c]]
        BY <1>4 DEF Dial
      <4>3. QED
        BY <4>1, <4>2
    <3>3. hs_info_hash' \in [Clients -> Torrents \cup WireHashes \cup {""}]
      <4>1. \A c \in Clients :
               hs_info_hash'[c] \in Torrents \cup WireHashes \cup {""}
        <5>1. SUFFICES ASSUME NEW c \in Clients
                       PROVE  hs_info_hash'[c] \in
                                  Torrents \cup WireHashes \cup {""}
          OBVIOUS
        <5>2. \A p \in dialled : p[1] \in Torrents
          BY <2>2 DEF IInv, TypeOK
        <5>3. hs_info_hash[c] \in Torrents \cup WireHashes \cup {""}
          BY DEF IInv, TypeOK
        <5>4. QED
          BY <2>3, <5>2, <5>3
      <4>2. hs_info_hash' = [c \in Clients |-> hs_info_hash'[c]]
        BY <1>4 DEF Dial
      <4>3. QED
        BY <4>1, <4>2
    <3>4. fd' \in [Clients -> {"none", "dialling", "open", "shut"}]
      BY <1>4, <2>3 DEF IInv, TypeOK, Dial
    <3>5. QED
      BY <1>1, <1>2, <2>3, <3>1, <3>2, <3>3, <3>4 DEF IInv, TypeOK
  <2>5. BackPointer'
    <3>1. SUFFICES ASSUME NEW c \in Clients, state'[c] # "Freed",
                          peer'[c] # NULL
                   PROVE  peer'[c] \in h_peers' /\ peer_client'[peer'[c]] = c
      BY DEF BackPointer, Live
    <3>2. CASE state'[c] = state[c] /\ peer'[c] = peer[c]
      <4>1. peer[c] \in h_peers /\ peer_client[peer[c]] = c
        BY <3>1, <3>2 DEF IInv, BackPointer, Live
      <4>2. peer[c] \notin dialled
        BY <2>2, <4>1, NullAssumption
      <4>3. peer[c] \in Peers
        BY <4>1 DEF IInv, TypeOK
      <4>4. QED
        BY <1>1, <2>3, <3>2, <4>1, <4>2, <4>3
    <3>3. CASE ~(state'[c] = state[c] /\ peer'[c] = peer[c])
      BY <2>2, <2>3, <3>3
    <3>4. QED
      BY <3>2, <3>3
  <2>6. NothingAfterFree' /\ Socket'
    BY <2>3 DEF IInv, NothingAfterFree, Socket, Live
  <2>7. DiallerKnown'
    BY <1>1, <1>2, <2>2, <2>3 DEF IInv, DiallerKnown
  <2>8. QED
    BY <2>4, <2>5, <2>6, <2>7 DEF IInv
<1>5. QED
  BY <1>3, <1>4 DEF TrackerAnswers, PeersUpdated

\* The actions of one connection: they leave the tables alone and give client c
\* a new stage, peer, hash, set of callbacks and socket.
LEMMA OneClient ==
    ASSUME IInv, UNCHANGED mngVars, NEW c \in Clients,
           NEW st, NEW pr, NEW hs, NEW cb, NEW sk,
           state'        = [state        EXCEPT ![c] = st],
           peer'         = [peer         EXCEPT ![c] = pr],
           hs_info_hash' = [hs_info_hash EXCEPT ![c] = hs],
           pending'      = [pending      EXCEPT ![c] = cb],
           fd'           = [fd           EXCEPT ![c] = sk],
           st \in Stages \cup {"Freed"},
           pr = NULL \/ (pr = peer[c] /\ state[c] # "Freed"),
           hs \in Torrents \cup WireHashes \cup {""},
           cb \in SUBSET {"connected", "read", "closed"},
           sk \in {"none", "dialling", "open", "shut"},
           st = "Freed" => cb = {} /\ sk = "none",
           st = "Connecting" => \/ "connected" \in cb
                                \/ sk = "dialling" /\ cb = {}
                                \/ sk = "shut" /\ cb = {"closed"},
           "connected" \in cb => st = "Connecting",
           sk = "dialling" => st = "Connecting" /\ cb = {},
           st \in {"Connecting"} \cup Shaken => hs \in h_torrent_data,
           st = "Piece" => pr # NULL
    PROVE  IInv'
<1>1. /\ state'[c] = st /\ peer'[c] = pr /\ hs_info_hash'[c] = hs
      /\ pending'[c] = cb /\ fd'[c] = sk
  BY DEF IInv, TypeOK
<1>2. \A d \in Clients \ {c} :
         /\ state'[d] = state[d] /\ peer'[d] = peer[d]
         /\ hs_info_hash'[d] = hs_info_hash[d]
         /\ pending'[d] = pending[d] /\ fd'[d] = fd[d]
  BY DEF IInv, TypeOK
<1>3. TypeOK'
  <2>1. pr \in Peers \cup {NULL}
    BY DEF IInv, TypeOK
  <2>2. QED
    BY <2>1 DEF IInv, TypeOK, mngVars
<1>4. BackPointer'
  <2>1. SUFFICES ASSUME NEW d \in Clients, state'[d] # "Freed",
                        peer'[d] # NULL
                 PROVE  peer'[d] \in h_peers' /\ peer_client'[peer'[d]] = d
    BY DEF BackPointer, Live
  <2>2. state[d] # "Freed" /\ peer[d] = peer'[d]
    BY <1>1, <1>2, <2>1
  <2>3. peer[d] \in h_peers /\ peer_client[peer[d]] = d
    BY <2>1, <2>2 DEF IInv, BackPointer, Live
  <2>4. h_peers' = h_peers /\ peer_client' = peer_client
    BY DEF mngVars
  <2>5. peer'[d] \in h_peers'
    <3>1. peer'[d] \in h_peers
      BY <2>2, <2>3
    <3>2. QED
      BY <2>4, <3>1
  <2>6. peer_client'[peer'[d]] = peer_client[peer[d]]
    BY <2>2, <2>4
  <2>7. QED
    BY <2>3, <2>5, <2>6
<1>5. NothingAfterFree'
  BY <1>1, <1>2 DEF IInv, NothingAfterFree, Live
<1>6. Socket'
  BY <1>1, <1>2 DEF IInv, Socket
<1>7. DiallerKnown'
  <2>1. h_peers' = h_peers /\ h_torrent_data' = h_torrent_data
    BY DEF mngVars
  <2>2. ASSUME NEW d \in Clients, state'[d] \in {"Connecting"} \cup Shaken
        PROVE  hs_info_hash'[d] \in h_torrent_data
    <3>1. CASE d = c
      BY <1>1, <2>2, <3>1
    <3>2. CASE d # c
      BY <1>2, <2>2, <3>2 DEF IInv, DiallerKnown
    <3>3. QED
      BY <3>1, <3>2
  <2>3. ASSUME NEW d \in Clients, state'[d] = "Piece" PROVE peer'[d] # NULL
    BY <1>1, <1>2, <2>3 DEF IInv, DiallerKnown
  <2>4. QED
    BY <2>1, <2>2, <2>3 DEF IInv, DiallerKnown
<1>8. QED
  BY <1>3, <1>4, <1>5, <1>6, <1>7 DEF IInv

\* What OneClient needs of a client that an action leaves as it was.
LEMMA SameClient ==
    ASSUME IInv, NEW c \in Clients
    PROVE  /\ state = [state EXCEPT ![c] = state[c]]
           /\ peer = [peer EXCEPT ![c] = peer[c]]
           /\ hs_info_hash = [hs_info_hash EXCEPT ![c] = hs_info_hash[c]]
           /\ pending = [pending EXCEPT ![c] = pending[c]]
           /\ fd = [fd EXCEPT ![c] = fd[c]]
           /\ state[c] \in Stages \cup {"Freed"}
           /\ hs_info_hash[c] \in Torrents \cup WireHashes \cup {""}
           /\ pending[c] \in SUBSET {"connected", "read", "closed"}
           /\ fd[c] \in {"none", "dialling", "open", "shut"}
BY DEF IInv, TypeOK

\* The parts of the invariant that are about client c.
LEMMA ClientFacts ==
    ASSUME IInv, NEW c \in Clients
    PROVE  /\ state[c] = "Freed" => pending[c] = {} /\ fd[c] = "none"
           /\ state[c] = "Connecting" =>
                  \/ "connected" \in pending[c]
                  \/ fd[c] = "dialling" /\ pending[c] = {}
                  \/ fd[c] = "shut" /\ pending[c] = {"closed"}
           /\ "connected" \in pending[c] => state[c] = "Connecting"
           /\ fd[c] = "dialling" => state[c] = "Connecting" /\ pending[c] = {}
           /\ state[c] \in {"Connecting"} \cup Shaken =>
                  hs_info_hash[c] \in h_torrent_data
           /\ state[c] = "Piece" => peer[c] # NULL
BY DEF IInv, NothingAfterFree, Socket, DiallerKnown, Live

\* An accepted connection has no Peer.
LEMMA AcceptIInv ==
    ASSUME IInv, NEW c \in Clients, Accept(c)
    PROVE  IInv'
<1>1. pending[c] = {}
  BY ClientFacts DEF Accept, Live
<1>2. pending' = [pending EXCEPT ![c] = {}]
  BY <1>1, SameClient DEF Accept
<1>3. UNCHANGED mngVars
  BY DEF Accept
<1>4. "ReadingHandshake" \in Stages /\ "ReadingHandshake" \notin Shaken
  BY DEF Stages, Shaken
<1>5. QED
  BY <1>2, <1>3, <1>4, OneClient DEF Accept

\* The network only records what happened.
LEMMA NetIInv ==
    ASSUME IInv, NEW c \in Clients,
           NetConnected(c) \/ NetData(c) \/ NetClosed(c)
    PROVE  IInv'
<1>1. /\ state' = [state EXCEPT ![c] = state[c]]
      /\ peer' = [peer EXCEPT ![c] = peer[c]]
      /\ hs_info_hash' = [hs_info_hash EXCEPT ![c] = hs_info_hash[c]]
      /\ UNCHANGED mngVars
      /\ state[c] # "Freed"
  BY SameClient, ClientFacts DEF NetConnected, NetData, NetClosed
<1>2. CASE NetConnected(c)
  <2>1. /\ pending' = [pending EXCEPT ![c] = pending[c] \cup {"connected"}]
        /\ fd' = [fd EXCEPT ![c] = "open"]
        /\ state[c] = "Connecting"
    BY <1>2, SameClient, ClientFacts DEF NetConnected
  <2>2. pending[c] \cup {"connected"} \in SUBSET {"connected", "read", "closed"}
    BY SameClient
  <2>3. QED
    BY <1>1, <2>1, <2>2, SameClient, ClientFacts, OneClient
<1>3. CASE NetData(c)
  <2>1. /\ pending' = [pending EXCEPT ![c] = pending[c] \cup {"read"}]
        /\ fd' = [fd EXCEPT ![c] = fd[c]]
        /\ fd[c] = "open"
    BY <1>3, SameClient DEF NetData
  <2>2. pending[c] \cup {"read"} \in SUBSET {"connected", "read", "closed"}
    BY SameClient
  <2>3. QED
    BY <1>1, <2>1, <2>2, SameClient, ClientFacts, OneClient
<1>4. CASE NetClosed(c)
  <2>1. /\ pending' = [pending EXCEPT ![c] = pending[c] \cup {"closed"}]
        /\ fd' = [fd EXCEPT ![c] = "shut"]
        /\ \/ fd[c] = "dialling" /\ pending[c] \cup {"closed"} = {"closed"}
           \/ fd[c] = "open"
    BY <1>4, SameClient, ClientFacts DEF NetClosed
  <2>2. pending[c] \cup {"closed"} \in SUBSET {"connected", "read", "closed"}
    BY SameClient
  <2>3. QED
    BY <1>1, <2>1, <2>2, SameClient, ClientFacts, OneClient
<1>5. QED
  BY <1>2, <1>3, <1>4

\* A PeerClient that frees itself leaves nothing that could call it back.
LEMMA DestroyIInv ==
    ASSUME IInv, NEW c \in Clients, Destroy(c), UNCHANGED mngVars
    PROVE  IInv'
BY OneClient DEF Destroy, Shaken

\* The callback on CONNECTED finds the torrent and writes the handshake.
LEMMA OnConnectedIInv ==
    ASSUME IInv, NEW c \in Clients, OnConnected(c)
    PROVE  IInv'
<1>1. /\ state' = [state EXCEPT ![c] = "ReadingHandshake"]
      /\ peer' = [peer EXCEPT ![c] = peer[c]]
      /\ hs_info_hash' = [hs_info_hash EXCEPT ![c] = hs_info_hash[c]]
      /\ pending' = [pending EXCEPT ![c] = pending[c] \ {"connected"}]
      /\ fd' = [fd EXCEPT ![c] = fd[c]]
      /\ UNCHANGED mngVars
      /\ state[c] = "Connecting"
  BY SameClient, ClientFacts DEF OnConnected
<1>2. /\ "ReadingHandshake" \in Stages
      /\ "ReadingHandshake" \notin {"Connecting"} \cup Shaken
  BY DEF Stages, Shaken
<1>3. fd[c] # "dialling"
  BY ClientFacts DEF OnConnected
<1>4. pending[c] \ {"connected"} \in SUBSET {"connected", "read", "closed"}
  BY SameClient
<1>5. QED
  BY <1>1, <1>2, <1>3, <1>4, SameClient, OneClient

\* A read callback, reduced to what the properties need of ReadCb: the client
\* is destroyed, or keeps its peer and moves to the stage and hash of st, hs.
LEMMA OnReadResult ==
    ASSUME IInv, NEW c \in Clients, OnRead(c)
    PROVE  \/ Destroy(c)
           \/ \E st \in Stages,
                 hs \in Torrents \cup WireHashes \cup {""} :
                 /\ state' = [state EXCEPT ![c] = st]
                 /\ hs_info_hash' = [hs_info_hash EXCEPT ![c] = hs]
                 /\ pending' = [pending EXCEPT ![c] = @ \ {"read"}]
                 /\ UNCHANGED <<peer, fd>>
                 /\ st \in Shaken => hs \in h_torrent_data
                 /\ st # "Connecting"
                 /\ Position[state[c]] <= Position[st]
                 /\ st = "Piece" => peer[c] # NULL \/ state[c] = "Piece"
<1> DEFINE cl == [state |-> state[c], leecher |-> peer[c] # NULL,
                  hs |-> hs_info_hash[c], out |-> <<>>]
           r(in) == ReadCb(cl, in, h_torrent_data)
<1>1. PICK in \in Contents :
         \/ Destroy(c)
         \/ /\ r(in).state # "Freed"
            /\ state' = [state EXCEPT ![c] = r(in).state]
            /\ hs_info_hash' = [hs_info_hash EXCEPT ![c] = r(in).hs]
            /\ pending' = [pending EXCEPT ![c] = @ \ {"read"}]
            /\ UNCHANGED <<peer, fd>>
  BY DEF OnRead
<1>2. state[c] \in Stages /\ state[c] # "Connecting"
  <2>1. "read" \in pending[c] /\ "connected" \notin pending[c]
    BY DEF OnRead
  <2>2. pending[c] # {} /\ pending[c] # {"closed"}
    BY <2>1
  <2>3. state[c] # "Freed" /\ state[c] # "Connecting"
    BY <2>1, <2>2, ClientFacts
  <2>4. QED
    BY <2>3, SameClient
<1>3. /\ cl = [state |-> cl.state, leecher |-> cl.leecher, hs |-> cl.hs,
               out |-> cl.out]
      /\ cl.state = state[c] /\ cl.hs = hs_info_hash[c]
      /\ cl.leecher = (peer[c] # NULL) /\ cl.leecher \in BOOLEAN
  OBVIOUS
<1> HIDE DEF cl
<1>4. /\ r(in).state \in Stages \cup {"Freed"}
      /\ r(in).hs = cl.hs \/ r(in).hs \in h_torrent_data
      /\ r(in).state \in Shaken =>
             \/ r(in).hs \in h_torrent_data
             \/ cl.state \in Shaken /\ r(in).hs = cl.hs
      /\ r(in).state = "Connecting" => cl.state = "Connecting"
      /\ r(in).state \in Stages =>
             Position[cl.state] <= Position[r(in).state]
      /\ r(in).state = "Piece" => cl.leecher \/ cl.state = "Piece"
  BY <1>2, <1>3, ReadCbResult
<1> HIDE DEF r
<1>5. r(in).hs \in Torrents \cup WireHashes \cup {""}
  BY <1>3, <1>4, SameClient DEF IInv, TypeOK
<1>6. r(in).state \in Shaken => r(in).hs \in h_torrent_data
  BY <1>3, <1>4, ClientFacts
<1>7. CASE Destroy(c)
  BY <1>7
<1>8. CASE ~Destroy(c)
  <2>1. r(in).state \in Stages
    BY <1>1, <1>4, <1>8
  <2>2. /\ r(in).state # "Connecting"
        /\ Position[state[c]] <= Position[r(in).state]
        /\ r(in).state = "Piece" => peer[c] # NULL \/ state[c] = "Piece"
    BY <1>2, <1>3, <1>4, <2>1
  <2>3. QED
    BY <1>1, <1>5, <1>6, <1>8, <2>1, <2>2
<1>9. QED
  BY <1>7, <1>8

\* The read callback keeps the invariant, whatever the bytes are.
LEMMA OnReadIInv ==
    ASSUME IInv, NEW c \in Clients, OnRead(c)
    PROVE  IInv'
<1>1. UNCHANGED mngVars
  BY DEF OnRead
<1>2. CASE Destroy(c)
  BY <1>1, <1>2, DestroyIInv
<1>3. ASSUME NEW st \in Stages, NEW hs \in Torrents \cup WireHashes \cup {""},
             state' = [state EXCEPT ![c] = st],
             hs_info_hash' = [hs_info_hash EXCEPT ![c] = hs],
             pending' = [pending EXCEPT ![c] = @ \ {"read"}],
             UNCHANGED <<peer, fd>>,
             st \in Shaken => hs \in h_torrent_data,
             st # "Connecting",
             st = "Piece" => peer[c] # NULL \/ state[c] = "Piece"
      PROVE  IInv'
  <2>1. /\ peer' = [peer EXCEPT ![c] = peer[c]]
        /\ fd' = [fd EXCEPT ![c] = fd[c]]
        /\ pending' = [pending EXCEPT ![c] = pending[c] \ {"read"}]
    BY <1>3, SameClient
  <2>2. /\ pending[c] \ {"read"} \in SUBSET {"connected", "read", "closed"}
        /\ "connected" \notin pending[c] \ {"read"}
    BY SameClient DEF OnRead
  <2>3. state[c] # "Freed" /\ fd[c] # "dialling" /\ st # "Freed"
    <3>1. pending[c] # {}
      BY DEF OnRead
    <3>2. QED
      BY <1>3, <3>1, ClientFacts DEF Stages
  <2>4. st \in {"Connecting"} \cup Shaken => hs \in h_torrent_data
    BY <1>3
  <2>5. /\ fd[c] \in {"none", "dialling", "open", "shut"}
        /\ st = "Piece" => peer[c] # NULL
    BY <1>3, SameClient, ClientFacts
  <2> DEFINE cb == pending[c] \ {"read"}
  <2>6. /\ pending' = [pending EXCEPT ![c] = cb]
        /\ cb \in SUBSET {"connected", "read", "closed"}
        /\ "connected" \notin cb
    BY <2>1, <2>2
  <2>7. /\ state' = [state EXCEPT ![c] = st]
        /\ hs_info_hash' = [hs_info_hash EXCEPT ![c] = hs]
        /\ st \in Stages \cup {"Freed"} /\ st # "Connecting"
    BY <1>3
  <2> HIDE DEF cb
  <2>8. QED
    BY <1>1, <2>1, <2>3, <2>4, <2>5, <2>6, <2>7, OneClient
<1>4. QED
  BY <1>2, <1>3, OnReadResult

\* No step breaks IInv.
LEMMA NextIInv == IInv /\ [Next]_vars => IInv'
<1>1. SUFFICES ASSUME IInv, [Next]_vars PROVE IInv'
  OBVIOUS
<1>2. CASE UNCHANGED vars
  BY <1>1, <1>2 DEF vars, mngVars, clientVars, IInv, TypeOK, BackPointer,
                    NothingAfterFree, Socket, DiallerKnown, Live
<1>3. ASSUME NEW t \in Torrents, AddTorrent(t) PROVE IInv'
  BY <1>1, <1>3, AddTorrentIInv
<1>4. ASSUME NEW t \in Torrents, NEW addrs \in SUBSET Addrs,
             TrackerAnswers(t, addrs)
      PROVE  IInv'
  BY <1>1, <1>4, TrackerAnswersIInv
<1>5. ASSUME NEW c \in Clients, Accept(c) PROVE IInv'
  BY <1>1, <1>5, AcceptIInv
<1>6. ASSUME NEW c \in Clients,
             NetConnected(c) \/ NetData(c) \/ NetClosed(c)
      PROVE  IInv'
  BY <1>1, <1>6, NetIInv
<1>7. ASSUME NEW c \in Clients, OnConnected(c) PROVE IInv'
  BY <1>1, <1>7, OnConnectedIInv
<1>8. ASSUME NEW c \in Clients, OnRead(c) PROVE IInv'
  BY <1>1, <1>8, OnReadIInv
<1>9. ASSUME NEW c \in Clients, OnClosed(c) PROVE IInv'
  BY <1>1, <1>9, DestroyIInv DEF OnClosed
<1>10. QED
  BY <1>1, <1>2, <1>3, <1>4, <1>5, <1>6, <1>7, <1>8, <1>9 DEF Next

\* Every state of the connections of a node has IInv.
THEOREM Invariant == Spec => []IInv
BY InitIInv, NextIInv, PTL DEF Spec

-----------------------------------------------------------------------------
\* The fields of the managers, peers and clients keep their ranges.
THEOREM TypeCorrect == Spec => []TypeOK
<1>1. IInv => TypeOK
  BY DEF IInv
<1>2. QED
  BY Invariant, <1>1, PTL

\* A live dialled connection and its Peer point at each other, however often
\* memory is freed and reused around them.
THEOREM PointersAgree == Spec => []BackPointer
<1>1. IInv => BackPointer
  BY DEF IInv
<1>2. QED
  BY Invariant, <1>1, PTL

\* No callback of a freed client is left to run.
THEOREM NoLateCallback == Spec => []NothingAfterFree
<1>1. IInv => NothingAfterFree
  BY DEF IInv
<1>2. QED
  BY Invariant, <1>1, PTL

\* No lookup of a connection's torrent can fail after the connection was
\* dialled or its handshake was read.
THEOREM TorrentFound == Spec => []TorrentThere
<1>1. IInv => TorrentThere
  BY DEF IInv, Socket, DiallerKnown, TorrentThere
<1>2. QED
  BY Invariant, <1>1, PTL

\* A handshake is never drained unread by a client still connecting.
THEOREM HandshakeSeen == Spec => []NoHandshakeDrained
<1>1. IInv => NoHandshakeDrained
  BY DEF IInv, Socket, NoHandshakeDrained
<1>2. QED
  BY Invariant, <1>1, PTL

\* Stages are passed in order and only a dialled connection asks for a piece.
THEOREM InOrder == Spec => StagesInOrder
<1> DEFINE Ordered == \A c \in Live \cap Live' :
               /\ Position[state[c]] <= Position[state'[c]]
               /\ state'[c] = "Piece" => peer'[c] # NULL
<1>1. IInv /\ [Next]_vars => [Ordered]_vars
  <2>1. SUFFICES ASSUME IInv, Next, NEW c \in Clients,
                        state[c] \in Stages, state'[c] \in Stages, IInv'
                 PROVE  Position[state[c]] <= Position[state'[c]]
    <3>1. ASSUME IInv, IInv'
          PROVE  /\ \A c \in Live \cap Live' :
                       /\ c \in Clients
                       /\ state[c] \in Stages /\ state'[c] \in Stages
                       /\ state'[c] = "Piece" => peer'[c] # NULL
      BY <3>1 DEF IInv, TypeOK, DiallerKnown, Live
    <3>2. QED
      BY <3>1, NextIInv
  <2>2. ASSUME state'[c] = state[c]
        PROVE  Position[state[c]] <= Position[state'[c]]
    BY <2>1, <2>2 DEF Stages, Position
  <2>3. ASSUME NEW t \in Torrents, AddTorrent(t) PROVE state'[c] = state[c]
    BY <2>3 DEF AddTorrent, clientVars
  <2>4. ASSUME NEW t \in Torrents, NEW addrs \in SUBSET Addrs,
               TrackerAnswers(t, addrs)
        PROVE  state'[c] = state[c]
    <3>1. h_peers' \in SUBSET Peers
      BY <2>1, <2>4, AddPeersResult DEF TrackerAnswers
    <3>2. ASSUME NEW dialled \in SUBSET Undialled(t),
                 NEW at \in Injection(dialled, Clients \ Live), Dial(at)
          PROVE  state'[c] = state[c]
      <4>1. dialled \in SUBSET Peers
        BY <3>1 DEF Undialled
      <4>2. "Freed" \notin Stages
        BY DEF Stages
      <4>3. QED
        BY <2>1, <3>2, <4>1, <4>2, DialResult DEF IInv
    <3>3. CASE UNCHANGED clientVars
      BY <3>3 DEF clientVars
    <3>4. QED
      BY <2>4, <3>2, <3>3 DEF TrackerAnswers, PeersUpdated
  <2>5. ASSUME NEW d \in Clients,
               Accept(d) \/ NetConnected(d) \/ NetData(d) \/ NetClosed(d)
        PROVE  state'[c] = state[c]
    <3>1. CASE Accept(d)
      <4>1. d # c
        BY <2>1, <3>1 DEF Accept, Live, Stages
      <4>2. QED
        BY <2>1, <3>1, <4>1 DEF Accept, IInv, TypeOK
    <3>2. CASE NetConnected(d) \/ NetData(d) \/ NetClosed(d)
      BY <3>2 DEF NetConnected, NetData, NetClosed
    <3>3. QED
      BY <2>5, <3>1, <3>2
  <2>6. ASSUME NEW d \in Clients, OnConnected(d)
        PROVE  Position[state[c]] <= Position[state'[c]]
    <3>1. CASE d # c
      BY <2>1, <2>2, <2>6, <3>1 DEF OnConnected, IInv, TypeOK
    <3>2. CASE d = c
      <4>1. state[c] = "Connecting"
        BY <2>1, <2>6, <3>2, ClientFacts DEF OnConnected
      <4>2. state'[c] = "ReadingHandshake"
        BY <2>1, <2>6, <3>2 DEF OnConnected, IInv, TypeOK
      <4>3. QED
        BY <4>1, <4>2 DEF Position
    <3>3. QED
      BY <3>1, <3>2
  <2>7. ASSUME NEW d \in Clients, Destroy(d) PROVE state'[c] = state[c]
    <3>1. d # c
      BY <2>1, <2>7 DEF Destroy, Stages, IInv, TypeOK
    <3>2. QED
      BY <2>1, <2>7, <3>1 DEF Destroy, IInv, TypeOK
  <2>8. ASSUME NEW d \in Clients, OnRead(d)
        PROVE  Position[state[c]] <= Position[state'[c]]
    <3>1. CASE Destroy(d)
      BY <2>2, <2>7, <3>1
    <3>2. ASSUME NEW st \in Stages, state' = [state EXCEPT ![d] = st],
                 Position[state[d]] <= Position[st]
          PROVE  Position[state[c]] <= Position[state'[c]]
      <4>1. CASE d = c
        <5>1. state'[c] = st
          BY <2>1, <3>2, <4>1 DEF IInv, TypeOK
        <5>2. QED
          BY <3>2, <4>1, <5>1
      <4>2. CASE d # c
        <5>1. state'[c] = state[c]
          BY <2>1, <3>2, <4>2 DEF IInv, TypeOK
        <5>2. QED
          BY <2>2, <5>1
      <4>3. QED
        BY <4>1, <4>2
    <3>3. QED
      BY <2>1, <2>8, <3>1, <3>2, OnReadResult
  <2>9. QED
    BY <2>1, <2>2, <2>3, <2>4, <2>5, <2>6, <2>7, <2>8 DEF Next, OnClosed
<1>2. QED
  BY Invariant, <1>1, PTL DEF Spec, StagesInOrder
-----------------------------------------------------------------------------
(***************************************************************************)
(* The count of peers                                                      *)
(***************************************************************************)
PeersOf(t) == {p \in h_peers : p[1] = t}

\* A count can be right only of a finite set.
Counted ==
    \A t \in Torrents :
        /\ IsFiniteSet(PeersOf(t))
        /\ peer_count[t] = Cardinality(PeersOf(t))

\* An answer adds to the peers of its torrent, and to the count, those of its
\* addresses that were not there.
LEMMA AddPeersCounted ==
    ASSUME IInv, Counted, NEW t \in h_torrent_data, NEW addrs \in SUBSET Addrs,
           AddPeers(t, addrs)
    PROVE  Counted'
<1> DEFINE listed == {t} \X addrs
           fresh == listed \ h_peers
<1>1. t \in Torrents  BY DEF IInv, TypeOK
<1>2. IsFiniteSet(fresh)
  <2>1. IsFiniteSet(addrs) /\ IsFiniteSet({t})  BY FS_Subset, FS_Singleton
  <2>2. IsFiniteSet(listed)  BY <2>1, FS_Product
  <2> QED  BY <2>2, FS_Subset
<1>3. \A p \in listed : p[1] = t  OBVIOUS
<1>4. h_peers' = h_peers \cup listed  BY DEF AddPeers
<1>5. peer_count' = [peer_count EXCEPT ![t] = @ + Cardinality(fresh)]
  BY DEF AddPeers
<1> HIDE DEF listed
<1>6. ASSUME NEW u \in Torrents
      PROVE  /\ IsFiniteSet(PeersOf(u)')
             /\ peer_count'[u] = Cardinality(PeersOf(u)')
  <2>1. IsFiniteSet(PeersOf(u)) /\ peer_count[u] = Cardinality(PeersOf(u))
    BY DEF Counted
  <2>2. CASE u = t
    <3>1. PeersOf(u)' = PeersOf(u) \cup fresh
      BY <1>3, <1>4, <2>2 DEF PeersOf
    <3>2. PeersOf(u) \cap fresh = {}  BY DEF PeersOf
    <3> HIDE DEF fresh
    <3>3. /\ IsFiniteSet(PeersOf(u) \cup fresh)
          /\ Cardinality(PeersOf(u) \cup fresh)
                 = Cardinality(PeersOf(u)) + Cardinality(fresh)
                       - Cardinality(PeersOf(u) \cap fresh)
      BY <1>2, <2>1, FS_Union
    <3>4. Cardinality(PeersOf(u) \cap fresh) = 0  BY <3>2, FS_EmptySet
    <3>5. Cardinality(PeersOf(u)) \in Nat /\ Cardinality(fresh) \in Nat
      BY <1>2, <2>1, FS_CardinalityType
    <3>6. peer_count'[u] = peer_count[u] + Cardinality(fresh)
      BY <1>5, <2>2 DEF IInv, TypeOK
    <3> QED  BY <2>1, <3>1, <3>3, <3>4, <3>5, <3>6
  <2>3. CASE u # t
    <3>1. PeersOf(u)' = PeersOf(u)  BY <1>3, <1>4, <2>3 DEF PeersOf
    <3>2. peer_count'[u] = peer_count[u]  BY <1>5, <2>3 DEF IInv, TypeOK
    <3> QED  BY <2>1, <3>1, <3>2
  <2> QED  BY <2>2, <2>3
<1> QED  BY <1>6 DEF Counted

\* No step takes peer_count away from the number of peers.
LEMMA NextCounted == IInv /\ Counted /\ [Next]_vars => Counted'
<1> SUFFICES ASSUME IInv, Counted, [Next]_vars PROVE Counted'  OBVIOUS
<1>1. CASE UNCHANGED <<h_peers, peer_count>>
  BY <1>1 DEF Counted, PeersOf
<1>2. ASSUME NEW t \in Torrents, NEW addrs \in SUBSET Addrs,
             TrackerAnswers(t, addrs)
      PROVE  Counted'
  BY <1>2, AddPeersCounted DEF TrackerAnswers
<1>3. ASSUME NEW c \in Clients,
             \/ Accept(c) \/ NetConnected(c) \/ NetData(c) \/ NetClosed(c)
             \/ OnConnected(c) \/ OnRead(c) \/ OnClosed(c)
      PROVE  UNCHANGED <<h_peers, peer_count>>
  BY <1>3 DEF Accept, NetConnected, NetData, NetClosed, OnConnected, OnRead,
              OnClosed, mngVars
<1>4. ASSUME NEW t \in Torrents, AddTorrent(t)
      PROVE  UNCHANGED <<h_peers, peer_count>>
  BY <1>4 DEF AddTorrent
<1>5. CASE UNCHANGED vars  BY <1>1, <1>5 DEF vars, mngVars
<1> QED  BY <1>1, <1>2, <1>3, <1>4, <1>5 DEF Next

\* peer_count is the number of Peer objects of the torrent, however often the
\* tracker lists an address (tbfs_peer_mng_peer_add).
THEOREM CountExact == Spec => []PeerCountExact
<1>1. Init => Counted
  <2> SUFFICES ASSUME Init, NEW t \in Torrents
               PROVE  /\ IsFiniteSet(PeersOf(t))
                      /\ peer_count[t] = Cardinality(PeersOf(t))
    BY DEF Counted
  <2>1. PeersOf(t) = {}  BY DEF Init, PeersOf
  <2> QED  BY <2>1, FS_EmptySet DEF Init
<1>2. Counted => PeerCountExact  BY DEF Counted, PeerCountExact, PeersOf
<1> QED  BY Invariant, NextCounted, <1>1, <1>2, PTL DEF Spec
=============================================================================
