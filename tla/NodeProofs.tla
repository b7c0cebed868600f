----------------------------- MODULE NodeProofs -----------------------------
(***************************************************************************)
(* Proofs about TorrentCheck, for every set of torrents and every pair of  *)
(* intervals.                                                              *)
(*                                                                         *)
(* RequestSpacing is about ask_age, which no guard of the code reads: the  *)
(* code compares the time of the last ANSWER.  What connects the two is    *)
(* AnswerAfterAsk: while a torrent is unmarked, its last answer is younger *)
(* than its last question.  A torrent that was never registered has no     *)
(* answer, and FreshUntilRegistered covers it.                             *)
(*                                                                         *)
(* The end is about the node that TorrentCheck is a component of.          *)
(***************************************************************************)
EXTENDS Node, TLAPS

\* No torrent is marked or asked about before it is registered.
FreshUntilRegistered ==
    \A t \in Torrents :
        t \notin h_torrent_data => /\ ~being_checked[t]
                                 /\ ask_age[t] = TorrentCheckSec

\* An unmarked torrent has been answered, or registered, since it was last
\* asked about.
AnswerAfterAsk ==
    \A t \in Torrents : ~being_checked[t] => torrent_age[t] <= ask_age[t]

IInv ==
    /\ TypeOK
    /\ OneRequestPerTorrent
    /\ FreshUntilRegistered
    /\ AnswerAfterAsk

USE CheckSecAssumption, TorrentCheckSecAssumption

-----------------------------------------------------------------------------
\* An age stays below its cap, and the younger of two ages stays the younger.
LEMMA OlderBounded ==
    ASSUME NEW cap \in Nat, NEW age \in 0..cap
    PROVE  Older(age, cap) \in 0..cap
BY DEF Older

\* Of two ages the younger one stays the younger.
LEMMA OlderMonotone ==
    ASSUME NEW cap \in Nat, NEW a \in 0..cap, NEW b \in 0..cap, a <= b
    PROVE  Older(a, cap) <= Older(b, cap)
BY DEF Older

\* An answer and a failure find a marked, registered torrent with exactly one
\* request: their decrement ends at zero.
LEMMA AnsweredTorrent ==
    ASSUME IInv, NEW t \in Torrents, in_flight[t] > 0
    PROVE  in_flight[t] = 1 /\ t \in h_torrent_data /\ being_checked[t]
BY DEF IInv, TypeOK, OneRequestPerTorrent

\* A new TBFSMng has the invariant, and each handler keeps it:
LEMMA InitIInv == Init => IInv
BY DEF Init, IInv, TypeOK, OneRequestPerTorrent, FreshUntilRegistered,
       AnswerAfterAsk

\* a torrent is registered,
LEMMA RegisterIInv ==
    ASSUME IInv, NEW t \in Torrents, Register(t)
    PROVE  IInv'
BY DEF IInv, TypeOK, OneRequestPerTorrent, FreshUntilRegistered,
       AnswerAfterAsk, Register

\* the timer fires, whichever requests evhttp refuses,
LEMMA OnTimerIInv ==
    ASSUME IInv, OnTimer
    PROVE  IInv'
<1>1. ASSUME TrackerDue, tracker_age' = 0, ev_timer' = TRUE,
             UNCHANGED <<h_torrent_data, torrent_age>>,
             NEW refused \in SUBSET {t \in Torrents : Due(t)},
             AskTracker(refused)
      PROVE  IInv'
  <2>1. TypeOK'
    BY <1>1 DEF IInv, TypeOK, AskTracker
  <2>2. OneRequestPerTorrent'
    <3>1. SUFFICES ASSUME NEW t \in Torrents
                   PROVE  /\ in_flight'[t] <= 1
                          /\ in_flight'[t] = 1 =>
                                 t \in h_torrent_data /\ being_checked'[t]
      BY <1>1 DEF OneRequestPerTorrent
    <3>2. CASE Due(t)
      <4>1. in_flight[t] = 0
        BY <3>2 DEF IInv, TypeOK, OneRequestPerTorrent, Due
      <4>2. in_flight'[t] \in {0, 1}
        BY <1>1, <4>1 DEF IInv, TypeOK, AskTracker
      <4>3. t \in h_torrent_data /\ being_checked'[t]
        BY <1>1, <3>2 DEF AskTracker, Due
      <4>4. QED
        BY <4>2, <4>3
    <3>3. CASE ~Due(t)
      <4>1. in_flight'[t] = in_flight[t]
        BY <1>1, <3>3 DEF IInv, TypeOK, AskTracker
      <4>2. being_checked[t] => being_checked'[t]
        BY <1>1 DEF AskTracker
      <4>3. QED
        BY <4>1, <4>2 DEF IInv, OneRequestPerTorrent
    <3>4. QED
      BY <3>2, <3>3
  <2>3. FreshUntilRegistered'
    BY <1>1 DEF IInv, TypeOK, FreshUntilRegistered, AskTracker, Due
  <2>4. AnswerAfterAsk'
    BY <1>1 DEF IInv, TypeOK, AnswerAfterAsk, AskTracker, Due
  <2>5. QED
    BY <2>1, <2>2, <2>3, <2>4 DEF IInv
<1>2. CASE ~TrackerDue
  BY <1>2 DEF OnTimer, IInv, TypeOK, OneRequestPerTorrent,
              FreshUntilRegistered, AnswerAfterAsk
<1>3. QED
  BY <1>1, <1>2 DEF OnTimer

\* the tracker answers,
LEMMA TrackerAnswersIInv ==
    ASSUME IInv, NEW t \in Torrents, TrackerAnswers(t)
    PROVE  IInv'
<1>1. in_flight[t] = 1 /\ t \in h_torrent_data /\ being_checked[t]
  BY AnsweredTorrent DEF TrackerAnswers
<1>2. TypeOK'
  <2>1. in_flight' \in [Torrents -> Nat]
    BY <1>1 DEF IInv, TypeOK, TrackerAnswers
  <2>2. torrent_age' \in [Torrents -> 0..TorrentCheckSec]
    BY <1>1 DEF IInv, TypeOK, TrackerAnswers
  <2>3. being_checked' \in [Torrents -> BOOLEAN]
    BY <1>1 DEF IInv, TypeOK, TrackerAnswers
  <2>4. QED
    BY <2>1, <2>2, <2>3 DEF IInv, TypeOK, TrackerAnswers
<1>3. OneRequestPerTorrent'
  BY <1>1 DEF IInv, TypeOK, OneRequestPerTorrent, TrackerAnswers
<1>4. FreshUntilRegistered'
  BY <1>1 DEF IInv, TypeOK, FreshUntilRegistered, TrackerAnswers
<1>5. AnswerAfterAsk'
  BY <1>1 DEF IInv, TypeOK, AnswerAfterAsk, TrackerAnswers
<1>6. QED
  BY <1>2, <1>3, <1>4, <1>5 DEF IInv

\* an announce fails,
LEMMA TrackerFailsIInv ==
    ASSUME IInv, NEW t \in Torrents, TrackerFails(t)
    PROVE  IInv'
<1>1. in_flight[t] = 1
  BY AnsweredTorrent DEF TrackerFails
<1>2. QED
  BY <1>1 DEF IInv, TypeOK, OneRequestPerTorrent, FreshUntilRegistered,
              AnswerAfterAsk, TrackerFails

\* a second passes.
LEMMA TickIInv ==
    ASSUME IInv, Tick
    PROVE  IInv'
<1>1. TypeOK'
  BY OlderBounded DEF IInv, TypeOK, Tick
<1>2. OneRequestPerTorrent'
  BY DEF IInv, OneRequestPerTorrent, Tick
<1>3. FreshUntilRegistered'
  BY DEF IInv, TypeOK, FreshUntilRegistered, Tick, Older
<1>4. AnswerAfterAsk'
  BY OlderMonotone DEF IInv, TypeOK, AnswerAfterAsk, Tick
<1>5. QED
  BY <1>1, <1>2, <1>3, <1>4 DEF IInv

\* No step breaks IInv.
LEMMA NextIInv == IInv /\ [Next]_vars => IInv'
<1>1. SUFFICES ASSUME IInv, [Next]_vars PROVE IInv'
  OBVIOUS
<1>2. CASE UNCHANGED vars
  BY <1>1, <1>2 DEF vars, IInv, TypeOK, OneRequestPerTorrent,
                    FreshUntilRegistered, AnswerAfterAsk
<1>3. ASSUME NEW t \in Torrents,
             Register(t) \/ TrackerAnswers(t) \/ TrackerFails(t)
      PROVE  IInv'
  BY <1>1, <1>3, RegisterIInv, TrackerAnswersIInv, TrackerFailsIInv
<1>4. CASE OnTimer
  BY <1>1, <1>4, OnTimerIInv
<1>5. CASE Tick
  BY <1>1, <1>5, TickIInv
<1>6. QED
  BY <1>1, <1>2, <1>3, <1>4, <1>5 DEF Next

\* Every state of tbfs_mng.c and tbfs_tracker_client.c together has IInv.
THEOREM Invariant == Spec => []IInv
BY InitIInv, NextIInv, PTL DEF Spec

-----------------------------------------------------------------------------
\* The fields of TBFSMng and TorrentData keep their ranges; in particular no
\* TrackerRequestData is ever released twice (in_flight stays in Nat).
THEOREM TypeCorrect == Spec => []TypeOK
<1>1. IInv => TypeOK
  BY DEF IInv
<1>2. QED
  BY Invariant, <1>1, PTL

\* At most one announce per torrent is outstanding, and its torrent is marked.
THEOREM OneRequest == Spec => []OneRequestPerTorrent
<1>1. IInv => OneRequestPerTorrent
  BY DEF IInv
<1>2. QED
  BY Invariant, <1>1, PTL

\* Announces for one torrent are torrent_check_sec apart, though the code
\* measures from the answer and not from the question.
THEOREM Spacing == Spec => RequestSpacing
<1> DEFINE Spaced == \A t \in Torrents :
               in_flight'[t] > in_flight[t] => ask_age[t] >= TorrentCheckSec
<1>1. IInv /\ [Next]_vars => [Spaced]_vars
  <2>1. SUFFICES ASSUME IInv, Next, NEW t \in Torrents,
                        in_flight'[t] > in_flight[t]
                 PROVE  ask_age[t] >= TorrentCheckSec
    BY DEF vars
  <2>2. CASE Due(t)
    BY <2>1, <2>2 DEF IInv, TypeOK, AnswerAfterAsk, Due
  <2>3. CASE ~Due(t)
    <3>1. ASSUME NEW u \in Torrents,
                 Register(u) \/ TrackerAnswers(u) \/ TrackerFails(u) \/ Tick
          PROVE  FALSE
      BY <2>1, <3>1
         DEF IInv, TypeOK, Register, TrackerAnswers, TrackerFails, Tick
    <3>2. ASSUME OnTimer PROVE FALSE
      BY <2>1, <2>3, <3>2 DEF IInv, TypeOK, OnTimer, AskTracker
    <3>3. QED
      BY <2>1, <3>1, <3>2 DEF Next
  <2>4. QED
    BY <2>2, <2>3
<1>2. QED
  BY Invariant, <1>1, PTL DEF Spec, RequestSpacing

\* A torrent whose announce failed stays marked with nothing outstanding: it
\* is never announced again.
THEOREM FailureFinal == Spec => FailureIsFinal
<1> DEFINE Final == \A t \in Torrents : Stuck(t) => Stuck(t)'
<1>1. IInv /\ [Next]_vars => [Final]_vars
  <2>1. SUFFICES ASSUME IInv, Next, NEW t \in Torrents, Stuck(t)
                 PROVE  Stuck(t)'
    BY DEF vars
  <2>2. ASSUME NEW u \in Torrents, Register(u) PROVE Stuck(t)'
    BY <2>1, <2>2 DEF IInv, TypeOK, FreshUntilRegistered, Stuck, Register
  <2>3. ASSUME NEW u \in Torrents, TrackerAnswers(u) \/ TrackerFails(u)
        PROVE  Stuck(t)'
    BY <2>1, <2>3 DEF IInv, TypeOK, Stuck, TrackerAnswers, TrackerFails
  <2>4. CASE OnTimer
    BY <2>1, <2>4 DEF IInv, TypeOK, Stuck, OnTimer, AskTracker, Due
  <2>5. CASE Tick
    BY <2>1, <2>5 DEF Stuck, Tick
  <2>6. QED
    BY <2>1, <2>2, <2>3, <2>4, <2>5 DEF Next
<1>2. QED
  BY Invariant, <1>1, PTL DEF Spec, FailureIsFinal

-----------------------------------------------------------------------------
(***************************************************************************)
(* TorrentCheck implements AnnounceCycle.  A step changes the phase of the *)
(* torrents it is about and of no other, so each action is matched by      *)
(* following one torrent at a time.                                        *)
(***************************************************************************)
Phases == [t \in Torrents |-> Phase(t)]

\* Each handler is a step of AnnounceCycle: a registration,
LEMMA RegisterIsRegister ==
    ASSUME IInv, NEW u \in Torrents, Register(u)
    PROVE  Cycle!Register(u)
<1>1. Phase(u) = "unknown" /\ Phase(u)' = "idle"
  BY DEF IInv, TypeOK, Register, Phase
<1>2. ASSUME NEW t \in Torrents, t # u PROVE Phase(t)' = Phase(t)
  BY <1>2 DEF IInv, TypeOK, Register, Phase
<1>3. QED
  BY <1>1, <1>2 DEF Cycle!Register

\* a round of the timer, which asks about some torrents or none,
LEMMA OnTimerIsAsk ==
    ASSUME IInv, OnTimer
    PROVE  (\E u \in Torrents : Cycle!AskAbout(u)) \/ Phases' = Phases
<1>1. CASE ~TrackerDue
  BY <1>1 DEF OnTimer, Phases, Phase
<1>2. CASE TrackerDue
  <2> DEFINE asked == {t \in Torrents : Due(t)}
  <2>1. PICK refused \in SUBSET asked : AskTracker(refused)
    BY <1>2 DEF OnTimer
  <2>2. ASSUME NEW t \in Torrents, ~Due(t) PROVE Phase(t)' = Phase(t)
    BY <2>1, <2>2 DEF IInv, TypeOK, OnTimer, AskTracker, Phase
  <2>3. ASSUME NEW t \in Torrents, Due(t)
        PROVE  /\ Phase(t) = "idle"
               /\ Phase(t)' = IF t \in refused THEN "dead" ELSE "asked"
    <3>1. in_flight[t] = 0
      BY <2>3 DEF IInv, TypeOK, OneRequestPerTorrent, Due
    <3>2. in_flight'[t] = IF t \in refused THEN 0 ELSE 1
      BY <2>1, <2>3, <3>1 DEF AskTracker
    <3>3. being_checked'[t] /\ t \in h_torrent_data'
      BY <2>1, <2>3 DEF AskTracker, OnTimer, Due
    <3>4. QED
      BY <2>3, <3>2, <3>3 DEF Phase, Due
  <2>4. Cycle!Ask(asked, refused)
    BY <2>2, <2>3 DEF Cycle!Ask
  <2>5. CASE asked = {}
    BY <2>2, <2>5 DEF Phases
  <2>6. CASE asked # {}
    BY <2>4, <2>6 DEF Cycle!AskAbout
  <2>7. QED
    BY <2>5, <2>6
<1>3. QED
  BY <1>1, <1>2

\* an answer,
LEMMA AnswersIsAnswer ==
    ASSUME IInv, NEW u \in Torrents, TrackerAnswers(u)
    PROVE  Cycle!Answer(u)
<1>1. in_flight[u] = 1 /\ u \in h_torrent_data /\ being_checked[u]
  BY AnsweredTorrent DEF TrackerAnswers
<1>2. Phase(u) = "asked" /\ Phase(u)' = "idle"
  BY <1>1 DEF IInv, TypeOK, TrackerAnswers, Phase
<1>3. ASSUME NEW t \in Torrents, t # u PROVE Phase(t)' = Phase(t)
  BY <1>1, <1>3 DEF IInv, TypeOK, TrackerAnswers, Phase
<1>4. QED
  BY <1>2, <1>3 DEF Cycle!Answer

\* a failure.
LEMMA FailsIsFail ==
    ASSUME IInv, NEW u \in Torrents, TrackerFails(u)
    PROVE  Cycle!Fail(u)
<1>1. in_flight[u] = 1 /\ u \in h_torrent_data /\ being_checked[u]
  BY AnsweredTorrent DEF TrackerFails
<1>2. Phase(u) = "asked" /\ Phase(u)' = "dead"
  BY <1>1 DEF IInv, TypeOK, TrackerFails, Phase
<1>3. ASSUME NEW t \in Torrents, t # u PROVE Phase(t)' = Phase(t)
  BY <1>1, <1>3 DEF IInv, TypeOK, TrackerFails, Phase
<1>4. QED
  BY <1>2, <1>3 DEF Cycle!Fail

\* Every run of the timer, the tracker client and the command server is a run
\* of AnnounceCycle: one question at a time, and none after a failure.
THEOREM Implements == Spec => Cycle!Spec
<1>1. Init => Cycle!Init
  BY DEF Init, Phase, Cycle!Init
<1>2. IInv /\ [Next]_vars => [Cycle!Next]_Phases
  <2>1. SUFFICES ASSUME IInv, [Next]_vars
                 PROVE  Cycle!Next \/ Phases' = Phases
    OBVIOUS
  <2>2. ASSUME NEW u \in Torrents, Register(u)
        PROVE  Cycle!Next
    BY <2>1, <2>2, RegisterIsRegister DEF Cycle!Next
  <2>3. ASSUME NEW u \in Torrents, TrackerAnswers(u)
        PROVE  Cycle!Next
    BY <2>1, <2>3, AnswersIsAnswer DEF Cycle!Next
  <2>4. ASSUME NEW u \in Torrents, TrackerFails(u)
        PROVE  Cycle!Next
    BY <2>1, <2>4, FailsIsFail DEF Cycle!Next
  <2>5. CASE OnTimer
    BY <2>1, <2>5, OnTimerIsAsk DEF Cycle!Next
  <2>6. CASE Tick
    BY <2>6 DEF Tick, Phases, Phase
  <2>7. CASE UNCHANGED vars
    BY <2>7 DEF vars, Phases, Phase
  <2>8. QED
    BY <2>1, <2>2, <2>3, <2>4, <2>5, <2>6, <2>7 DEF Next
<1>3. QED
  BY Invariant, <1>1, <1>2, PTL DEF Spec, Cycle!Spec, Phases

-----------------------------------------------------------------------------
(***************************************************************************)
(* The node: a TorrentCheck and a PeerConn at once, so what was proved of  *)
(* each holds of the node; and the two properties that relate them.        *)
(***************************************************************************)
\* Every step of a node is a step of its announce cycle or leaves that alone.
THEOREM NodeIsTorrentCheck == NodeSpec => AnnouncesUndisturbed
<1>1. NodeInit => Init
  BY DEF NodeInit
<1>2. [NodeNext]_nodeVars => [Next]_vars
  <2>1. SUFFICES ASSUME [NodeNext]_nodeVars PROVE Next \/ UNCHANGED vars
    OBVIOUS
  <2>2. ASSUME NEW t \in Torrents, AddTorrent(t)
        PROVE  Next \/ UNCHANGED vars
    <3>1. CASE Register(t)
      BY <3>1 DEF Next
    <3>2. CASE t \in h_torrent_data /\ UNCHANGED checkVars
      <4>1. h_torrent_data' = h_torrent_data
        BY <2>2, <3>2 DEF AddTorrent, PC!AddTorrent
      <4>2. QED
        BY <3>2, <4>1 DEF checkVars, vars
    <3>3. QED
      BY <2>2, <3>1, <3>2 DEF AddTorrent
  <2>3. ASSUME NEW t \in Torrents, NEW addrs \in SUBSET Addrs,
               TorrentChecked(t, addrs)
        PROVE  Next
    BY <2>3 DEF TorrentChecked, Next
  <2>4. CASE CheckStep
    BY <2>4 DEF CheckStep, Next
  <2>5. CASE ConnStep
    <3>1. h_torrent_data' = h_torrent_data
      BY <2>5 DEF ConnStep, PC!Accept, PC!NetConnected, PC!NetData,
                  PC!NetClosed, PC!OnConnected, PC!OnRead, PC!OnClosed,
                  PC!mngVars
    <3>2. QED
      BY <2>5, <3>1 DEF ConnStep, checkVars, vars
  <2>6. CASE Exit
    BY <2>6 DEF Exit, checkVars, vars
  <2>7. CASE UNCHANGED nodeVars
    BY <2>7 DEF nodeVars, checkVars, vars
  <2>8. QED
    BY <2>1, <2>2, <2>3, <2>4, <2>5, <2>6, <2>7 DEF NodeNext
<1>3. QED
  BY <1>1, <1>2, PTL DEF NodeSpec, AnnouncesUndisturbed, Spec

\* Every step of a node is a step of its connections or leaves those alone.
THEOREM NodeIsPeerConn == NodeSpec => PC!Spec
<1>1. NodeInit => PC!Init
  BY DEF NodeInit
<1>2. [NodeNext]_nodeVars => [PC!Next]_(PC!vars)
  <2>1. SUFFICES ASSUME [NodeNext]_nodeVars PROVE PC!Next \/ UNCHANGED PC!vars
    OBVIOUS
  <2>2. ASSUME NEW t \in Torrents, AddTorrent(t) PROVE PC!Next
    BY <2>2 DEF AddTorrent, PC!Next
  <2>3. ASSUME NEW t \in Torrents, NEW addrs \in SUBSET Addrs,
               TorrentChecked(t, addrs)
        PROVE  PC!Next
    BY <2>3 DEF TorrentChecked, PC!Next
  <2>4. CASE CheckStep
    <3>1. h_torrent_data' = h_torrent_data
      BY <2>4 DEF CheckStep, OnTimer, Tick, TrackerFails
    <3>2. QED
      BY <2>4, <3>1 DEF CheckStep, connVars, PC!vars, PC!mngVars, PC!clientVars
  <2>5. CASE ConnStep
    BY <2>5 DEF ConnStep, PC!Next
  <2>6. CASE Exit
    BY <2>6 DEF Exit, connVars, PC!vars, PC!mngVars, PC!clientVars
  <2>7. CASE UNCHANGED nodeVars
    BY <2>7 DEF nodeVars, connVars, PC!vars, PC!mngVars, PC!clientVars
  <2>8. QED
    BY <2>1, <2>2, <2>3, <2>4, <2>5, <2>6, <2>7 DEF NodeNext
<1>3. QED
  BY <1>1, <1>2, PTL DEF NodeSpec, PC!Spec

-----------------------------------------------------------------------------
\* What a step does to the tables that the two components share.
LEMMA TablesStep ==
    ASSUME [NodeNext]_nodeVars
    PROVE  \/ \E t \in Torrents : /\ h_torrent_data' = h_torrent_data \cup {t}
                                  /\ want' = want \cup {t}
                                  /\ h_peers' = h_peers
           \/ \E t \in h_torrent_data \cap Torrents, addrs \in SUBSET Addrs :
                 /\ in_flight[t] > 0
                 /\ UNCHANGED <<h_torrent_data, want>>
                 /\ h_peers' = h_peers \cup ({t} \X addrs)
           \/ UNCHANGED <<h_torrent_data, want, h_peers>>
<1>1. ASSUME NEW t \in Torrents, AddTorrent(t)
      PROVE  /\ h_torrent_data' = h_torrent_data \cup {t}
             /\ want' = want \cup {t}
             /\ h_peers' = h_peers
  BY <1>1 DEF AddTorrent, PC!AddTorrent
<1>2. ASSUME NEW t \in Torrents, NEW addrs \in SUBSET Addrs,
             TorrentChecked(t, addrs)
      PROVE  /\ t \in h_torrent_data /\ in_flight[t] > 0
             /\ UNCHANGED <<h_torrent_data, want>>
             /\ h_peers' = h_peers \cup ({t} \X addrs)
  BY <1>2 DEF TorrentChecked, TrackerAnswers, PC!TrackerAnswers, PC!AddPeers
<1>3. CASE CheckStep
  BY <1>3 DEF CheckStep, connVars, OnTimer, Tick, TrackerFails
<1>4. CASE ConnStep
  BY <1>4 DEF ConnStep, PC!Accept, PC!NetConnected, PC!NetData, PC!NetClosed,
              PC!OnConnected, PC!OnRead, PC!OnClosed, PC!mngVars
<1>5. CASE Exit \/ UNCHANGED nodeVars
  BY <1>5 DEF Exit, nodeVars, connVars
<1>6. QED
  BY <1>1, <1>2, <1>3, <1>4, <1>5 DEF NodeNext

\* A registered torrent wants a piece, and peers belong to registered torrents.
THEOREM Wanted == NodeSpec => []RegisteredIsWanted
<1>1. NodeInit => RegisteredIsWanted
  BY DEF NodeInit, PC!Init, RegisteredIsWanted
<1>2. RegisteredIsWanted /\ [NodeNext]_nodeVars => RegisteredIsWanted'
  BY TablesStep DEF RegisteredIsWanted
<1>3. QED
  BY <1>1, <1>2, PTL DEF NodeSpec

\* The peers of a torrent whose announce failed are final.
THEOREM FinalPeers == NodeSpec => PeersFinalAfterFailure
<1> DEFINE Final == \A t \in Torrents :
                        Stuck(t) => PeersOf(t)' = PeersOf(t)
<1>1. [NodeNext]_nodeVars => [Final]_nodeVars
  <2>1. SUFFICES ASSUME [NodeNext]_nodeVars, NEW t \in Torrents, Stuck(t)
                 PROVE  PeersOf(t)' = PeersOf(t)
    OBVIOUS
  <2>2. in_flight[t] = 0
    BY <2>1 DEF Stuck
  <2>3. ASSUME NEW u \in Torrents, NEW addrs \in SUBSET Addrs, u # t,
               h_peers' = h_peers \cup ({u} \X addrs)
        PROVE  PeersOf(t)' = PeersOf(t)
    BY <2>3 DEF PeersOf
  <2>4. CASE h_peers' = h_peers
    BY <2>4 DEF PeersOf
  <2>5. QED
    BY <2>1, <2>2, <2>3, <2>4, TablesStep
<1>2. QED
  BY <1>1, PTL DEF NodeSpec, PeersFinalAfterFailure

-----------------------------------------------------------------------------
(***************************************************************************)
(* What the node inherits                                                  *)
(***************************************************************************)
\* In a node too, whatever its peers and its user do, a torrent has at most
\* one announce outstanding, its announces keep their distance, and a failed
\* one is the last.
THEOREM NodeAnnounces ==
    NodeSpec => /\ []OneRequestPerTorrent
                /\ RequestSpacing
                /\ FailureIsFinal
BY NodeIsTorrentCheck, OneRequest, Spacing, FailureFinal, PTL
   DEF AnnouncesUndisturbed

\* Once an announce of u failed, the node keeps exactly the peers of u that it
\* has then: nothing but an answer brings peers, and no answer can come.
THEOREM PeersForGood ==
    ASSUME NEW CONSTANT u \in Torrents, NEW CONSTANT S
    PROVE  NodeSpec => [](Stuck(u) /\ PeersOf(u) = S
                          => [](Stuck(u) /\ PeersOf(u) = S))
<1>1. NodeSpec => [][Stuck(u) => Stuck(u)']_vars
  <2>1. [\A t \in Torrents : Stuck(t) => Stuck(t)']_vars
          => [Stuck(u) => Stuck(u)']_vars
    OBVIOUS
  <2>2. NodeSpec => FailureIsFinal
    BY NodeAnnounces, PTL
  <2>3. QED
    BY <2>1, <2>2, PTL DEF FailureIsFinal
<1>2. NodeSpec => [][Stuck(u) => PeersOf(u)' = PeersOf(u)]_nodeVars
  <2>1. [\A t \in Torrents : Stuck(t) => PeersOf(t)' = PeersOf(t)]_nodeVars
          => [Stuck(u) => PeersOf(u)' = PeersOf(u)]_nodeVars
    OBVIOUS
  <2>2. QED
    BY <2>1, FinalPeers, PTL DEF PeersFinalAfterFailure
<1>3. /\ Stuck(u) /\ PeersOf(u) = S
      /\ [Stuck(u) => Stuck(u)']_vars
      /\ [Stuck(u) => PeersOf(u)' = PeersOf(u)]_nodeVars
      => (Stuck(u) /\ PeersOf(u) = S)'
  <2>1. SUFFICES ASSUME Stuck(u), PeersOf(u) = S,
                        [Stuck(u) => Stuck(u)']_vars,
                        [Stuck(u) => PeersOf(u)' = PeersOf(u)]_nodeVars
                 PROVE  Stuck(u)' /\ PeersOf(u)' = S
    OBVIOUS
  <2>2. Stuck(u)'
    BY <2>1 DEF vars, Stuck
  <2>3. PeersOf(u)' = PeersOf(u)
    BY <2>1 DEF nodeVars, connVars, PeersOf, Stuck
  <2>4. QED
    BY <2>1, <2>2, <2>3
<1>4. QED
  BY <1>1, <1>2, <1>3, PTL
=============================================================================
