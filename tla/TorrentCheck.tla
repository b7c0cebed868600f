---------------------------- MODULE TorrentCheck ----------------------------
(***************************************************************************)
(* The announce cycle of a node: TBFSMng (src/src/tbfs_mng.c) keeps one    *)
(* TorrentData per registered torrent and, from a one-shot timer that its  *)
(* own callback re-adds, asks the tracker about the torrents that are due. *)
(* TrackerClient (src/src/tbfs_tracker_client.c) turns each question into  *)
(* an HTTP request and reports its outcome to TBFSMng by a callback.       *)
(*                                                                         *)
(* Everything runs on one libevent loop, so a callback is one action.      *)
(*                                                                         *)
(* Clocks.  The code stores time(NULL) in last_checked fields and only     *)
(* ever compares now - last_checked with a configured interval.  Under a   *)
(* clock that is not set back, that difference capped at the interval      *)
(* decides every comparison, and it is what the model keeps: the *_age     *)
(* variables.  last_checked = 0 (the epoch) is an age at the cap.          *)
(*                                                                         *)
(* tracker_being_checked is set and cleared inside one callback, which     *)
(* nothing can interrupt: it is FALSE whenever the callback reads it.      *)
(***************************************************************************)
EXTENDS Integers

CONSTANTS
    Torrents,         \* info hashes a user may register
    CheckSec,         \* conf "tracker.check_sec"
    TorrentCheckSec   \* conf "tracker.torrent_check_sec"

ASSUME CheckSecAssumption        == CheckSec \in Nat
ASSUME TorrentCheckSecAssumption == TorrentCheckSec \in Nat

VARIABLES
    h_torrent_data,   \* the registered torrents (keys of the hash table)
    being_checked,    \* TorrentData.being_checked
    torrent_age,      \* now - TorrentData.last_checked, capped
    tracker_age,      \* now - TBFSMng.tracker_last_checked, capped
    ev_timer,         \* is TBFSMng.ev_timer pending in libevent?
    in_flight,        \* TrackerRequestData objects alive, per torrent
    ask_age           \* history: time since the last request, capped

vars == <<h_torrent_data, being_checked, torrent_age, tracker_age, ev_timer,
          in_flight, ask_age>>

TypeOK ==
    /\ h_torrent_data \in SUBSET Torrents
    /\ being_checked \in [Torrents -> BOOLEAN]
    /\ torrent_age \in [Torrents -> 0..TorrentCheckSec]
    /\ tracker_age \in 0..CheckSec
    /\ ev_timer \in BOOLEAN
    /\ in_flight \in [Torrents -> Nat]
    /\ ask_age \in [Torrents -> 0..TorrentCheckSec]

\* One more second on an age that stops growing at cap.
Older(age, cap) == IF age < cap THEN age + 1 ELSE age

-----------------------------------------------------------------------------
\* tbfs_mng_create: an empty table, zero time stamps, the timer added.
Init ==
    /\ h_torrent_data = {}
    /\ being_checked = [t \in Torrents |-> FALSE]
    /\ torrent_age = [t \in Torrents |-> TorrentCheckSec]
    /\ tracker_age = CheckSec
    /\ ev_timer = TRUE
    /\ in_flight = [t \in Torrents |-> 0]
    /\ ask_age = [t \in Torrents |-> TorrentCheckSec]

\* Fault: the table is not searched for the torrent.
RegisterAgain(t) ==
    /\ h_torrent_data' = h_torrent_data \cup {t}
    /\ being_checked' = [being_checked EXCEPT ![t] = FALSE]
    /\ torrent_age' = [torrent_age EXCEPT ![t] = TorrentCheckSec]
    /\ UNCHANGED <<tracker_age, ev_timer, in_flight, ask_age>>

\* tbfs_mng_torrent_register: refuses a known hash, else adds a TorrentData
\* that is not being checked and was never checked.
Register(t) ==
    /\ t \notin h_torrent_data
    /\ h_torrent_data' = h_torrent_data \cup {t}
    /\ being_checked' = [being_checked EXCEPT ![t] = FALSE]
    /\ torrent_age' = [torrent_age EXCEPT ![t] = TorrentCheckSec]
    /\ UNCHANGED <<tracker_age, ev_timer, in_flight, ask_age>>

\* Fault: the mark is not looked at.
DueUnmarked(t) ==
    /\ t \in h_torrent_data
    /\ torrent_age[t] >= TorrentCheckSec

\* The test of tbfs_mng_foreach_torrent.
Due(t) ==
    /\ t \in h_torrent_data
    /\ ~being_checked[t]
    /\ torrent_age[t] >= TorrentCheckSec

\* tbfs_mng_foreach_torrent over the whole table: every due torrent is marked
\* and asked about.  evhttp refuses the requests in refused on the spot: the
\* failure callback runs inside the loop and leaves the torrent marked.
AskTracker(refused) ==
    LET asked == {t \in Torrents : Due(t)}
    IN  /\ being_checked' =
               [t \in Torrents |-> being_checked[t] \/ t \in asked]
        /\ in_flight' =
               [t \in Torrents |-> IF t \in asked \ refused
                                   THEN in_flight[t] + 1 ELSE in_flight[t]]
        /\ ask_age' =
               [t \in Torrents |-> IF t \in asked THEN 0 ELSE ask_age[t]]

\* The test of tbfs_mng_on_timer_cb.
TrackerDue ==
    /\ h_torrent_data # {}
    /\ tracker_age >= CheckSec

\* Fault: the timer is not added again.
OnTimerOnce ==
    /\ ev_timer
    /\ TrackerDue
    /\ AskTracker({})
    /\ tracker_age' = 0
    /\ ev_timer' = FALSE
    /\ UNCHANGED <<h_torrent_data, torrent_age>>

\* tbfs_mng_on_timer_cb.  ev_timer is not persistent: libevent takes it off
\* its heap before the callback, and the last statement adds it again.
OnTimer ==
    /\ ev_timer
    /\ \/ /\ TrackerDue
          /\ \E refused \in SUBSET {t \in Torrents : Due(t)} :
                AskTracker(refused)
          /\ tracker_age' = 0
       \/ /\ ~TrackerDue
          /\ UNCHANGED <<being_checked, in_flight, ask_age, tracker_age>>
    /\ ev_timer' = TRUE
    /\ UNCHANGED <<h_torrent_data, torrent_age>>

\* Fault: the answer does not set last_checked.
TrackerAnswersUnstamped(t) ==
    /\ in_flight[t] > 0
    /\ in_flight' = [in_flight EXCEPT ![t] = @ - 1]
    /\ being_checked' = [being_checked EXCEPT ![t] = FALSE]
    /\ UNCHANGED <<h_torrent_data, torrent_age, tracker_age, ev_timer, ask_age>>

\* A 200 answer with a well formed peer list: tbfs_mng_on_torrent_checked_cb
\* with status TRUE.  What it does to the peers is PeerConn's.
TrackerAnswers(t) ==
    /\ in_flight[t] > 0
    /\ in_flight' = [in_flight EXCEPT ![t] = @ - 1]
    /\ IF t \in h_torrent_data
       THEN /\ being_checked' = [being_checked EXCEPT ![t] = FALSE]
            /\ torrent_age' = [torrent_age EXCEPT ![t] = 0]
       ELSE UNCHANGED <<being_checked, torrent_age>>
    /\ UNCHANGED <<h_torrent_data, tracker_age, ev_timer, ask_age>>

\* Fault: no return after the failure callback, so that it is run twice and
\* its TrackerRequestData is freed twice.
TrackerFailsTwice(t) ==
    /\ in_flight[t] > 0
    /\ in_flight' = [in_flight EXCEPT ![t] = @ - 2]
    /\ UNCHANGED <<h_torrent_data, being_checked, torrent_age, tracker_age,
                   ev_timer, ask_age>>

\* No answer in time, a status other than 200, or a body that is not a
\* dictionary with a "peers" string of 6-byte entries: the callback runs with
\* status FALSE and returns before it touches the TorrentData.
TrackerFails(t) ==
    /\ in_flight[t] > 0
    /\ in_flight' = [in_flight EXCEPT ![t] = @ - 1]
    /\ UNCHANGED <<h_torrent_data, being_checked, torrent_age, tracker_age,
                   ev_timer, ask_age>>

\* A second of the wall clock.
Tick ==
    /\ torrent_age' =
           [t \in Torrents |-> Older(torrent_age[t], TorrentCheckSec)]
    /\ ask_age' = [t \in Torrents |-> Older(ask_age[t], TorrentCheckSec)]
    /\ tracker_age' = Older(tracker_age, CheckSec)
    /\ UNCHANGED <<h_torrent_data, being_checked, ev_timer, in_flight>>

Next ==
    \/ \E t \in Torrents : \/ Register(t)
                           \/ TrackerAnswers(t)
                           \/ TrackerFails(t)
    \/ OnTimer
    \/ Tick

Spec == Init /\ [][Next]_vars

\* libevent fires a pending timer, evhttp ends every request with a callback
\* (tracker.timeout, tracker.retries), and the clock runs.  Whether the
\* tracker answers or fails is left open.
Fairness ==
    /\ WF_vars(OnTimer)
    /\ WF_vars(Tick)
    /\ \A t \in Torrents : WF_vars(TrackerAnswers(t) \/ TrackerFails(t))

FairSpec == Spec /\ Fairness

-----------------------------------------------------------------------------
(***************************************************************************)
(* Properties                                                              *)
(***************************************************************************)
\* A torrent never has two announces outstanding, and one that has an announce
\* outstanding is marked, whichever way timer callbacks and answers interleave:
\* the answer is the only thing that unmarks a torrent (tbfs_mng.c:140), the
\* mark the only thing that stops the next timer from asking again
\* (tbfs_mng.c:150).
OneRequestPerTorrent ==
    \A t \in Torrents :
        /\ in_flight[t] <= 1
        /\ in_flight[t] = 1 => t \in h_torrent_data /\ being_checked[t]

\* Two announces for one torrent are at least tracker.torrent_check_sec apart,
\* however fast the tracker answers and however often the timer fires: the code
\* never looks at when it asked, only at when the answer came.
RequestSpacing ==
    [][\A t \in Torrents :
          in_flight'[t] > in_flight[t] => ask_age[t] >= TorrentCheckSec]_vars

\* The request for t failed: nothing is outstanding, and the mark stays.
Stuck(t) == being_checked[t] /\ in_flight[t] = 0

\* A registered torrent whose interval has passed is checked again, unless its
\* announce failed: the timer re-adds itself and no torrent starves another.
CheckedUnlessFailed ==
    \A t \in Torrents :
        (t \in h_torrent_data /\ torrent_age[t] = TorrentCheckSec)
            ~> (torrent_age[t] = 0 \/ Stuck(t))

\* A torrent whose announce failed once is never asked about again: no later
\* timer, answer to another torrent or registration clears its mark
\* (tbfs_mng.c:115-118 returns before tbfs_mng.c:140).
FailureIsFinal ==
    [][\A t \in Torrents : Stuck(t) => Stuck(t)']_vars

\* The node keeps the promise of AnnounceCycle, its liveness included.  Between
\* two answers a torrent is idle whether or not its interval has passed.
Phase(t) ==
    IF t \notin h_torrent_data THEN "unknown"
    ELSE IF ~being_checked[t] THEN "idle"
    ELSE IF in_flight[t] > 0 THEN "asked" ELSE "dead"

Cycle == INSTANCE AnnounceCycle WITH phase <- [t \in Torrents |-> Phase(t)]

ImplementsCycle == Cycle!FairSpec
=============================================================================
