---------------------------- MODULE AnnounceCycle ----------------------------
(***************************************************************************)
(* What the announce cycle promises, without timers, clocks and counters:  *)
(* a registered torrent is asked about again and again, one question at a  *)
(* time, until a question fails; then it is never asked about again.       *)
(* TorrentCheck implements it.                                             *)
(***************************************************************************)
CONSTANT Torrents

VARIABLE phase   \* "unknown", "idle", "asked" or "dead", per torrent

Init == phase = [t \in Torrents |-> "unknown"]

Register(t) ==
    /\ phase[t] = "unknown"
    /\ phase' = [phase EXCEPT ![t] = "idle"]

\* One timer asks about any number of idle torrents; a question can fail on
\* the spot.
Ask(asked, failed) ==
    /\ \A t \in asked : phase[t] = "idle"
    /\ phase' = [t \in Torrents |->
                    IF t \notin asked THEN phase[t]
                    ELSE IF t \in failed THEN "dead" ELSE "asked"]

AskAbout(t) ==
    \E asked, failed \in SUBSET Torrents : t \in asked /\ Ask(asked, failed)

Answer(t) == phase[t] = "asked" /\ phase' = [phase EXCEPT ![t] = "idle"]

Fail(t) == phase[t] = "asked" /\ phase' = [phase EXCEPT ![t] = "dead"]

Next ==
    \E t \in Torrents :
        Register(t) \/ AskAbout(t) \/ Answer(t) \/ Fail(t)

Spec == Init /\ [][Next]_phase

FairSpec ==
    /\ Spec
    /\ \A t \in Torrents : /\ WF_phase(AskAbout(t))
                           /\ WF_phase(Answer(t) \/ Fail(t))
=============================================================================
