-------------------------------- MODULE App --------------------------------
(***************************************************************************)
(* The life of the process (src/src/main.c): options, settings, the parts  *)
(* of the node one after the other, the loop, and the release of what was  *)
(* made, from any point at which something fails.  Module Node is what     *)
(* happens in the loop.                                                    *)
(*                                                                         *)
(* Every part is made once, so that a part stands for the pointer of       *)
(* Application that holds it.  A SIGINT may come at any time: it kills the *)
(* process while sigint_ev does not exist, and is kept for the loop once   *)
(* it does, also across the fork of wutils_daemonize, whose parent and     *)
(* child share the pair of sockets libevent reports signals on.            *)
(***************************************************************************)
EXTENDS Conf

CONSTANTS
    OptionSets,     \* the command lines: [bad, version, foreground, verbose,
                    \* peer_id, storage], the last two NULL unless given
    ConfFiles,      \* what the configuration file may hold
    UsableDirs      \* the directories that exist and can be written to

ASSUME ConfFilesAssumption == \A f \in ConfFiles : Legible(f)

VARIABLES
    pc,             \* where main is
    options,        \* the command line
    alive,          \* the parts Application points to
    lost,           \* what was allocated and nothing points to any more
    sigint,         \* is a SIGINT kept for the loop?
    detached,       \* did wutils_daemonize fork?
    status          \* how the process ended

appVars == <<pc, options, alive, lost, sigint, detached, status>>
vars == <<confVars, appVars>>

StorageDir == <<"storage", "dir">>
PeerID     == <<"peer", "peer_id">>
Foreground == <<"app", "foreground">>
LogLevel   == <<"log", "level">>
Listen     == <<"peer_server", "listen">>
Host       == <<"tracker", "host">>

LOG_msg   == 1
LOG_debug == 2

Events == {"sigint_ev", "sigpipe_ev", "sigusr1_ev"}
Parts  == Events \cup {"conf", "evbase", "dns_base", "mng", "storage_mng",
                       "cmd_server", "peer_server", "tracker_client"}

TypeOK ==
    /\ pc \in {"options", "parse", "settings", "signals", "daemonize", "loop",
               "destroy", "ended"} \cup Parts
    /\ alive \in SUBSET Parts
    /\ lost \in SUBSET {"contents", "nodes", "httpd", "bev"}
    /\ sigint \in BOOLEAN /\ detached \in BOOLEAN
    /\ status \in {"running", "ok", "version", "unhandled", "failed",
                   "killed", "crashed"}

\* Without a file: the defaults of main.c, of the settings that matter here.
\* There is none for the peer id.
Default == [n \in {StorageDir, Foreground, LogLevel, Listen, Host} |->
    CASE n = StorageDir -> [type |-> "string",  value |-> "storage/"]
      [] n = Foreground -> [type |-> "boolean", value |-> FALSE]
      [] n = LogLevel   -> [type |-> "int",     value |-> LOG_msg]
      [] n = Listen     -> [type |-> "string",  value |-> "0.0.0.0"]
      [] n = Host       -> [type |-> "string",  value |-> "10.0.0.197"]]

-----------------------------------------------------------------------------
Init ==
    /\ file \in ConfFiles \cup {NULL}
    /\ read = 0
    /\ h_conf = NoSettings
    /\ q_nodes = <<>>
    /\ pc = "options"
    /\ options \in OptionSets
    /\ alive = {}
    /\ lost = {}
    /\ sigint = FALSE
    /\ detached = FALSE
    /\ status = "running"

\* "application_destroy (app); return -1".
Fail == pc' = "destroy" /\ status' = "failed"

\* Lines 209-260: the command line, then the file, or the defaults if it
\* cannot be read.
ReadOptions ==
    /\ pc = "options"
    /\ \/ options.bad /\ Fail /\ UNCHANGED <<alive, h_conf>>
       \/ /\ ~options.bad
          /\ alive' = {"conf"}
          /\ IF file = NULL THEN pc' = "settings" /\ h_conf' = Default
                            ELSE pc' = "parse" /\ UNCHANGED h_conf
          /\ UNCHANGED status
    /\ UNCHANGED <<file, read, q_nodes, options, lost, sigint, detached>>

\* conf_parse_file: the parser calls back for every part of the file, and
\* fails at its end if something is still open; then the text of the file is
\* not freed.
ParseFile ==
    /\ pc = "parse"
    /\ \/ Callback /\ UNCHANGED appVars
       \/ /\ Orphan
          /\ pc' = "ended" /\ status' = "crashed"
          /\ UNCHANGED <<confVars, options, alive, lost, sigint, detached>>
       \/ /\ read = Len(file)
          /\ \/ Complete /\ pc' = "settings" /\ UNCHANGED <<lost, status>>
             \/ ~Complete /\ Fail /\ lost' = lost \cup {"contents"}
          /\ UNCHANGED <<confVars, options, alive, sigint, detached>>

\* Fault: the command line sets only what the file does not.
OverrideMissing(conf, given, type, name, value) ==
    IF given /\ name \notin DOMAIN conf THEN Put(conf, type, name, value) ELSE conf

\* A setter of main.c, called when the option was given.
Override(conf, given, type, name, value) ==
    IF given THEN Put(conf, type, name, value) ELSE conf

\* Lines 262-310: the command line overrides the settings, --version ends here
\* and frees nothing, and the directory and the peer id are required.
ApplyOptions ==
    LET conf1 == Override(h_conf, options.verbose, "int", LogLevel, LOG_debug)
        conf2 == Override(conf1, options.peer_id # NULL, "string", PeerID, options.peer_id)
        conf3 == Override(conf2, options.storage # NULL, "string", StorageDir, options.storage)
        conf4 == Override(conf3, options.foreground, "boolean", Foreground, TRUE)
        usable == Get(conf3, "string", StorageDir) \in UsableDirs
    IN  /\ pc = "settings"
        /\ \/ options.version /\ pc' = "ended" /\ status' = "version" /\ h_conf' = conf1
           \/ ~options.version /\ ~usable /\ Fail /\ h_conf' = conf3
           \/ /\ ~options.version /\ usable
              /\ h_conf' = conf4
              /\ \/ Get(conf4, "string", PeerID) = NULL /\ Fail
                 \/ Get(conf4, "string", PeerID) # NULL /\ pc' = "evbase" /\ UNCHANGED status
        /\ UNCHANGED <<file, read, q_nodes, options, alive, lost, sigint, detached>>

\* main makes part c and goes on at next.
Make(c, next) ==
    /\ pc = c
    /\ alive' = alive \cup {c}
    /\ pc' = next
    /\ UNCHANGED <<lost, status>>

\* main cannot make it, and L stays behind.
Unmade(c, L) ==
    /\ pc = c
    /\ lost' = lost \cup L
    /\ Fail
    /\ UNCHANGED alive

\* The handlers of the signals.  If that of SIGSEGV or SIGABRT is refused main
\* returns and destroys nothing.
MakeSignals ==
    /\ pc = "signals"
    /\ \/ alive' = alive \cup Events /\ pc' = "mng" /\ UNCHANGED status
       \/ alive' = alive \cup {"sigint_ev"} /\ pc' = "ended" /\ status' = "unhandled"
    /\ UNCHANGED lost

\* inet_aton is given the address of the peer server whether there is one or
\* not.
MakePeerServer ==
    IF Get(h_conf, "string", Listen) = NULL
    THEN /\ pc = "peer_server"
         /\ pc' = "ended" /\ status' = "crashed"
         /\ UNCHANGED <<alive, lost>>
    ELSE Make("peer_server", "tracker_client") \/ Unmade("peer_server", {})

\* Lines 312-390.  A command server that cannot bind leaves itself and its
\* evhttp behind, and a tracker client without a connection its bufferevent.
MakeParts ==
    /\ \/ Make("evbase", "dns_base") \/ Unmade("evbase", {})
       \/ Make("dns_base", "signals") \/ Unmade("dns_base", {})
       \/ MakeSignals
       \/ Make("mng", "storage_mng")
       \/ Make("storage_mng", "cmd_server")
       \/ Make("cmd_server", "peer_server") \/ Unmade("cmd_server", {"httpd"})
       \/ MakePeerServer
       \/ Get(h_conf, "string", Host) # NULL /\ Make("tracker_client", "daemonize")
       \/ Unmade("tracker_client", {}) \/ Unmade("tracker_client", {"bev"})
    /\ UNCHANGED <<confVars, options, sigint, detached>>

\* wutils_daemonize forks, or cannot; main does not ask.
Daemonize ==
    /\ pc = "daemonize"
    /\ pc' = "loop"
    /\ detached' \in (IF Get(h_conf, "boolean", Foreground) THEN {FALSE} ELSE BOOLEAN)
    /\ UNCHANGED <<confVars, options, alive, lost, sigint, status>>

\* Fault: a process that forked is not told of signals any more.
LeaveLoopAttached ==
    /\ pc = "loop" /\ sigint /\ ~detached
    /\ pc' = "destroy" /\ status' = "ok"
    /\ UNCHANGED <<confVars, options, alive, lost, sigint, detached>>

\* sigint_cb leaves the loop, and main goes on to application_destroy.
LeaveLoop ==
    /\ pc = "loop" /\ sigint
    /\ pc' = "destroy" /\ status' = "ok"
    /\ UNCHANGED <<confVars, options, alive, lost, sigint, detached>>

\* Fault: the loop is freed before its users.
ReleaseOrderBaseFirst ==
    <<"peer_server", "cmd_server", "mng", "evbase", "tracker_client",
      "storage_mng", "sigint_ev", "sigpipe_ev", "sigusr1_ev", "dns_base", "conf">>

\* Fault: the storage is forgotten.
ReleaseOrderShort ==
    <<"peer_server", "cmd_server", "mng", "tracker_client",
      "sigint_ev", "sigpipe_ev", "sigusr1_ev", "dns_base", "evbase", "conf">>

ReleaseOrder ==
    <<"peer_server", "cmd_server", "mng", "tracker_client", "storage_mng",
      "sigint_ev", "sigpipe_ev", "sigusr1_ev", "dns_base", "evbase", "conf">>

\* One test of application_destroy, or its end.  conf_destroy frees the table;
\* of the elements left open by a parser that failed it frees the queue alone.
Release ==
    /\ pc = "destroy"
    /\ LET left == {i \in DOMAIN ReleaseOrder : ReleaseOrder[i] \in alive}
       IN  \/ /\ left = {} /\ pc' = "ended"
              /\ UNCHANGED <<confVars, alive, lost>>
           \/ \E i \in left :
                 /\ \A j \in left : i <= j
                 /\ alive' = alive \ {ReleaseOrder[i]}
                 /\ IF ReleaseOrder[i] = "conf"
                    THEN /\ h_conf' = NoSettings /\ q_nodes' = <<>>
                         /\ lost' = lost \cup (IF q_nodes = <<>> THEN {} ELSE {"nodes"})
                    ELSE UNCHANGED <<h_conf, q_nodes, lost>>
                 /\ UNCHANGED <<file, read, pc>>
    /\ UNCHANGED <<options, sigint, detached, status>>

Main == ReadOptions \/ ParseFile \/ ApplyOptions \/ MakeParts \/ Daemonize
            \/ LeaveLoop \/ Release

\* The user interrupts the program.
Interrupt ==
    /\ pc # "ended" /\ ~sigint
    /\ \/ "sigint_ev" \in alive /\ sigint' = TRUE /\ UNCHANGED <<pc, status>>
       \/ /\ "sigint_ev" \notin alive
          /\ pc' = "ended" /\ status' = "killed"
          /\ UNCHANGED sigint
    /\ UNCHANGED <<confVars, options, alive, lost, detached>>

Next == Main \/ Interrupt

Spec == Init /\ [][Next]_vars

\* main does not wait for anything but the loop.
FairSpec == Spec /\ WF_vars(Main)

-----------------------------------------------------------------------------
(***************************************************************************)
(* Properties                                                              *)
(***************************************************************************)
\* A file that was parsed reads as it is written: the table has its settings
\* under their full names with the type and the text of the file, and nothing
\* else; of a name that is there twice the last, if it is found.
SettingsRead ==
    pc = "settings" /\ file # NULL =>
        /\ DOMAIN h_conf \subseteq {Name(s) : s \in Settings}
        /\ \A s \in Settings :
              LET last == Last1(Named(Name(s)))
              IN  /\ Named(Name(s)) = {s} => Name(s) \in DOMAIN h_conf
                  /\ Name(s) \in DOMAIN h_conf =>
                        /\ h_conf[Name(s)].type = file[last].type
                        /\ h_conf[Name(s)].value = Value(last)
        /\ q_nodes = <<>>

\* What a setting was before the command line.
Configured(type, name) ==
    IF file = NULL THEN {Get(Default, type, name)} ELSE Readings(type, name)

\* A node in its loop runs as it was told to: by the command line, else by the
\* file, else by the defaults, which a file replaces all at once; and it has a
\* directory it can use and a peer id, which nothing checks later.
RunsAsTold ==
    pc = "loop" =>
        LET dir     == Get(h_conf, "string", StorageDir)
            peer_id == Get(h_conf, "string", PeerID)
            level   == Get(h_conf, "int", LogLevel)
        IN  /\ IF options.storage # NULL THEN dir = options.storage
               ELSE dir \in Configured("string", StorageDir)
            /\ dir \in UsableDirs
            /\ IF options.peer_id # NULL THEN peer_id = options.peer_id
               ELSE peer_id \in Configured("string", PeerID)
            /\ peer_id # NULL
            /\ IF options.verbose THEN level = LOG_debug
               ELSE level \in Configured("int", LogLevel)
            /\ detached => ~options.foreground
                           /\ FALSE \in Configured("boolean", Foreground)

\* What the callbacks and the destroy function of a part use.
Needs == [c \in Parts |->
    CASE c \in Events \cup {"dns_base"}            -> {"evbase"}
      [] c = "mng"                                 -> {"evbase", "conf"}
      [] c = "storage_mng"                         -> {"conf"}
      [] c \in {"cmd_server", "peer_server"}       -> {"evbase", "conf", "mng"}
      [] c = "tracker_client"                      -> {"evbase", "dns_base", "conf"}
      [] OTHER                                     -> {}]

\* No part outlives what it uses, whatever was made when main gave up, and a
\* node enters its loop with every part.
NeedsMet ==
    /\ \A c \in alive : Needs[c] \subseteq alive
    /\ pc \in {"daemonize", "loop"} => alive = Parts

\* What application_destroy promises of the parts.
PartsReleased == pc = "ended" /\ status \in {"ok", "failed"} => alive = {}

\* application_destroy leaves no part behind, and after a SIGINT ("freeing all
\* used memory") nothing else of main's either; a start that failed may.
ReleasedAtEnd ==
    PartsReleased /\ (pc = "ended" /\ status = "ok" => lost = {})

\* A SIGINT that does not kill the process is not lost, though it comes before
\* the loop that reports it, the fork, or a failure: the process ends.
SigintStops == sigint ~> (pc = "ended")
=============================================================================
