----------------------------- MODULE AppProofs -----------------------------
(***************************************************************************)
(* Proofs about App, for any command lines, files and directories.  The    *)
(* parts that exist are a matter of where main is (MadeAt) until it gives  *)
(* up or is told to stop; from there on they only go, each after the parts *)
(* that use it (UsersFirst).  The parser's stack has a node for every open *)
(* element, under its full name (Stack), and the table the last of the     *)
(* settings that have ended (Table); what the getters return after the     *)
(* command line was applied follows from these (AsTold).                   *)
(***************************************************************************)
EXTENDS App, FiniteSetTheorems, TLAPS

\* The parts that exist when main has come this far.
MadeAt ==
    /\ pc = "options" => alive = {}
    /\ pc \in {"parse", "settings", "evbase"} => alive = {"conf"}
    /\ pc = "dns_base" => alive = {"conf", "evbase"}
    /\ pc = "signals" => alive = {"conf", "evbase", "dns_base"}
    /\ pc = "mng" => alive = {"conf", "evbase", "dns_base"} \cup Events
    /\ pc = "storage_mng" => alive = {"conf", "evbase", "dns_base", "mng"} \cup Events
    /\ pc = "cmd_server" =>
          alive = {"conf", "evbase", "dns_base", "mng", "storage_mng"} \cup Events
    /\ pc = "peer_server" =>
          alive = {"conf", "evbase", "dns_base", "mng", "storage_mng",
                   "cmd_server"} \cup Events
    /\ pc = "tracker_client" =>
          alive = {"conf", "evbase", "dns_base", "mng", "storage_mng",
                   "cmd_server", "peer_server"} \cup Events
    /\ pc \in {"daemonize", "loop"} => alive = Parts

Stages == {"options", "parse", "settings", "evbase", "dns_base", "signals",
           "mng", "storage_mng", "cmd_server", "peer_server", "tracker_client",
           "daemonize", "loop"}

Typed ==
    /\ pc \in Stages \cup {"destroy", "ended"}
    /\ alive \in SUBSET Parts
    /\ status \in {"running", "ok", "version", "unhandled", "failed",
                   "killed", "crashed"}

Kept == \A c \in alive : Needs[c] \subseteq alive

IInv == Typed /\ MadeAt /\ Kept /\ PartsReleased

-----------------------------------------------------------------------------
(***************************************************************************)
(* The order of application_destroy                                        *)
(***************************************************************************)
\* It names every part.
LEMMA AllReleased == \A c \in Parts : \E i \in DOMAIN ReleaseOrder : ReleaseOrder[i] = c
<1>1. DOMAIN ReleaseOrder = 1 .. 11  BY DEF ReleaseOrder
<1>2. /\ ReleaseOrder[1] = "peer_server" /\ ReleaseOrder[2] = "cmd_server"
      /\ ReleaseOrder[3] = "mng" /\ ReleaseOrder[4] = "tracker_client"
      /\ ReleaseOrder[5] = "storage_mng" /\ ReleaseOrder[6] = "sigint_ev"
      /\ ReleaseOrder[7] = "sigpipe_ev" /\ ReleaseOrder[8] = "sigusr1_ev"
      /\ ReleaseOrder[9] = "dns_base" /\ ReleaseOrder[10] = "evbase"
      /\ ReleaseOrder[11] = "conf"
  BY DEF ReleaseOrder
<1>3. {1, 2, 3, 4, 5, 6, 7, 8, 9, 10, 11} \subseteq 1 .. 11  OBVIOUS
<1> QED  BY <1>1, <1>2, <1>3 DEF Parts, Events

\* It names a part after every part that uses it.
LEMMA UsersFirst ==
    ASSUME NEW i \in DOMAIN ReleaseOrder, NEW c \in Parts,
           ReleaseOrder[i] \in Needs[c]
    PROVE  \E j \in DOMAIN ReleaseOrder : ReleaseOrder[j] = c /\ j < i
<1>1. DOMAIN ReleaseOrder = 1 .. 11  BY DEF ReleaseOrder
<1>2. /\ ReleaseOrder[1] = "peer_server" /\ ReleaseOrder[2] = "cmd_server"
      /\ ReleaseOrder[3] = "mng" /\ ReleaseOrder[4] = "tracker_client"
      /\ ReleaseOrder[5] = "storage_mng" /\ ReleaseOrder[6] = "sigint_ev"
      /\ ReleaseOrder[7] = "sigpipe_ev" /\ ReleaseOrder[8] = "sigusr1_ev"
      /\ ReleaseOrder[9] = "dns_base" /\ ReleaseOrder[10] = "evbase"
      /\ ReleaseOrder[11] = "conf"
  BY DEF ReleaseOrder
<1>3. Needs[c] \subseteq {"evbase", "conf", "mng", "dns_base"}
  BY DEF Needs, Parts, Events
<1>4. CASE ReleaseOrder[i] = "mng"
  <2>1. i = 3  BY <1>1, <1>2, <1>4
  <2>2. c \in {"cmd_server", "peer_server"}  BY <1>4 DEF Needs, Parts, Events
  <2> QED  BY <1>1, <1>2, <2>1, <2>2
<1>5. CASE ReleaseOrder[i] = "dns_base"
  <2>1. i = 9  BY <1>1, <1>2, <1>5
  <2>2. c = "tracker_client"  BY <1>5 DEF Needs, Parts, Events
  <2> QED  BY <1>1, <1>2, <2>1, <2>2
<1>6. CASE ReleaseOrder[i] = "evbase"
  <2>1. i = 10  BY <1>1, <1>2, <1>6
  <2>2. c \in Events \cup {"dns_base", "mng", "cmd_server", "peer_server",
                           "tracker_client"}
    BY <1>6 DEF Needs, Parts, Events
  <2> QED  BY <1>1, <1>2, <2>1, <2>2 DEF Events
<1>7. CASE ReleaseOrder[i] = "conf"
  <2>1. i = 11  BY <1>1, <1>2, <1>7
  <2>2. c # "conf"  BY <1>7 DEF Needs, Parts, Events
  <2>3. PICK j \in DOMAIN ReleaseOrder : ReleaseOrder[j] = c  BY AllReleased
  <2>4. j # 11  BY <1>2, <2>2, <2>3
  <2> QED  BY <1>1, <2>1, <2>3, <2>4
<1> QED  BY <1>3, <1>4, <1>5, <1>6, <1>7

-----------------------------------------------------------------------------
(***************************************************************************)
(* One step                                                                *)
(***************************************************************************)
LEMMA InitIInv == Init => IInv
BY DEF Init, IInv, Typed, Stages, Parts, MadeAt, Kept, PartsReleased

\* A step that leaves the parts alone and does not end in success or failure.
LEMMA SameParts ==
    ASSUME IInv, alive' = alive, Typed', MadeAt',
           pc' = "ended" => status' \notin {"ok", "failed"}
    PROVE  IInv'
BY DEF IInv, Kept, PartsReleased

\* Each step of main keeps IInv: reading the command line,
LEMMA ReadOptionsIInv == IInv /\ ReadOptions => IInv'
<1> SUFFICES ASSUME IInv, ReadOptions PROVE IInv'  OBVIOUS
<1>1. CASE options.bad
  BY <1>1 DEF IInv, ReadOptions, Fail, Typed, Stages, MadeAt, Kept, PartsReleased
<1>2. CASE ~options.bad
  <2>1. alive' = {"conf"} /\ pc' \in {"parse", "settings"} /\ status' = status
    BY <1>2 DEF ReadOptions
  <2>2. Kept'  BY <2>1 DEF Kept, Needs, Parts, Events
  <2> QED
    BY <2>1, <2>2 DEF IInv, Typed, Stages, MadeAt, PartsReleased, Parts
<1> QED  BY <1>1, <1>2

\* reading the file and applying the options,
LEMMA SettingsIInv == IInv /\ (ParseFile \/ ApplyOptions) => IInv'
<1> SUFFICES ASSUME IInv, ParseFile \/ ApplyOptions PROVE IInv'  OBVIOUS
<1>1. alive = {"conf"} /\ alive' = alive
  BY DEF IInv, MadeAt, ParseFile, ApplyOptions, appVars
<1>2. \/ pc' \in {"parse", "settings", "evbase"} /\ status' = status
      \/ pc' = "destroy" /\ status' = "failed"
      \/ pc' = "ended" /\ status' \in {"version", "crashed"}
  BY DEF IInv, Typed, ParseFile, ApplyOptions, Fail, appVars
<1> QED
  BY <1>1, <1>2, SameParts DEF IInv, Typed, Stages, MadeAt, Parts

\* making the parts, or failing at one of them,
LEMMA MakePartsIInv == IInv /\ MakeParts => IInv'
<1> SUFFICES ASSUME IInv, MakeParts PROVE IInv'  OBVIOUS
<1>1. CASE \E c \in Parts, next \in Stages :
               /\ Make(c, next)
               /\ <<c, next>> \in
                      {<<"evbase", "dns_base">>, <<"dns_base", "signals">>,
                       <<"mng", "storage_mng">>, <<"storage_mng", "cmd_server">>,
                       <<"cmd_server", "peer_server">>,
                       <<"peer_server", "tracker_client">>,
                       <<"tracker_client", "daemonize">>}
  <2>1. Typed' /\ MadeAt' /\ pc' \in Stages
    BY <1>1 DEF IInv, Make, Typed, MadeAt, Stages, Parts, Events
  <2>2. PICK c \in {"evbase", "dns_base", "mng", "storage_mng", "cmd_server",
                    "peer_server", "tracker_client"} :
            pc = c /\ alive' = alive \cup {c}
    BY <1>1 DEF Make
  <2>3. Needs[c] \subseteq alive
    BY <2>2 DEF IInv, MadeAt, Needs, Parts, Events
  <2>4. Kept'  BY <2>2, <2>3 DEF IInv, Kept
  <2> QED  BY <2>1, <2>4 DEF IInv, PartsReleased, Stages
<1>2. CASE \E c \in Parts, L \in SUBSET {"httpd", "bev"} : Unmade(c, L)
  <2>1. alive' = alive /\ pc' = "destroy" /\ status' = "failed"
    BY <1>2 DEF Unmade, Fail
  <2> QED  BY <2>1, SameParts DEF IInv, Typed, MadeAt
<1>3. CASE MakeSignals
  <2>1. CASE pc' = "mng"
    <3>1. Typed' /\ MadeAt' /\ pc' \in Stages
      BY <1>3, <2>1 DEF IInv, MakeSignals, Typed, MadeAt, Stages, Parts, Events
    <3>2. Kept'
      BY <1>3, <2>1 DEF IInv, MakeSignals, MadeAt, Kept, Needs, Parts, Events
    <3> QED  BY <2>1, <3>1, <3>2 DEF IInv, PartsReleased
  <2>2. CASE pc' # "mng"
    <3>1. /\ alive = {"conf", "evbase", "dns_base"}
          /\ alive' = alive \cup {"sigint_ev"}
          /\ pc' = "ended" /\ status' = "unhandled"
      BY <1>3, <2>2 DEF IInv, MadeAt, MakeSignals
    <3>2. Kept'  BY <3>1 DEF Kept, Needs, Parts, Events
    <3> QED
      BY <3>1, <3>2 DEF IInv, Typed, MadeAt, PartsReleased, Parts, Events
  <2> QED  BY <2>1, <2>2
<1>4. CASE pc' = "ended" /\ status' = "crashed" /\ alive' = alive
  BY <1>4, SameParts DEF IInv, Typed, MadeAt
<1> QED  BY <1>1, <1>2, <1>3, <1>4 DEF MakeParts, MakePeerServer, Parts, Stages

\* and what happens around the loop.
LEMMA LoopIInv == IInv /\ (Daemonize \/ LeaveLoop \/ Interrupt) => IInv'
<1> SUFFICES ASSUME IInv, Daemonize \/ LeaveLoop \/ Interrupt PROVE IInv'
  OBVIOUS
<1>1. alive' = alive  BY DEF Daemonize, LeaveLoop, Interrupt
<1>2. CASE Daemonize
  <2>1. pc = "daemonize" /\ pc' = "loop" /\ status' = status
    BY <1>2 DEF Daemonize
  <2> QED  BY <1>1, <2>1, SameParts DEF IInv, Typed, MadeAt, Stages
<1>3. CASE LeaveLoop
  <2>1. pc' = "destroy" /\ status' = "ok"  BY <1>3 DEF LeaveLoop
  <2> QED  BY <1>1, <2>1, SameParts DEF IInv, Typed, MadeAt
<1>4. CASE Interrupt
  <2>1. CASE pc' = pc /\ status' = status
    BY <1>1, <2>1 DEF IInv, Typed, MadeAt, Kept, PartsReleased
  <2>2. CASE pc' = "ended" /\ status' = "killed"
    BY <1>1, <2>2, SameParts DEF IInv, Typed, MadeAt
  <2> QED  BY <1>4, <2>1, <2>2 DEF Interrupt
<1> QED  BY <1>2, <1>3, <1>4

\* The part that goes first is used by none that is left.
LEMMA ReleaseIInv == IInv /\ Release => IInv'
<1> SUFFICES ASSUME IInv, Release PROVE IInv'  OBVIOUS
<1> DEFINE left == {i \in DOMAIN ReleaseOrder : ReleaseOrder[i] \in alive}
<1>1. pc = "destroy" /\ status' = status  BY DEF Release
<1>2. CASE left = {} /\ pc' = "ended" /\ alive' = alive
  <2>1. alive = {}
    BY <1>2, AllReleased DEF IInv, Typed
  <2> QED  BY <1>1, <1>2, <2>1 DEF IInv, Typed, MadeAt, Kept, PartsReleased
<1>3. CASE \E i \in left : /\ \A j \in left : i <= j
                           /\ alive' = alive \ {ReleaseOrder[i]} /\ pc' = pc
  <2>1. PICK i \in left : /\ \A j \in left : i <= j
                          /\ alive' = alive \ {ReleaseOrder[i]} /\ pc' = pc
    BY <1>3
  <2>2. ASSUME NEW c \in alive' PROVE Needs[c] \subseteq alive'
    <3>1. c \in alive /\ c \in Parts /\ Needs[c] \subseteq alive
      BY <2>1 DEF IInv, Typed, Kept
    <3>2. ReleaseOrder[i] \notin Needs[c]
      <4>1. SUFFICES ASSUME ReleaseOrder[i] \in Needs[c] PROVE FALSE  OBVIOUS
      <4>2. PICK j \in DOMAIN ReleaseOrder : ReleaseOrder[j] = c /\ j < i
        BY <3>1, <4>1, UsersFirst
      <4>3. j \in left /\ i \in Int /\ j \in Int
        BY <3>1, <4>2 DEF ReleaseOrder
      <4> QED  BY <2>1, <4>2, <4>3
    <3> QED  BY <2>1, <3>1, <3>2
  <2>3. Kept'  BY <2>2 DEF Kept
  <2> QED  BY <1>1, <2>1, <2>3 DEF IInv, Typed, MadeAt, PartsReleased
<1> QED  BY <1>2, <1>3 DEF Release

\* No step breaks IInv.
LEMMA NextIInv == IInv /\ [Next]_vars => IInv'
<1>1. IInv /\ UNCHANGED vars => IInv'
  BY DEF IInv, vars, appVars, Typed, MadeAt, Kept, PartsReleased
<1> QED
  BY <1>1, ReadOptionsIInv, SettingsIInv, MakePartsIInv, LoopIInv, ReleaseIInv
     DEF Next, Main

-----------------------------------------------------------------------------
(***************************************************************************)
(* Theorems                                                                *)
(***************************************************************************)
\* All of it together is invariant.
THEOREM Invariant == Spec => []IInv
<1> QED  BY InitIInv, NextIInv, PTL DEF Spec

\* No part outlives one it uses, and the loop is entered with every part,
\* whatever main was told and whatever failed.
THEOREM Needed == Spec => []NeedsMet
<1>1. IInv => NeedsMet  BY DEF IInv, Kept, MadeAt, NeedsMet
<1> QED  BY Invariant, <1>1, PTL

\* application_destroy leaves no part behind, from wherever main calls it.
THEOREM Released == Spec => []PartsReleased
<1>1. IInv => PartsReleased  BY DEF IInv
<1> QED  BY Invariant, <1>1, PTL

-----------------------------------------------------------------------------
(***************************************************************************)
(* How deep the elements of a file are.                                    *)
(***************************************************************************)
Count(f, i, tag) == Cardinality({p \in 1 .. i : f[p].tag = tag})

\* A callback more: how many of its kind there were.
LEMMA CountNext ==
    ASSUME NEW f, NEW i \in Nat, NEW tag
    PROVE  /\ Count(f, i, tag) \in Nat
           /\ Count(f, i + 1, tag)
                = Count(f, i, tag) + (IF f[i + 1].tag = tag THEN 1 ELSE 0)
<1> DEFINE S(k) == {p \in 1 .. k : f[p].tag = tag}
<1>1. IsFiniteSet(S(i)) /\ Cardinality(S(i)) \in Nat
  <2>1. IsFiniteSet(1 .. i)  BY FS_Interval
  <2>2. S(i) \in SUBSET (1 .. i)  OBVIOUS
  <2> QED  BY <2>1, <2>2, FS_Subset, FS_CardinalityType
<1>2. CASE f[i + 1].tag = tag
  <2>1. S(i + 1) = S(i) \cup {i + 1} /\ i + 1 \notin S(i)  BY <1>2
  <2> HIDE DEF S
  <2>2. Cardinality(S(i + 1)) = Cardinality(S(i)) + 1
    BY <1>1, <2>1, FS_AddElement
  <2> QED  BY <1>1, <1>2, <2>2 DEF Count, S
<1>3. CASE f[i + 1].tag # tag
  <2>1. S(i + 1) = S(i)  BY <1>3
  <2> HIDE DEF S
  <2> QED  BY <1>1, <1>3, <2>1 DEF Count, S
<1> QED  BY <1>2, <1>3

\* A callback more: how deep the parser is then.
LEMMA DepthNext ==
    ASSUME NEW f, NEW i \in Nat
    PROVE  /\ DepthIn(f, i) \in Int
           /\ f[i + 1].tag = "start" => DepthIn(f, i + 1) = DepthIn(f, i) + 1
           /\ f[i + 1].tag = "end" => DepthIn(f, i + 1) = DepthIn(f, i) - 1
           /\ f[i + 1].tag = "text" => DepthIn(f, i + 1) = DepthIn(f, i)
<1> DEFINE s(k) == Count(f, k, "start")
           e(k) == Count(f, k, "end")
<1>1. \A k : DepthIn(f, k) = s(k) - e(k)  BY DEF DepthIn, Count
<1>2. /\ s(i) \in Nat
      /\ s(i + 1) = s(i) + (IF f[i + 1].tag = "start" THEN 1 ELSE 0)
  BY CountNext
<1>3. /\ e(i) \in Nat
      /\ e(i + 1) = e(i) + (IF f[i + 1].tag = "end" THEN 1 ELSE 0)
  BY CountNext
<1> HIDE DEF s, e
<1> QED  BY <1>1, <1>2, <1>3

Values == STRING \cup BOOLEAN \cup {NULL, 0} \cup {Atoi[x] : x \in STRING}

Elements == [type : Types \cup {"node"}, full_name : Seq(STRING),
             value : Values, is_set : BOOLEAN]

\* What a text is converted to, and what stands for no text, are values.
LEMMA Values_Convert ==
    ASSUME NEW type, NEW text \in STRING
    PROVE  Convert(type, text) \in Values /\ Unset(type) \in Values
BY DEF Convert, Unset, Values

\* The name that a new element gets is a name.
LEMMA ParentNameType ==
    ASSUME q_nodes \in Seq(Elements)
    PROVE  ParentName \in Seq(STRING)
<1>1. CASE q_nodes = <<>>  BY <1>1 DEF ParentName
<1>2. CASE q_nodes # <<>>
  <2>1. Head(q_nodes).full_name \in Seq(STRING)
    <3>1. Head(q_nodes) \in Elements  BY <1>2
    <3> QED  BY <3>1 DEF Elements
  <2> DEFINE name == Head(q_nodes).full_name
  <2>2. Front(name) \in Seq(STRING)
    <3> HIDE DEF name
    <3> SUFFICES ASSUME name \in Seq(STRING) PROVE Front(name) \in Seq(STRING)
      BY <2>1 DEF name
    <3>1. CASE name = <<>>  BY <3>1 DEF Front
    <3>2. CASE name # <<>>  BY <3>2 DEF Front
    <3> QED  BY <3>1, <3>2
  <2> QED  BY <1>2, <2>1, <2>2 DEF ParentName
<1> QED  BY <1>1, <1>2

(***************************************************************************)
(* Which elements are open.                                                *)
(***************************************************************************)
LEMMA FileIs ==
    ASSUME file \in ConfFiles
    PROVE  /\ file \in Seq(Calls) /\ Len(file) \in Nat
           /\ \A i \in 0 .. Len(file) : Depth(i) \in Nat
           /\ \A p \in 1 .. Len(file) :
                 /\ file[p] \in Calls
                 /\ file[p].tag = "start" => Depth(p) = Depth(p - 1) + 1
                 /\ file[p].tag = "text" => Depth(p) = Depth(p - 1)
                 /\ file[p].tag = "end" => Depth(p) = Depth(p - 1) - 1
<1>1. file \in Seq(Calls) /\ Len(file) \in Nat
      /\ \A i \in 0 .. Len(file) : DepthIn(file, i) >= 0
  BY ConfFilesAssumption DEF Legible
<1>2. ASSUME NEW i \in 0 .. Len(file) PROVE Depth(i) \in Nat
  <2>1. DepthIn(file, i) \in Int  BY <1>1, DepthNext
  <2> QED  BY <1>1, <2>1 DEF Depth
<1>3. ASSUME NEW p \in 1 .. Len(file)
      PROVE  /\ file[p] \in Calls
             /\ file[p].tag = "start" => Depth(p) = Depth(p - 1) + 1
             /\ file[p].tag = "text" => Depth(p) = Depth(p - 1)
             /\ file[p].tag = "end" => Depth(p) = Depth(p - 1) - 1
  <2>1. p - 1 \in Nat /\ (p - 1) + 1 = p /\ file[p] \in Calls  BY <1>1
  <2> DEFINE i == p - 1
  <2>2. /\ file[i + 1].tag = "start" =>
              DepthIn(file, i + 1) = DepthIn(file, i) + 1
        /\ file[i + 1].tag = "end" =>
              DepthIn(file, i + 1) = DepthIn(file, i) - 1
        /\ file[i + 1].tag = "text" => DepthIn(file, i + 1) = DepthIn(file, i)
    BY <2>1, DepthNext
  <2> QED  BY <2>1, <2>2 DEF Depth
<1> QED  BY <1>1, <1>2, <1>3

\* An element stays open as long as the parser stays as deep as it is.
LEMMA OpenNext ==
    ASSUME NEW p \in Nat, NEW r \in Nat, p <= r
    PROVE  Open(p, r + 1) <=> Open(p, r) /\ Depth(r + 1) >= Depth(p)
<1>1. p .. r + 1 = (p .. r) \cup {r + 1}  OBVIOUS
<1> QED  BY <1>1 DEF Open

\* An element that has just started is open.
LEMMA OpenSelf ==
    ASSUME file \in ConfFiles, NEW p \in 0 .. Len(file) PROVE Open(p, p)
<1>1. p .. p = {p} /\ Depth(p) \in Nat  BY FileIs
<1>2. Depth(p) >= Depth(p)  BY <1>1
<1> QED  BY <1>1, <1>2 DEF Open

\* An element is open after r calls if one inside it is, and while one inside
\* it is open it is open too.
LEMMA OpenAround ==
    ASSUME file \in ConfFiles, NEW r \in 0 .. Len(file), NEW o \in 0 .. r,
           NEW p \in 0 .. o, Open(o, r)
    PROVE  Open(p, o) <=> Open(p, r)
<1>0. Len(file) \in Nat  BY FileIs
<1>1. \A i \in p .. r : i \in 0 .. Len(file)  BY <1>0
<1>2. \A i \in p .. r : Depth(i) \in Nat  BY <1>1, FileIs
<1>3. o \in p .. r /\ p \in p .. r /\ \A i \in p .. r : i \in p .. o \/ i \in o .. r
  BY <1>0
<1>4. \A i \in p .. o : i \in p .. r  BY <1>0
<1>5. ASSUME Open(p, r) PROVE Open(p, o)  BY <1>4, <1>5 DEF Open
<1>6. ASSUME Open(p, o) PROVE Open(p, r)
  <2>1. Depth(o) >= Depth(p)
    <3>1. o \in p .. o  BY <1>0
    <3> QED  BY <1>6, <3>1 DEF Open
  <2> SUFFICES ASSUME NEW i \in p .. r PROVE Depth(i) >= Depth(p)
    BY DEF Open
  <2>2. CASE i \in p .. o  BY <1>6, <2>2 DEF Open
  <2>3. CASE i \in o .. r
    <3>1. Depth(i) >= Depth(o)  BY <2>3 DEF Open
    <3>2. Depth(i) \in Nat /\ Depth(o) \in Nat /\ Depth(p) \in Nat
      BY <1>2, <1>3
    <3> QED  BY <2>1, <3>1, <3>2
  <2> QED  BY <1>3, <2>2, <2>3
<1> QED  BY <1>5, <1>6

(***************************************************************************)
(* The names.                                                              *)
(***************************************************************************)
LEMMA NamesSeq ==
    ASSUME NEW S, IsFiniteSet(S)
    PROVE  \E X : Names(S) \in Seq(X) /\ Len(Names(S)) = Cardinality(S)
<1> DEFINE n == Cardinality(S)
           place(i) == {p \in S : Cardinality({q \in S : q <= p}) = i}
           at(i) == file[CHOOSE p \in place(i) : TRUE].name
           X == {at(i) : i \in 1 .. n}
<1>1. n \in Nat  BY FS_CardinalityType
<1>2. Names(S) = [i \in 1 .. n |-> at(i)]  BY DEF Names
<1> HIDE DEF n, at
<1>3. [i \in 1 .. n |-> at(i)] \in [1 .. n -> X]  OBVIOUS
<1> HIDE DEF X
<1>4. Names(S) \in [1 .. n -> X]  BY <1>2, <1>3
<1>5. Names(S) \in Seq(X) /\ Len(Names(S)) = n  BY <1>1, <1>4
<1> QED  BY <1>5 DEF n

\* One more element, inside all the others.
LEMMA NamesNext ==
    ASSUME NEW S \in SUBSET Nat, IsFiniteSet(S), NEW p \in Nat,
           \A q \in S : q < p
    PROVE  Names(S \cup {p}) = Append(Names(S), file[p].name)
<1> DEFINE T == S \cup {p}
           n == Cardinality(S)
           up(U, x) == {q \in U : q <= x}
           place(U, i) == {x \in U : Cardinality(up(U, x)) = i}
           at(U, i) == file[CHOOSE x \in place(U, i) : TRUE].name
<1>1. n \in Nat /\ Cardinality(T) = n + 1
  <2>1. p \notin S  OBVIOUS
  <2> QED  BY <2>1, FS_AddElement, FS_CardinalityType
<1>2. \A U : Names(U) = [i \in 1 .. Cardinality(U) |-> at(U, i)]
  BY DEF Names
<1>3. \A x \in S : up(T, x) = up(S, x)  OBVIOUS
<1>4. up(T, p) = T
  <2>1. p <= p /\ \A q \in S : q <= p
    <3>1. \A q \in S : q \in Nat /\ q < p  OBVIOUS
    <3> QED  BY <3>1
  <2> QED  BY <2>1
<1>5. \A x \in S : Cardinality(up(S, x)) \in Nat /\ Cardinality(up(S, x)) <= n
  <2> SUFFICES ASSUME NEW x \in S
               PROVE  Cardinality(up(S, x)) \in Nat /\ Cardinality(up(S, x)) <= n
    OBVIOUS
  <2>1. up(S, x) \in SUBSET S  OBVIOUS
  <2> HIDE DEF up
  <2> QED  BY <2>1, FS_Subset, FS_CardinalityType
<1>6. \A i \in 1 .. n : place(T, i) = place(S, i)
  <2> SUFFICES ASSUME NEW i \in 1 .. n PROVE place(T, i) = place(S, i)
    OBVIOUS
  <2>1. Cardinality(up(T, p)) # i  BY <1>1, <1>4
  <2> HIDE DEF up
  <2> QED  BY <1>3, <2>1
<1>7. place(T, n + 1) = {p}
  <2>1. Cardinality(up(T, p)) = n + 1  BY <1>1, <1>4
  <2>2. \A x \in S : Cardinality(up(T, x)) # n + 1  BY <1>1, <1>3, <1>5
  <2> HIDE DEF up
  <2> QED  BY <2>1, <2>2
<1>8. at(T, n + 1) = file[p].name
  <2>1. (CHOOSE x \in {p} : TRUE) = p  OBVIOUS
  <2> HIDE DEF place
  <2> QED  BY <1>7, <2>1
<1>9. \A i \in 1 .. n : at(T, i) = at(S, i)
  <2> HIDE DEF place
  <2> QED  BY <1>6
<1> HIDE DEF at, T
<1>10. PICK X : Names(S) \in Seq(X) /\ Len(Names(S)) = n  BY NamesSeq
<1> DEFINE a == Append(Names(S), file[p].name)
<1>11. a = [i \in 1 .. n + 1 |-> IF i = n + 1 THEN file[p].name ELSE Names(S)[i]]
  <2> DEFINE Y == X \cup {file[p].name}
             name == file[p].name
  <2>1. Names(S) \in Seq(Y) /\ name \in Y  BY <1>10
  <2> HIDE DEF Y, name
  <2>2. a \in Seq(Y) /\ Len(a) = n + 1 /\ a[n + 1] = name
        /\ \A i \in 1 .. n : a[i] = Names(S)[i]
    BY <1>1, <1>10, <2>1 DEF name
  <2> HIDE DEF a
  <2>3. a = [i \in 1 .. n + 1 |-> a[i]]  BY <2>2
  <2>4. \A i \in 1 .. n + 1 : a[i] = IF i = n + 1 THEN name ELSE Names(S)[i]
    <3>1. \A i \in 1 .. n + 1 : i = n + 1 \/ i \in 1 .. n  BY <1>1
    <3>2. \A i \in 1 .. n : i # n + 1  BY <1>1
    <3> QED  BY <2>2, <3>1, <3>2
  <2> QED  BY <2>3, <2>4 DEF name
<1>12. Names(T) = [i \in 1 .. n + 1 |-> at(T, i)]  BY <1>1, <1>2
<1>13. \A i \in 1 .. n : Names(S)[i] = at(S, i)  BY <1>2
<1>14. \A i \in 1 .. n + 1 : at(T, i) = IF i = n + 1 THEN file[p].name
                                      ELSE Names(S)[i]
  <2> SUFFICES ASSUME NEW i \in 1 .. n + 1
               PROVE  at(T, i) = IF i = n + 1 THEN file[p].name ELSE Names(S)[i]
    OBVIOUS
  <2>1. CASE i = n + 1  BY <1>8, <2>1
  <2>2. CASE i # n + 1
    <3>1. i \in 1 .. n  BY <1>1, <2>2
    <3> QED  BY <1>9, <1>13, <2>2, <3>1
  <2> QED  BY <2>1, <2>2
<1> QED  BY <1>11, <1>12, <1>14 DEF T

\* No elements have no names.
LEMMA NamesNone == Names({}) = <<>>
<1>1. Cardinality({}) = 0 /\ 1 .. 0 = {}  BY FS_EmptySet
<1> QED  BY <1>1 DEF Names

\* What was appended is what Front takes away.
LEMMA FrontAppend ==
    ASSUME NEW X, NEW s \in Seq(X), NEW x PROVE Front(Append(s, x)) = s
<1> DEFINE Y == X \cup {x}
           a == Append(s, x)
<1>1. s \in Seq(Y) /\ x \in Y  OBVIOUS
<1>2. a \in Seq(Y) /\ Len(a) = Len(s) + 1 /\ Len(s) \in Nat
      /\ \A i \in 1 .. Len(s) : a[i] = s[i]
  BY <1>1
<1> HIDE DEF a, Y
<1>3. Front(a) = SubSeq(a, 1, Len(s))
  <2>1. Len(a) - 1 = Len(s)  BY <1>2
  <2> QED  BY <2>1 DEF Front
<1> DEFINE b == SubSeq(a, 1, Len(s))
<1>4. b \in Seq(Y) /\ Len(b) = Len(s) /\ \A i \in 1 .. Len(s) : b[i] = a[i]
  BY <1>2
<1> HIDE DEF b
<1>5. b = s  BY <1>1, <1>2, <1>4
<1> QED  BY <1>3, <1>5 DEF a, b

(***************************************************************************)
(* The elements the parser has open and those it is done with, call by     *)
(* call.                                                                   *)
(***************************************************************************)
\* The elements that are open after r calls, as far as they have a node.
Opens(r) == {p \in 1 .. r : /\ file[p].tag = "start" /\ file[p].name # "conf"
                            /\ Open(p, r)}

\* The settings that are in the table after r calls, or were.
Done(r) == {s \in Settings : s <= r /\ ~Open(s, r)}

\* Only an end closes elements, those that are as deep as the parser.
LEMMA StillOpen ==
    ASSUME file \in ConfFiles, NEW r \in Nat, r < Len(file), NEW p \in 1 .. r
    PROVE  /\ file[r + 1].tag # "end" => (Open(p, r + 1) <=> Open(p, r))
           /\ file[r + 1].tag = "end" =>
                 (Open(p, r + 1) <=> Open(p, r) /\ Depth(p) < Depth(r))
<1>1. /\ r \in 0 .. Len(file) /\ r + 1 \in 1 .. Len(file) /\ p \in 0 .. Len(file)
      /\ r + 1 \in 0 .. Len(file) /\ (r + 1) - 1 = r
  <2>1. Len(file) \in Nat  BY FileIs
  <2> QED  BY <2>1
<1>2. Depth(p) \in Nat /\ Depth(r) \in Nat /\ Depth(r + 1) \in Nat
  BY <1>1, FileIs
<1>3. /\ file[r + 1].tag \in {"start", "text", "end"}
      /\ file[r + 1].tag = "start" => Depth(r + 1) = Depth(r) + 1
      /\ file[r + 1].tag = "text" => Depth(r + 1) = Depth(r)
      /\ file[r + 1].tag = "end" => Depth(r + 1) = Depth(r) - 1
  BY <1>1, FileIs DEF Calls
<1>4. Open(p, r + 1) <=> Open(p, r) /\ Depth(r + 1) >= Depth(p)
  <2>1. p \in Nat /\ p <= r  OBVIOUS
  <2> QED  BY <2>1, OpenNext
<1>5. Open(p, r) => Depth(r) >= Depth(p)
  <2>1. r \in p .. r  OBVIOUS
  <2> QED  BY <2>1 DEF Open
<1> QED  BY <1>2, <1>3, <1>4, <1>5

\* A callback more: which elements are open.
LEMMA OpensNext ==
    ASSUME file \in ConfFiles, NEW r \in Nat, r < Len(file)
    PROVE  /\ file[r + 1].tag = "start" /\ file[r + 1].name # "conf" =>
                 Opens(r + 1) = Opens(r) \cup {r + 1}
           /\ file[r + 1].tag = "start" /\ file[r + 1].name = "conf" =>
                 Opens(r + 1) = Opens(r)
           /\ file[r + 1].tag = "text" => Opens(r + 1) = Opens(r)
           /\ file[r + 1].tag = "end" =>
                 Opens(r + 1) = {p \in Opens(r) : Depth(p) < Depth(r)}
<1>1. 1 .. r + 1 = (1 .. r) \cup {r + 1}  OBVIOUS
<1>2. Open(r + 1, r + 1)
  <2>1. r + 1 \in 0 .. Len(file)
    <3>1. Len(file) \in Nat  BY FileIs
    <3> QED  BY <3>1
  <2> QED  BY <2>1, OpenSelf
<1>3. \A p \in 1 .. r :
         /\ file[r + 1].tag # "end" => (Open(p, r + 1) <=> Open(p, r))
         /\ file[r + 1].tag = "end" =>
               (Open(p, r + 1) <=> Open(p, r) /\ Depth(p) < Depth(r))
  BY StillOpen
<1> DEFINE N == r + 1
<1> HIDE DEF N
<1>4. /\ 1 .. N = (1 .. r) \cup {N} /\ Open(N, N)
      /\ \A p \in 1 .. r :
         /\ file[N].tag # "end" => (Open(p, N) <=> Open(p, r))
         /\ file[N].tag = "end" =>
               (Open(p, N) <=> Open(p, r) /\ Depth(p) < Depth(r))
  BY <1>1, <1>2, <1>3 DEF N
<1> SUFFICES
       /\ file[N].tag = "start" /\ file[N].name # "conf" =>
                 Opens(N) = Opens(r) \cup {N}
       /\ file[N].tag = "start" /\ file[N].name = "conf" => Opens(N) = Opens(r)
       /\ file[N].tag = "text" => Opens(N) = Opens(r)
       /\ file[N].tag = "end" =>
                 Opens(N) = {p \in Opens(r) : Depth(p) < Depth(r)}
  BY DEF N
<1> QED  BY <1>4 DEF Opens

\* A callback more: which settings have ended.
LEMMA DoneNext ==
    ASSUME file \in ConfFiles, NEW r \in Nat, r < Len(file)
    PROVE  /\ file[r + 1].tag # "end" => Done(r + 1) = Done(r)
           /\ file[r + 1].tag = "end" =>
                 Done(r + 1) = Done(r) \cup
                                 {p \in Settings \cap Opens(r) : ~(Depth(p) < Depth(r))}
<1>1. \A p \in 1 .. r :
         /\ file[r + 1].tag # "end" => (Open(p, r + 1) <=> Open(p, r))
         /\ file[r + 1].tag = "end" =>
               (Open(p, r + 1) <=> Open(p, r) /\ Depth(p) < Depth(r))
  BY StillOpen
<1>2. Open(r + 1, r + 1)
  <2>1. r + 1 \in 0 .. Len(file)
    <3>1. Len(file) \in Nat  BY FileIs
    <3> QED  BY <3>1
  <2> QED  BY <2>1, OpenSelf
<1>3. \A s \in Settings : /\ s \in 1 .. Len(file) /\ file[s].tag = "start"
                          /\ file[s].name # "conf"
  <2>1. file \in Seq(Calls)  BY FileIs
  <2>2. DOMAIN file = 1 .. Len(file)  BY <2>1
  <2>3. \A s \in DOMAIN file : file[s].tag = "start" =>
           (file[s].name = "conf" => file[s].type \notin Types)
    BY ConfFilesAssumption DEF Legible
  <2> QED  BY <2>2, <2>3 DEF Settings
<1>4. \A s \in Settings : s <= r + 1 <=> s \in 1 .. r \/ s = r + 1
  <2>1. Len(file) \in Nat  BY FileIs
  <2> QED  BY <1>3, <2>1
<1>5. \A s \in Settings : s <= r <=> s \in 1 .. r
  <2>1. Len(file) \in Nat  BY FileIs
  <2> QED  BY <1>3, <2>1
<1> DEFINE N == r + 1
<1> HIDE DEF N
<1>6. \A s \in Settings : s <= N /\ ~Open(s, N) <=> s \in 1 .. r /\ ~Open(s, N)
  BY <1>2, <1>4 DEF N
<1>7. \A p \in 1 .. r :
         /\ file[N].tag # "end" => (Open(p, N) <=> Open(p, r))
         /\ file[N].tag = "end" =>
               (Open(p, N) <=> Open(p, r) /\ Depth(p) < Depth(r))
  BY <1>1 DEF N
<1>8. Done(N) = {s \in Settings : s \in 1 .. r /\ ~Open(s, N)}
  BY <1>6 DEF Done
<1>9. Done(r) = {s \in Settings : s \in 1 .. r /\ ~Open(s, r)}
  BY <1>5 DEF Done
<1>10. Settings \cap Opens(r) = {s \in Settings : s \in 1 .. r /\ Open(s, r)}
  BY <1>3 DEF Opens
<1> SUFFICES /\ file[N].tag # "end" => Done(N) = Done(r)
             /\ file[N].tag = "end" =>
                 Done(N) = Done(r) \cup
                             {p \in Settings \cap Opens(r) : ~(Depth(p) < Depth(r))}
  BY DEF N
<1> QED  BY <1>7, <1>8, <1>9, <1>10

\* Of two open elements the later one is inside.
LEMMA Inside ==
    ASSUME file \in ConfFiles, NEW r \in 0 .. Len(file), NEW p \in Opens(r),
           NEW o \in Opens(r), p < o
    PROVE  Depth(p) < Depth(o)
<1>0. Len(file) \in Nat  BY FileIs
<1>1. /\ p \in 1 .. r /\ o \in 1 .. r /\ file[o].tag = "start" /\ Open(p, r)
      /\ o \in 1 .. Len(file) /\ o - 1 \in p .. r
      /\ p \in 0 .. Len(file) /\ o - 1 \in 0 .. Len(file)
  BY <1>0 DEF Opens
<1>2. Depth(o) = Depth(o - 1) + 1  BY <1>1, FileIs
<1>3. Depth(o - 1) >= Depth(p)  BY <1>1 DEF Open
<1>4. Depth(p) \in Nat /\ Depth(o - 1) \in Nat  BY <1>1, FileIs
<1> QED  BY <1>2, <1>3, <1>4

(***************************************************************************)
(* The stack has a node for every open element, the innermost first.       *)
(***************************************************************************)
Kind(p)  == IF file[p].type \in Types THEN file[p].type ELSE "node"
Place(p, r) == Depth(r) - Depth(p) + 1

\* The node of the element p after r calls.
IsNode(n, p, r) ==
    /\ n.full_name = Name(p) /\ n.type = Kind(p)
    /\ p \in Settings =>
          IF p < r THEN n.is_set /\ n.value = Value(p)
          ELSE ~n.is_set /\ n.value = Unset(n.type)

Stack(r, q) ==
    /\ q \in Seq(Elements)
    /\ \A p \in Opens(r) : Place(p, r) \in 1 .. Len(q) /\ IsNode(q[Place(p, r)], p, r)
    /\ \A i \in 1 .. Len(q) : \E p \in Opens(r) : Place(p, r) = i

\* The open elements, which are sections unless they are settings.
LEMMA OpenIs ==
    ASSUME file \in ConfFiles, NEW r \in 0 .. Len(file), NEW p \in Opens(r)
    PROVE  /\ p \in 1 .. r /\ p \in 1 .. Len(file) /\ p \in 0 .. Len(file)
           /\ file[p] \in Calls /\ file[p].tag = "start" /\ file[p].name # "conf"
           /\ Open(p, r) /\ Depth(p) \in Nat /\ Depth(r) \in Nat /\ Depth(p) <= Depth(r)
           /\ Kind(p) = "node" <=> p \notin Settings
           /\ p \notin Settings <=> file[p].type \notin Types
<1>0. Len(file) \in Nat /\ DOMAIN file = 1 .. Len(file)
  <2>1. file \in Seq(Calls)  BY FileIs
  <2> QED  BY <2>1
<1>1. /\ p \in 1 .. r /\ p \in 1 .. Len(file) /\ p \in 0 .. Len(file)
      /\ file[p].tag = "start" /\ file[p].name # "conf" /\ Open(p, r) /\ r \in p .. r
  BY <1>0 DEF Opens
<1>2. file[p] \in Calls /\ Depth(p) \in Nat /\ Depth(r) \in Nat  BY <1>1, FileIs
<1>3. Depth(p) <= Depth(r)
  <2>1. Depth(r) >= Depth(p)  BY <1>1 DEF Open
  <2> QED  BY <1>2, <2>1
<1>4. p \in Settings <=> file[p].type \in Types  BY <1>0, <1>1 DEF Settings
<1>5. "node" \notin Types  BY DEF Types
<1> QED  BY <1>1, <1>2, <1>3, <1>4, <1>5 DEF Kind

\* The sections around a new element are the open ones.
LEMMA SectionsNext ==
    ASSUME file \in ConfFiles, NEW r \in Nat, r < Len(file),
           file[r + 1].tag = "start"
    PROVE  Sections(r + 1) = {p \in Opens(r) : p \notin Settings}
<1>0. r \in 0 .. Len(file) /\ (r + 1) - 1 = r
  <2>1. Len(file) \in Nat  BY FileIs
  <2> QED  BY <2>1
<1>1. \A p \in 1 .. r : Open(p, r + 1) <=> Open(p, r)  BY StillOpen
<1>2. Sections(r + 1) = {p \in Opens(r) : file[p].type \notin Types}
  BY <1>0, <1>1 DEF Sections, Opens
<1>3. \A p \in Opens(r) : p \notin Settings <=> file[p].type \notin Types
  BY <1>0, OpenIs
<1> QED  BY <1>2, <1>3

\* Those around the innermost open element are the others.
LEMMA SectionsInner ==
    ASSUME file \in ConfFiles, NEW r \in 0 .. Len(file), NEW o \in Opens(r),
           \A p \in Opens(r) : p <= o
    PROVE  Sections(o) = {p \in Opens(r) : p \notin Settings /\ p # o}
<1>1. /\ Len(file) \in Nat /\ o \in 1 .. r /\ o \in 0 .. r /\ Open(o, r)
  <2>1. Len(file) \in Nat /\ o \in 1 .. r /\ Open(o, r)  BY FileIs, OpenIs
  <2> QED  BY <2>1
<1>2. \A p \in 1 .. o - 1 : Open(p, o) <=> Open(p, r)
  <2> SUFFICES ASSUME NEW p \in 1 .. o - 1 PROVE Open(p, o) <=> Open(p, r)
    OBVIOUS
  <2>1. p \in 0 .. o  BY <1>1
  <2> QED  BY <1>1, <2>1, OpenAround
<1>3. \A p \in Opens(r) : p \in 1 .. r /\ (p \notin Settings <=> file[p].type \notin Types)
  BY OpenIs
<1>4. ASSUME NEW p \in Opens(r), p # o PROVE p \in 1 .. o - 1
  <2>1. p \in 1 .. r /\ p <= o  BY <1>3
  <2> QED  BY <1>1, <1>4, <2>1
<1>5. ASSUME NEW p \in 1 .. o - 1 PROVE p \in 1 .. r /\ p # o  BY <1>1
<1> QED  BY <1>2, <1>3, <1>4, <1>5 DEF Sections, Opens

\* The name of the section that a new element belongs to, as the code finds it
\* in the head of the stack.
LEMMA ParentIs ==
    ASSUME file \in ConfFiles, NEW r \in Nat, r < Len(file),
           file[r + 1].tag = "start", q_nodes \in Seq(Elements), Stack(r, q_nodes)
    PROVE  ParentName = Names(Sections(r + 1))
<1> DEFINE O == {p \in Opens(r) : p \notin Settings}
<1>0. r \in 0 .. Len(file) /\ Len(file) \in Nat
  <2>1. Len(file) \in Nat  BY FileIs
  <2> QED  BY <2>1
<1>1. Sections(r + 1) = O  BY SectionsNext
<1>2. CASE q_nodes = <<>>
  <2>1. 1 .. Len(q_nodes) = {}  BY <1>2
  <2>2. Opens(r) = {}  BY <2>1 DEF Stack
  <2>3. O = {}  BY <2>2
  <2> QED  BY <1>1, <1>2, <2>3, NamesNone DEF ParentName
<1>3. CASE q_nodes # <<>>
  <2>1. 1 \in 1 .. Len(q_nodes) /\ Head(q_nodes) = q_nodes[1]  BY <1>3
  <2>2. PICK o \in Opens(r) : Place(o, r) = 1 /\ IsNode(q_nodes[1], o, r)
    BY <2>1 DEF Stack
  <2>3. Depth(o) = Depth(r)
    <3>1. Depth(o) \in Nat /\ Depth(r) \in Nat  BY <1>0, OpenIs
    <3> QED  BY <2>2, <3>1 DEF Place
  <2>4. \A p \in Opens(r) : p <= o
    <3> SUFFICES ASSUME NEW p \in Opens(r) PROVE p <= o  OBVIOUS
    <3>1. p \in 1 .. r /\ o \in 1 .. r /\ Depth(p) \in Nat /\ Depth(r) \in Nat
          /\ Depth(p) <= Depth(r)
      BY <1>0, OpenIs
    <3>2. o < p => Depth(o) < Depth(p)  BY <1>0, Inside
    <3> QED  BY <2>3, <3>1, <3>2
  <2> DEFINE S == Sections(o)
  <2>5. S = {p \in Opens(r) : p \notin Settings /\ p # o}
    BY <1>0, <2>4, SectionsInner
  <2>6. S \in SUBSET Nat /\ IsFiniteSet(S) /\ o \in Nat /\ \A p \in S : p < o
    <3>1. \A p \in Opens(r) : p \in 1 .. r  BY <1>0, OpenIs
    <3>2. S \in SUBSET (1 .. r)  BY <2>5, <3>1
    <3>3. IsFiniteSet(1 .. r)  BY <1>0, FS_Interval
    <3>4. \A p \in S : p <= o /\ p # o  BY <2>4, <2>5
    <3> HIDE DEF S
    <3>5. IsFiniteSet(S)  BY <3>2, <3>3, FS_Subset
    <3>6. \A p \in S : p \in Nat /\ o \in Nat  BY <3>1, <3>2
    <3>7. S \in SUBSET Nat /\ o \in Nat  BY <3>1, <3>2
    <3> QED  BY <3>4, <3>5, <3>6, <3>7
  <2>7. /\ q_nodes[1].full_name = Append(Names(S), file[o].name)
        /\ q_nodes[1].type = "node" <=> o \notin Settings
    <3>1. Kind(o) = "node" <=> o \notin Settings  BY <1>0, OpenIs
    <3> QED  BY <2>2, <3>1 DEF IsNode, Name
  <2>8. CASE o \in Settings
    <3>1. O = S  BY <2>5, <2>8
    <3>2. ParentName = Front(Append(Names(S), file[o].name))
      BY <1>3, <2>1, <2>7, <2>8 DEF ParentName
    <3> HIDE DEF S, O
    <3>3. PICK X : Names(S) \in Seq(X)  BY <2>6, NamesSeq
    <3>4. Front(Append(Names(S), file[o].name)) = Names(S)  BY <3>3, FrontAppend
    <3> QED  BY <1>1, <3>1, <3>2, <3>4
  <2>9. CASE o \notin Settings
    <3>1. O = S \cup {o}  BY <2>5, <2>9
    <3>2. ParentName = Append(Names(S), file[o].name)
      BY <1>3, <2>1, <2>7, <2>9 DEF ParentName
    <3> HIDE DEF S, O
    <3>3. Names(S \cup {o}) = Append(Names(S), file[o].name)
      BY <2>6, NamesNext
    <3> QED  BY <1>1, <3>1, <3>2, <3>3
  <2> QED  BY <2>8, <2>9
<1> QED  BY <1>2, <1>3

\* A setting has its text before there is an element inside it.
LEMMA TextFirst ==
    ASSUME file \in ConfFiles, NEW r \in Nat, r < Len(file),
           NEW p \in Opens(r) \cap Settings, file[r + 1].tag = "start"
    PROVE  p < r
<1>1. r \in 0 .. Len(file) /\ Len(file) \in Nat
  <2>1. Len(file) \in Nat  BY FileIs
  <2> QED  BY <2>1
<1>2. p \in 1 .. r /\ p \in 1 .. Len(file) /\ file[p].tag = "start"
      /\ file[p].type \in Types
  BY <1>1, OpenIs
<1>3. p \in DOMAIN file
  <2>1. file \in Seq(Calls)  BY FileIs
  <2> QED  BY <1>2, <2>1
<1>4. p < Len(file) => file[p + 1].tag # "start"
  BY <1>2, <1>3, ConfFilesAssumption DEF Legible
<1>5. p # r  BY <1>4
<1> QED  BY <1>2, <1>5

\* A node stays that of its element, until its own text.
LEMMA NodeStays ==
    ASSUME file \in ConfFiles, NEW r \in Nat, r < Len(file), NEW p \in Opens(r),
           NEW n, IsNode(n, p, r), file[r + 1].tag = "start" \/ p < r
    PROVE  IsNode(n, p, r + 1)
<1>1. r \in 0 .. Len(file)
  <2>1. Len(file) \in Nat  BY FileIs
  <2> QED  BY <2>1
<1>2. p \in 1 .. r  BY <1>1, OpenIs
<1>3. p < r + 1  BY <1>2
<1>4. p \in Settings => p < r  BY TextFirst
<1> QED  BY <1>3, <1>4 DEF IsNode

\* A start pushes a node, unless it is the root's.
LEMMA StackStart ==
    ASSUME file \in ConfFiles, NEW r \in Nat, r < Len(file),
           file[r + 1].tag = "start", NEW q, Stack(r, q), NEW n \in Elements,
           IsNode(n, r + 1, r + 1)
    PROVE  Stack(r + 1, IF file[r + 1].name = "conf" THEN q ELSE <<n>> \o q)
<1>1. /\ r \in 0 .. Len(file) /\ r + 1 \in 1 .. Len(file) /\ Len(file) \in Nat
      /\ (r + 1) - 1 = r /\ r + 1 \in 0 .. Len(file)
  <2>1. Len(file) \in Nat  BY FileIs
  <2> QED  BY <2>1
<1>2. Depth(r) \in Nat /\ Depth(r + 1) = Depth(r) + 1  BY <1>1, FileIs
<1>3. \A p \in Opens(r) : p \in 1 .. r /\ Depth(p) \in Nat  BY <1>1, OpenIs
<1>4. CASE file[r + 1].name = "conf"
  <2>1. r + 1 = 1
    <3>1. file \in Seq(Calls)  BY FileIs
    <3>2. r + 1 \in DOMAIN file  BY <1>1, <3>1
    <3> QED  BY <1>4, <3>2, ConfFilesAssumption DEF Legible
  <2>2. Opens(r) = {}
    <3>1. 1 .. r = {}  BY <2>1
    <3> QED  BY <3>1 DEF Opens
  <2>3. Opens(r + 1) = {}  BY <1>4, <2>2, OpensNext
  <2>4. 1 .. Len(q) = {}  BY <2>2 DEF Stack
  <2> QED  BY <1>4, <2>3, <2>4 DEF Stack
<1>5. CASE file[r + 1].name # "conf"
  <2> DEFINE Q == <<n>> \o q
             N == r + 1
  <2>1. /\ Q \in Seq(Elements) /\ Len(Q) = Len(q) + 1 /\ Len(q) \in Nat
        /\ Q[1] = n /\ \A i \in 1 .. Len(q) : Q[i + 1] = q[i]
    BY DEF Stack
  <2>2. Opens(N) = Opens(r) \cup {N}  BY <1>5, OpensNext
  <2>3. Place(N, N) = 1
    BY <1>2 DEF Place
  <2>4. \A p \in Opens(r) : Place(p, N) = Place(p, r) + 1
    BY <1>2, <1>3 DEF Place
  <2>5. \A p \in Opens(r) : IsNode(q[Place(p, r)], p, N)
    BY NodeStays DEF Stack
  <2>6. IsNode(Q[1], N, N)  BY <2>1
  <2>7. \A p \in Opens(r) : Place(p, r) \in 1 .. Len(q)  BY DEF Stack
  <2>8. \A i \in 1 .. Len(q) : \E p \in Opens(r) : Place(p, r) = i  BY DEF Stack
  <2> HIDE DEF Q, N
  <2>9. ASSUME NEW p \in Opens(N)
        PROVE  Place(p, N) \in 1 .. Len(Q) /\ IsNode(Q[Place(p, N)], p, N)
    <3>1. CASE p = N
      <4>1. 1 \in 1 .. Len(Q)  BY <2>1
      <4> QED  BY <2>3, <2>6, <3>1, <4>1
    <3>2. CASE p \in Opens(r)
      <4>1. Place(p, N) = Place(p, r) + 1 /\ Place(p, r) \in 1 .. Len(q)
        BY <2>4, <2>7, <3>2
      <4>2. Q[Place(p, N)] = q[Place(p, r)]  BY <2>1, <4>1
      <4>3. Place(p, N) \in 1 .. Len(Q)  BY <2>1, <4>1
      <4> QED  BY <2>5, <3>2, <4>2, <4>3
    <3> QED  BY <2>2, <3>1, <3>2
  <2>10. ASSUME NEW i \in 1 .. Len(Q) PROVE \E p \in Opens(N) : Place(p, N) = i
    <3>1. CASE i = 1  BY <2>2, <2>3, <3>1
    <3>2. CASE i # 1
      <4>1. i - 1 \in 1 .. Len(q) /\ (i - 1) + 1 = i  BY <2>1, <3>2
      <4>2. PICK p \in Opens(r) : Place(p, r) = i - 1  BY <2>8, <4>1
      <4> QED  BY <2>2, <2>4, <4>1, <4>2
    <3> QED  BY <3>1, <3>2
  <2>11. Stack(N, Q)  BY <2>1, <2>9, <2>10 DEF Stack
  <2> QED  BY <1>5, <2>11 DEF N, Q
<1> QED  BY <1>4, <1>5

\* A text sets the value of the node at the head, the first time.
LEMMA StackText ==
    ASSUME file \in ConfFiles, NEW r \in Nat, r < Len(file),
           file[r + 1].tag = "text", NEW q, Stack(r, q)
    PROVE  Stack(r + 1, IF q = <<>> \/ Head(q).is_set THEN q
                        ELSE [q EXCEPT ![1].is_set = TRUE,
                                 ![1].value = Convert(q[1].type, file[r + 1].text)])
<1>1. /\ r \in 0 .. Len(file) /\ r + 1 \in 1 .. Len(file) /\ Len(file) \in Nat
      /\ (r + 1) - 1 = r
  <2>1. Len(file) \in Nat  BY FileIs
  <2> QED  BY <2>1
<1>2. Depth(r) \in Nat /\ Depth(r + 1) = Depth(r)  BY <1>1, FileIs
<1>3. \A p \in Opens(r) : p \in 1 .. r /\ Depth(p) \in Nat  BY <1>1, OpenIs
<1>4. Opens(r + 1) = Opens(r)  BY OpensNext
<1>5. \A p : Place(p, r + 1) = Place(p, r)  BY <1>2 DEF Place
<1> DEFINE v == Convert(q[1].type, file[r + 1].text)
           node == [q[1] EXCEPT !.is_set = TRUE, !.value = v]
           Q == IF q = <<>> \/ Head(q).is_set THEN q ELSE [q EXCEPT ![1] = node]
<1>6. /\ q \in Seq(Elements) /\ Len(q) \in Nat
      /\ \A p \in Opens(r) : /\ Place(p, r) \in 1 .. Len(q)
                             /\ IsNode(q[Place(p, r)], p, r)
      /\ \A i \in 1 .. Len(q) : \E p \in Opens(r) : Place(p, r) = i
  BY DEF Stack
<1>7. q # <<>> => 1 \in 1 .. Len(q) /\ Head(q) = q[1] /\ q[1] \in Elements
  BY <1>6
<1>8. Q \in Seq(Elements) /\ Len(Q) = Len(q)
      /\ \A i \in 1 .. Len(q) : i # 1 => Q[i] = q[i]
  <2>1. CASE q = <<>> \/ Head(q).is_set  BY <1>6, <2>1
  <2>2. CASE ~(q = <<>> \/ Head(q).is_set)
    <3>1. v \in Values
      <4>1. file[r + 1].text \in STRING  BY <1>1, FileIs DEF Calls
      <4> QED  BY <4>1, Values_Convert
    <3> HIDE DEF v
    <3>2. node \in Elements  BY <1>7, <2>2, <3>1 DEF Elements
    <3> HIDE DEF node
    <3> QED  BY <1>6, <1>7, <2>2, <3>2
  <2> QED  BY <2>1, <2>2
<1>9. ASSUME NEW p \in Opens(r) PROVE IsNode(Q[Place(p, r)], p, r + 1)
  <2>1. p \in 1 .. r /\ p < r + 1  BY <1>3
  <2>2. CASE p < r /\ Place(p, r) # 1
    BY <1>6, <1>8, <2>2, NodeStays
  <2>3. CASE Place(p, r) # 1 /\ p = r
    <3>1. r \in 0 .. Len(file) /\ Depth(p) = Depth(r)  BY <1>1, <2>3
    <3>2. Place(p, r) = 1  BY <1>2, <3>1 DEF Place
    <3> QED  BY <2>3, <3>2
  <2>4. CASE Place(p, r) = 1
    <3>1. q # <<>>
      <4>1. 1 \in 1 .. Len(q)  BY <1>6, <2>4
      <4> QED  BY <4>1
    <3>2. IsNode(q[1], p, r)  BY <1>6, <2>4
    <3>3. CASE Head(q).is_set
      <4>1. Q = q /\ q[1].is_set  BY <1>7, <3>1, <3>3
      <4> QED  BY <2>1, <2>4, <3>2, <4>1 DEF IsNode
    <3>4. CASE ~Head(q).is_set
      <4>1. v = Convert(Kind(p), file[r + 1].text)  BY <3>2 DEF IsNode
      <4> HIDE DEF v
      <4>2. node.full_name = q[1].full_name /\ node.type = q[1].type
            /\ node.is_set = TRUE /\ node.value = v
        BY <1>7, <3>1 DEF Elements
      <4> HIDE DEF node
      <4>3. Q[1] = node  BY <1>6, <1>7, <3>1, <3>4
      <4>4. ~q[1].is_set  BY <1>7, <3>1, <3>4
      <4>5. p \in Settings => p = r /\ Kind(p) = file[p].type
        <5>1. p \in Settings => ~(p < r)  BY <3>2, <4>4 DEF IsNode
        <5>2. p \in Settings => file[p].type \in Types  BY DEF Settings
        <5> QED  BY <2>1, <5>1, <5>2 DEF Kind
      <4>6. p \in Settings => v = Value(p)  BY <4>1, <4>5 DEF Value
      <4> HIDE DEF Q
      <4> QED  BY <2>1, <2>4, <3>2, <4>2, <4>3, <4>6 DEF IsNode
    <3> QED  BY <3>3, <3>4
  <2> QED  BY <2>1, <2>2, <2>3, <2>4
<1>10. Stack(r + 1, Q)
  <2> HIDE DEF Q
  <2> QED  BY <1>4, <1>5, <1>6, <1>8, <1>9 DEF Stack
<1>11. Q = IF q = <<>> \/ Head(q).is_set THEN q
           ELSE [q EXCEPT ![1].is_set = TRUE, ![1].value = v]
  OBVIOUS
<1> QED  BY <1>10, <1>11

\* An end pops the node of the element that ended.
LEMMA StackEnd ==
    ASSUME file \in ConfFiles, NEW r \in Nat, r < Len(file),
           file[r + 1].tag = "end", NEW q, Stack(r, q)
    PROVE  Stack(r + 1, IF q = <<>> THEN q ELSE Tail(q))
<1>1. /\ r \in 0 .. Len(file) /\ r + 1 \in 1 .. Len(file) /\ Len(file) \in Nat
      /\ (r + 1) - 1 = r
  <2>1. Len(file) \in Nat  BY FileIs
  <2> QED  BY <2>1
<1>2. Depth(r) \in Nat /\ Depth(r + 1) = Depth(r) - 1  BY <1>1, FileIs
<1>3. \A p \in Opens(r) : Depth(p) \in Nat /\ Depth(p) <= Depth(r)
  BY <1>1, OpenIs
<1>4. Opens(r + 1) = {p \in Opens(r) : Depth(p) < Depth(r)}  BY OpensNext
<1>5. /\ q \in Seq(Elements) /\ Len(q) \in Nat
      /\ \A p \in Opens(r) : /\ Place(p, r) \in 1 .. Len(q)
                             /\ IsNode(q[Place(p, r)], p, r)
      /\ \A i \in 1 .. Len(q) : \E p \in Opens(r) : Place(p, r) = i
  BY DEF Stack
<1>6. CASE q = <<>>
  <2>1. 1 .. Len(q) = {}  BY <1>6
  <2>2. Opens(r) = {}  BY <1>5, <2>1
  <2>3. Opens(r + 1) = {}  BY <1>4, <2>2
  <2> QED  BY <1>5, <1>6, <2>1, <2>3 DEF Stack
<1>7. CASE q # <<>>
  <2> DEFINE Q == Tail(q)
             N == r + 1
  <2>1. /\ Q \in Seq(Elements) /\ Len(Q) = Len(q) - 1
        /\ \A i \in 1 .. Len(Q) : Q[i] = q[i + 1]
    BY <1>5, <1>7
  <2>2. \A p \in Opens(r) : /\ Place(p, N) = Place(p, r) - 1
                            /\ Depth(p) < Depth(r) <=> Place(p, r) # 1
    BY <1>2, <1>3 DEF Place
  <2>3. ASSUME NEW p \in Opens(r), Place(p, r) # 1
        PROVE  IsNode(q[Place(p, r)], p, N)
    <3>1. p \in 1 .. r /\ p # r  BY <1>1, <1>2, <2>3, OpenIs DEF Place
    <3>2. p < r  BY <3>1
    <3> QED  BY <1>5, <3>2, NodeStays
  <2>4. Opens(N) = {p \in Opens(r) : Depth(p) < Depth(r)}  BY <1>4
  <2> HIDE DEF Q, N
  <2>5. ASSUME NEW p \in Opens(N)
        PROVE  Place(p, N) \in 1 .. Len(Q) /\ IsNode(Q[Place(p, N)], p, N)
    <3>1. /\ p \in Opens(r) /\ Place(p, r) \in 1 .. Len(q) /\ Place(p, r) # 1
          /\ Place(p, N) = Place(p, r) - 1
      BY <1>5, <2>2, <2>4
    <3>2. Place(p, N) \in 1 .. Len(Q) /\ Place(p, N) + 1 = Place(p, r)
      BY <1>5, <2>1, <3>1
    <3>3. Q[Place(p, N)] = q[Place(p, r)]  BY <2>1, <3>2
    <3> QED  BY <2>3, <3>1, <3>2, <3>3
  <2>6. ASSUME NEW i \in 1 .. Len(Q) PROVE \E p \in Opens(N) : Place(p, N) = i
    <3>1. i + 1 \in 1 .. Len(q) /\ i + 1 # 1 /\ (i + 1) - 1 = i  BY <1>5, <2>1
    <3>2. PICK p \in Opens(r) : Place(p, r) = i + 1  BY <1>5, <3>1
    <3> QED  BY <2>2, <2>4, <3>1, <3>2
  <2>7. Stack(N, Q)  BY <2>1, <2>5, <2>6 DEF Stack
  <2> QED  BY <1>7, <2>7 DEF N, Q
<1> QED  BY <1>6, <1>7

(***************************************************************************)
(* The table has the last of the settings that ended with a name.          *)
(***************************************************************************)
LastDone(s, r) ==
    s \in Done(r) /\ \A t \in Done(r) : Name(t) = Name(s) /\ t # s => EndsBefore(t, s)

Table(r, h) ==
    /\ \A n \in DOMAIN h :
          \E s \in Done(r) : /\ LastDone(s, r) /\ Name(s) = n
                             /\ h[n].type = file[s].type /\ h[n].value = Value(s)
    /\ \A s \in Done(r) : Named(Name(s)) = {s} => Name(s) \in DOMAIN h

\* Only an end changes what the table should hold.
LEMMA TableStays ==
    ASSUME file \in ConfFiles, NEW r \in Nat, r < Len(file),
           file[r + 1].tag # "end", NEW h, Table(r, h)
    PROVE  Table(r + 1, h)
<1>1. Done(r + 1) = Done(r)  BY DoneNext
<1>2. \A s : LastDone(s, r + 1) <=> LastDone(s, r)  BY <1>1 DEF LastDone
<1> QED  BY <1>1, <1>2 DEF Table

\* An open setting ends after all that have ended.
LEMMA EndsNow ==
    ASSUME file \in ConfFiles, NEW r \in 0 .. Len(file),
           NEW o \in Opens(r), NEW t \in Done(r)
    PROVE  EndsBefore(t, o)
<1>1. /\ o \in 1 .. r /\ Open(o, r) /\ o \in 0 .. r
  <2>1. o \in 1 .. r /\ Open(o, r)  BY OpenIs
  <2> QED  BY <2>1
<1>2. t \in 1 .. r /\ ~Open(t, r)
  <2>1. file \in Seq(Calls)  BY FileIs
  <2>2. t \in 1 .. Len(file)  BY <2>1 DEF Done, Settings
  <2>3. Len(file) \in Nat  BY <2>1
  <2> QED  BY <2>2, <2>3 DEF Done
<1>3. CASE t < o
  <2>1. t \in 0 .. o  BY <1>1, <1>2, <1>3
  <2>2. ~Open(t, o)  BY <1>1, <1>2, <2>1, OpenAround
  <2> QED  BY <1>3, <2>2 DEF EndsBefore
<1>4. CASE t > o
  <2>1. \A i \in o .. t : i \in o .. r  BY <1>1, <1>2
  <2>2. Open(o, t)  BY <1>1, <2>1 DEF Open
  <2> QED  BY <1>4, <2>2 DEF EndsBefore
<1>5. t # o  BY <1>1, <1>2
<1> QED  BY <1>1, <1>2, <1>3, <1>4, <1>5

\* The table h becomes g when the node is taken from the stack.
Closed(node, h, g) ==
    IF node.type = "node" THEN g = h
    ELSE \/ g = Put(h, node.type, node.full_name, node.value)
         \/ /\ node.full_name \in DOMAIN h
            /\ g = [n \in DOMAIN h \ {node.full_name} |-> h[n]]

\* end_element_handler, whether the lookup finds the new name or not.
LEMMA TableEnd ==
    ASSUME file \in ConfFiles, NEW r \in Nat, r < Len(file),
           file[r + 1].tag = "end", NEW q, Stack(r, q), q # <<>>,
           NEW h, Table(r, h), NEW g,
           Closed(q[1], h, g)
    PROVE  Table(r + 1, g)
<1>1. r \in 0 .. Len(file)
  <2>1. Len(file) \in Nat  BY FileIs
  <2> QED  BY <2>1
<1>2. PICK o \in Opens(r) : Place(o, r) = 1 /\ IsNode(q[1], o, r)
  <2>1. q \in Seq(Elements)  BY DEF Stack
  <2>2. 1 \in 1 .. Len(q)  BY <2>1
  <2> QED  BY <2>2 DEF Stack
<1>3. /\ Depth(o) = Depth(r) /\ o \in 1 .. r /\ Open(o, r)
      /\ Kind(o) = "node" <=> o \notin Settings
  <2>1. Depth(o) \in Nat /\ Depth(r) \in Nat  BY <1>1, OpenIs
  <2> QED  BY <1>1, <1>2, <2>1, OpenIs DEF Place
<1>4. \A p \in Opens(r) : ~(Depth(p) < Depth(r)) <=> p = o
  <2> SUFFICES ASSUME NEW p \in Opens(r)
               PROVE  ~(Depth(p) < Depth(r)) <=> p = o
    OBVIOUS
  <2>1. p \in 1 .. r /\ Depth(p) \in Nat /\ Depth(r) \in Nat /\ Depth(p) <= Depth(r)
    BY <1>1, OpenIs
  <2>2. (p < o => Depth(p) < Depth(o)) /\ (o < p => Depth(o) < Depth(p))
    BY <1>1, Inside
  <2> QED  BY <1>3, <2>1, <2>2
<1>5. Done(r + 1) = Done(r) \cup (Settings \cap {o})
  <2>1. Done(r + 1) = Done(r) \cup
                        {p \in Settings \cap Opens(r) : ~(Depth(p) < Depth(r))}
    BY DoneNext
  <2> QED  BY <1>4, <2>1
<1>6. CASE o \notin Settings
  <2>1. g = h
    <3>1. q[1].type = "node"  BY <1>2, <1>3, <1>6 DEF IsNode
    <3> QED  BY <3>1 DEF Closed
  <2>2. Done(r + 1) = Done(r)  BY <1>5, <1>6
  <2>3. \A s : LastDone(s, r + 1) <=> LastDone(s, r)  BY <2>2 DEF LastDone
  <2> QED  BY <2>1, <2>2, <2>3 DEF Table
<1>7. CASE o \in Settings
  <2> DEFINE name == Name(o)
             N == r + 1
  <2>1. /\ q[1].full_name = name /\ q[1].type = file[o].type
        /\ q[1].value = Value(o) /\ q[1].type # "node"
    <3>1. Kind(o) = file[o].type  BY <1>7 DEF Kind, Settings
    <3>2. q[1].value = Value(o)
      <4>1. CASE o < r  BY <1>2, <1>7, <4>1 DEF IsNode
      <4>2. CASE ~(o < r)
        <5>1. o = r  BY <1>3, <4>2
        <5>2. q[1].value = Unset(file[o].type)
          BY <1>2, <1>7, <3>1, <4>2 DEF IsNode
        <5> QED  BY <5>1, <5>2 DEF Value
      <4> QED  BY <4>1, <4>2
    <3> QED  BY <1>2, <1>3, <1>7, <3>1, <3>2 DEF IsNode
  <2>2. Done(N) = Done(r) \cup {o} /\ o \notin Done(r)
    BY <1>3, <1>5, <1>7 DEF Done
  <2>3. \A t \in Done(r) : EndsBefore(t, o)  BY <1>1, EndsNow
  <2>4. /\ \A n \in DOMAIN h :
             \E s \in Done(r) : /\ LastDone(s, r) /\ Name(s) = n
                                /\ h[n].type = file[s].type /\ h[n].value = Value(s)
        /\ \A s \in Done(r) : Named(Name(s)) = {s} => Name(s) \in DOMAIN h
    BY DEF Table
  <2>5. \/ g = Put(h, file[o].type, name, Value(o))
        \/ name \in DOMAIN h /\ g = [n \in DOMAIN h \ {name} |-> h[n]]
    BY <2>1 DEF Closed
  <2> HIDE DEF N
  <2>6. LastDone(o, N)  BY <2>2, <2>3 DEF LastDone
  <2>7. \A s \in Done(r) : LastDone(s, r) /\ Name(s) # name => LastDone(s, N)
    BY <2>2 DEF LastDone
  <2> HIDE DEF name
  <2>8. ASSUME NEW n \in DOMAIN g, n # name
        PROVE  \E s \in Done(N) : /\ LastDone(s, N) /\ Name(s) = n
                                  /\ g[n].type = file[s].type /\ g[n].value = Value(s)
    <3>1. n \in DOMAIN h /\ g[n] = h[n]  BY <2>5, <2>8 DEF Put
    <3>2. PICK s \in Done(r) : /\ LastDone(s, r) /\ Name(s) = n
                               /\ h[n].type = file[s].type /\ h[n].value = Value(s)
      BY <2>4, <3>1
    <3>3. LastDone(s, N) /\ s \in Done(N)  BY <2>2, <2>7, <2>8, <3>2
    <3> QED  BY <3>1, <3>2, <3>3
  <2>9. ASSUME name \in DOMAIN g
        PROVE  \E s \in Done(N) : /\ LastDone(s, N) /\ Name(s) = name
                                  /\ g[name].type = file[s].type
                                  /\ g[name].value = Value(s)
    <3>1. g[name] = [type |-> file[o].type, value |-> Value(o)]
      BY <2>5, <2>9 DEF Put
    <3> QED  BY <2>2, <2>6, <3>1 DEF name
  <2>10. ASSUME NEW s \in Done(N), Named(Name(s)) = {s} PROVE Name(s) \in DOMAIN g
    <3>1. CASE g = Put(h, file[o].type, name, Value(o))
      <4>1. DOMAIN g = DOMAIN h \cup {name}  BY <3>1 DEF Put
      <4> QED  BY <2>2, <2>4, <2>10, <4>1 DEF name
    <3>2. CASE name \in DOMAIN h /\ g = [n \in DOMAIN h \ {name} |-> h[n]]
      <4>1. PICK t \in Done(r) : Name(t) = name  BY <2>4, <3>2
      <4>2. t \in Named(name) /\ o \in Named(name) /\ t # o
        BY <1>7, <2>2, <4>1 DEF Named, name, Done
      <4>3. Name(s) # name  BY <2>10, <4>2
      <4>4. s \in Done(r)  BY <2>2, <4>3 DEF name
      <4> QED  BY <2>4, <2>10, <3>2, <4>3, <4>4
    <3> QED  BY <2>5, <3>1, <3>2
  <2>11. Table(N, g)  BY <2>8, <2>9, <2>10 DEF Table
  <2> QED  BY <2>11 DEF N
<1> QED  BY <1>6, <1>7

\* Everything has ended at the end of a file that is complete.
LEMMA AllDone ==
    ASSUME file \in ConfFiles, Complete
    PROVE  Opens(Len(file)) = {} /\ Done(Len(file)) = Settings
<1> DEFINE r == Len(file)
<1>1. r \in Nat /\ DOMAIN file = 1 .. r
  <2>1. file \in Seq(Calls)  BY FileIs
  <2> QED  BY <2>1
<1>2. ASSUME NEW p \in 1 .. r, file[p].tag = "start" PROVE ~Open(p, r)
  <2>1. Depth(p) = Depth(p - 1) + 1  BY <1>2, FileIs
  <2>2. p - 1 \in 0 .. r /\ r \in p .. r  BY <1>1
  <2>3. Depth(p - 1) \in Nat  BY <2>2, FileIs
  <2>4. Depth(r) = 0  BY DEF Complete
  <2>5. ~(Depth(r) >= Depth(p))  BY <2>1, <2>3, <2>4
  <2> QED  BY <2>2, <2>5 DEF Open
<1>3. \A s \in Settings : s <= r /\ s \in 1 .. r /\ file[s].tag = "start"
  BY <1>1 DEF Settings
<1> HIDE DEF r
<1>4. Opens(r) = {}  BY <1>2 DEF Opens
<1>5. Done(r) = Settings  BY <1>2, <1>3 DEF Done
<1> QED  BY <1>4, <1>5 DEF r

\* There is one last setting of a name.
LEMMA LastOne ==
    ASSUME file \in ConfFiles, NEW S \in SUBSET Settings, NEW s \in S,
           \A t \in S \ {s} : EndsBefore(t, s)
    PROVE  Last1(S) = s
<1>1. \A t \in S : t \in Int
  <2>1. file \in Seq(Calls)  BY FileIs
  <2>2. \A t \in Settings : t \in 1 .. Len(file)  BY <2>1 DEF Settings
  <2> QED  BY <2>2
<1>2. ASSUME NEW t \in S, t # s, EndsBefore(t, s), EndsBefore(s, t) PROVE FALSE
  <2>1. s \in Int /\ t \in Int  BY <1>1
  <2> QED  BY <1>2, <2>1 DEF EndsBefore
<1>3. \A x \in S : (\A t \in S \ {x} : EndsBefore(t, x)) <=> x = s
  BY <1>2
<1> QED  BY <1>3 DEF Last1

\* Once the file has been read, the table gives what the file says.
LEMMA TableRead ==
    ASSUME file \in ConfFiles, Complete, NEW h, Table(Len(file), h)
    PROVE  /\ DOMAIN h \subseteq {Name(s) : s \in Settings}
           /\ \A s \in Settings :
                 LET last == Last1(Named(Name(s)))
                 IN  /\ Named(Name(s)) = {s} => Name(s) \in DOMAIN h
                     /\ Name(s) \in DOMAIN h =>
                          /\ h[Name(s)].type = file[last].type
                          /\ h[Name(s)].value = Value(last)
<1>1. Done(Len(file)) = Settings  BY AllDone
<1>2. \A n \in DOMAIN h :
         \E s \in Settings :
            /\ \A t \in Settings : Name(t) = Name(s) /\ t # s => EndsBefore(t, s)
            /\ Name(s) = n
            /\ h[n].type = file[s].type /\ h[n].value = Value(s)
  BY <1>1 DEF Table, LastDone
<1>3. \A s \in Settings : Named(Name(s)) = {s} => Name(s) \in DOMAIN h
  BY <1>1 DEF Table
<1>4. ASSUME NEW n \in DOMAIN h
      PROVE  /\ h[n].type = file[Last1(Named(n))].type
             /\ h[n].value = Value(Last1(Named(n)))
  <2>1. PICK s \in Settings :
            /\ \A t \in Settings : Name(t) = Name(s) /\ t # s => EndsBefore(t, s)
            /\ Name(s) = n
            /\ h[n].type = file[s].type /\ h[n].value = Value(s)
    BY <1>2
  <2>2. s \in Named(n) /\ Named(n) \in SUBSET Settings
        /\ \A t \in Named(n) \ {s} : EndsBefore(t, s)
    BY <2>1 DEF Named
  <2>3. Last1(Named(n)) = s  BY <2>2, LastOne
  <2> QED  BY <2>1, <2>3
<1>5. DOMAIN h \subseteq {Name(s) : s \in Settings}  BY <1>2
<1>6. ASSUME NEW s \in Settings
      PROVE  LET last == Last1(Named(Name(s)))
             IN  /\ Named(Name(s)) = {s} => Name(s) \in DOMAIN h
                 /\ Name(s) \in DOMAIN h =>
                      /\ h[Name(s)].type = file[last].type
                      /\ h[Name(s)].value = Value(last)
  BY <1>3, <1>4
<1> QED  BY <1>5, <1>6

(***************************************************************************)
(* The parser as a part of App.  The file stays as it is, and with it all  *)
(* that is said about its elements.                                        *)
(***************************************************************************)
LEMMA SameOpen ==
    ASSUME file' = file, NEW p, NEW r
    PROVE  Depth(r)' = Depth(r) /\ (Open(p, r)' <=> Open(p, r))
<1>1. \A i : Depth(i)' = Depth(i)  BY DEF Depth
<1> QED  BY <1>1 DEF Open

\* What is said of a file stays while the file does: names,
LEMMA SameName == ASSUME file' = file, NEW s PROVE Name(s)' = Name(s)
<1>1. Sections(s)' = Sections(s)  BY SameOpen DEF Sections
<1>2. \A S : Names(S)' = Names(S)  BY DEF Names
<1> QED  BY <1>1, <1>2 DEF Name

\* the settings, those of a name and which of them ends first,
LEMMA SameNamed ==
    ASSUME file' = file
    PROVE  /\ Settings' = Settings
           /\ \A n : Named(n)' = Named(n)
           /\ \A s, t : EndsBefore(s, t)' <=> EndsBefore(s, t)
<1>1. Settings' = Settings  BY DEF Settings
<1>2. \A n : Named(n)' = Named(n)  BY <1>1, SameName DEF Named
<1>3. \A s, t : EndsBefore(s, t)' <=> EndsBefore(s, t)
  BY SameOpen DEF EndsBefore
<1> QED  BY <1>1, <1>2, <1>3

\* and what stack and table should hold.
LEMMA SameReading ==
    ASSUME file' = file, NEW r, NEW q, NEW h
    PROVE  /\ Stack(r, q)' <=> Stack(r, q)
           /\ Table(r, h)' <=> Table(r, h)
<1>1. Settings' = Settings /\ \A p : Kind(p)' = Kind(p) /\ Value(p)' = Value(p)
  BY SameNamed DEF Kind, Value
<1>2. Opens(r)' = Opens(r) /\ Done(r)' = Done(r)
  BY <1>1, SameOpen DEF Opens, Done
<1>3. \A p : Place(p, r)' = Place(p, r)  BY SameOpen DEF Place
<1>4. \A n, p : IsNode(n, p, r)' <=> IsNode(n, p, r)
  BY <1>1, SameName DEF IsNode
<1>5. Stack(r, q)' <=> Stack(r, q)  BY <1>2, <1>3, <1>4 DEF Stack
<1>6. \A s : LastDone(s, r)' <=> LastDone(s, r)
  BY <1>2, SameName, SameNamed DEF LastDone
<1>7. Table(r, h)' <=> Table(r, h)
  BY <1>1, <1>2, <1>6, SameName, SameNamed DEF Table
<1> QED  BY <1>5, <1>7

\* Every callback of the parser keeps stack and table as they should be.
LEMMA CallbackReads ==
    ASSUME file \in ConfFiles, read \in 0 .. Len(file), Stack(read, q_nodes),
           Table(read, h_conf), Callback
    PROVE  Stack(read, q_nodes)' /\ Table(read, h_conf)'
<1>1. /\ read \in Nat /\ read < Len(file) /\ read' = read + 1 /\ file' = file
      /\ read + 1 \in 1 .. Len(file)
      /\ q_nodes \in Seq(Elements)
  <2>1. Len(file) \in Nat  BY FileIs
  <2>2. read < Len(file) /\ read' = read + 1 /\ file' = file
    BY DEF Callback, StartElement, Text, EndElement, Next1
  <2> QED  BY <2>1, <2>2 DEF Stack
<1>2. SUFFICES Stack(read + 1, q_nodes') /\ Table(read + 1, h_conf')
  BY <1>1, SameReading
<1> DEFINE c == file[read + 1]
<1>3. CASE StartElement
  <2> DEFINE type == IF c.type \in Types THEN c.type ELSE "node"
             node == [type |-> type, full_name |-> Append(ParentName, c.name),
                      value |-> Unset(type), is_set |-> c.type = "node"]
  <2>1. /\ c.tag = "start" /\ h_conf' = h_conf
        /\ q_nodes' = IF c.name = "conf" THEN q_nodes ELSE <<node>> \o q_nodes
    BY <1>3 DEF StartElement, Next1
  <2>2. node \in Elements
    <3>1. type \in Types \cup {"node"}  OBVIOUS
    <3>2. Append(ParentName, c.name) \in Seq(STRING)
      <4>1. c \in Calls  BY <1>1, FileIs
      <4> QED  BY <1>1, <4>1, ParentNameType DEF Calls
    <3>3. Unset(type) \in Values  BY DEF Unset, Values
    <3> HIDE DEF type, c
    <3> QED  BY <3>1, <3>2, <3>3 DEF Elements
  <2>3. IsNode(node, read + 1, read + 1)
    <3>1. ParentName = Names(Sections(read + 1))  BY <1>1, <2>1, ParentIs
    <3>2. node.full_name = Name(read + 1)  BY <3>1 DEF Name
    <3>3. node.type = Kind(read + 1)  BY DEF Kind
    <3>4. read + 1 \in Settings => ~node.is_set /\ node.value = Unset(node.type)
      BY DEF Settings, Types
    <3>5. ~(read + 1 < read + 1)  BY <1>1
    <3> HIDE DEF node
    <3> QED  BY <3>2, <3>3, <3>4, <3>5 DEF IsNode
  <2> HIDE DEF node
  <2>4. Stack(read + 1, IF c.name = "conf" THEN q_nodes ELSE <<node>> \o q_nodes)
    BY <1>1, <2>1, <2>2, <2>3, StackStart
  <2>5. Table(read + 1, h_conf)  BY <1>1, <2>1, TableStays
  <2> QED  BY <2>1, <2>4, <2>5
<1>4. CASE Text
  <2>1. /\ c.tag = "text" /\ h_conf' = h_conf
        /\ q_nodes' = IF q_nodes = <<>> \/ Head(q_nodes).is_set THEN q_nodes
                      ELSE [q_nodes EXCEPT
                               ![1].is_set = TRUE,
                               ![1].value = Convert(q_nodes[1].type, c.text)]
    BY <1>4 DEF Text, Next1
  <2>2. Stack(read + 1, q_nodes')  BY <1>1, <2>1, StackText
  <2>3. Table(read + 1, h_conf)  BY <1>1, <2>1, TableStays
  <2> QED  BY <2>1, <2>2, <2>3
<1>5. CASE EndElement
  <2>1. /\ c.tag = "end"
        /\ q_nodes' = IF q_nodes = <<>> THEN q_nodes ELSE Tail(q_nodes)
    BY <1>5 DEF EndElement, Next1
  <2>2. Stack(read + 1, q_nodes')  BY <1>1, <2>1, StackEnd
  <2>3. CASE q_nodes = <<>>
    <3>1. h_conf' = h_conf  BY <1>5, <2>3 DEF EndElement
    <3>2. Opens(read) = {}
      <4>1. 1 .. Len(q_nodes) = {}  BY <2>3
      <4> QED  BY <4>1 DEF Stack
    <3>3. Done(read + 1) = Done(read)  BY <1>1, <2>1, <3>2, DoneNext
    <3>4. \A s : LastDone(s, read + 1) <=> LastDone(s, read)
      BY <3>3 DEF LastDone
    <3> QED  BY <2>2, <3>1, <3>3, <3>4 DEF Table
  <2>4. CASE q_nodes # <<>>
    <3>1. Head(q_nodes) = q_nodes[1]  BY <1>1, <2>4
    <3>2. Closed(q_nodes[1], h_conf, h_conf')
      BY <1>5, <2>4, <3>1 DEF EndElement, Closed
    <3>3. Table(read + 1, h_conf')  BY <1>1, <2>1, <2>4, <3>2, TableEnd
    <3> QED  BY <2>2, <3>3
  <2> QED  BY <2>3, <2>4
<1> QED  BY <1>3, <1>4, <1>5 DEF Callback

\* Nothing is on the stack once a file was read to its end, nor left behind
\* unless main gives up.
Stacked ==
    /\ pc = "options" => /\ file \in ConfFiles \cup {NULL}
                         /\ read = 0 /\ q_nodes = <<>>
    /\ pc = "parse" => /\ file \in ConfFiles /\ read \in 0 .. Len(file)
    /\ pc \in Stages \ {"options", "parse"} => q_nodes = <<>>
    /\ pc \in Stages => lost = {} /\ status = "running"
    /\ status = "ok" => lost = {} /\ q_nodes = <<>>

\* Where main is, and what the parser has left.
Parsed ==
    /\ pc = "options" => h_conf = NoSettings
    /\ pc = "parse" => Stack(read, q_nodes) /\ Table(read, h_conf)
    /\ pc = "settings" /\ file # NULL =>
          /\ file \in ConfFiles /\ read = Len(file) /\ Complete
          /\ Table(read, h_conf)

\* Before the file, nothing is on the stack.
LEMMA InitStacked == Init => Stacked
BY DEF Init, Stacked, Stages

\* No step of the process takes stack and table apart from the file.
LEMMA NextStacked == IInv /\ Stacked /\ Parsed /\ [Next]_vars => Stacked'
<1> SUFFICES ASSUME IInv, Stacked, Parsed, [Next]_vars PROVE Stacked'  OBVIOUS
\* Steps after the parser, and those that give up.
<1> DEFINE Beyond == pc \in Stages \ {"options", "parse"}
           Later  == pc' \in Stages \ {"options", "parse"}
           GivesUp == /\ pc' \in {"destroy", "ended"} /\ status' # "ok"
<1>1. ASSUME GivesUp PROVE Stacked'  BY <1>1 DEF Stacked, Stages
<1>2. ASSUME Beyond, Later, UNCHANGED <<q_nodes, lost, status>> PROVE Stacked'
  <2>1. q_nodes = <<>> /\ lost = {} /\ status = "running"
    BY <1>2 DEF Stacked
  <2> QED  BY <1>2, <2>1 DEF Stacked
<1>3. CASE ReadOptions
  <2>1. CASE options.bad  BY <1>1, <1>3, <2>1 DEF ReadOptions, Fail
  <2>2. CASE ~options.bad
    <3>1. /\ pc = "options" /\ read = 0 /\ q_nodes = <<>> /\ lost = {}
          /\ status = "running" /\ UNCHANGED <<file, read, q_nodes, lost, status>>
          /\ file \in ConfFiles \cup {NULL}
      BY <1>3, <2>2 DEF ReadOptions, Stacked, Stages
    <3>2. CASE file = NULL
      <4>1. pc' = "settings"  BY <1>3, <2>2, <3>2 DEF ReadOptions
      <4> QED  BY <3>1, <4>1 DEF Stacked, Stages
    <3>3. CASE file # NULL
      <4>1. pc' = "parse"  BY <1>3, <2>2, <3>3 DEF ReadOptions
      <4>2. file \in ConfFiles  BY <3>1, <3>3
      <4>3. 0 \in 0 .. Len(file)
        <5>1. Len(file) \in Nat  BY <4>2, ConfFilesAssumption DEF Legible
        <5> QED  BY <5>1
      <4> QED  BY <3>1, <4>1, <4>2, <4>3 DEF Stacked, Stages
    <3> QED  BY <3>2, <3>3
  <2> QED  BY <2>1, <2>2
<1>4. CASE ParseFile
  <2>1. /\ pc = "parse" /\ file \in ConfFiles /\ read \in 0 .. Len(file)
        /\ Stack(read, q_nodes)
        /\ lost = {} /\ status = "running"
    BY <1>4 DEF ParseFile, Stacked, Parsed, Stages
  <2>2. CASE Callback /\ UNCHANGED appVars
    <3>1. file' = file /\ read' \in 0 .. Len(file)
      <4>1. Len(file) \in Nat  BY <2>1, FileIs
      <4>2. file' = file /\ read < Len(file) /\ read' = read + 1
        BY <2>2 DEF Callback, StartElement, Text, EndElement, Next1
      <4> QED  BY <2>1, <4>1, <4>2
    <3>2. pc' = "parse" /\ lost' = {} /\ status' = "running"
      BY <2>1, <2>2 DEF appVars
    <3> QED  BY <2>1, <3>1, <3>2 DEF Stacked, Stages
  <2>3. CASE read = Len(file) /\ Complete /\ pc' = "settings"
             /\ UNCHANGED <<lost, status>> /\ UNCHANGED confVars
    <3>1. Opens(Len(file)) = {}  BY <2>1, <2>3, AllDone
    <3>2. q_nodes = <<>>
      <4>1. q_nodes \in Seq(Elements) /\ 1 .. Len(q_nodes) = {}
        BY <2>1, <2>3, <3>1 DEF Stack
      <4> QED  BY <4>1
    <3>3. q_nodes' = <<>>  BY <2>3, <3>2 DEF confVars
    <3> QED  BY <2>1, <2>3, <3>3 DEF Stacked, Stages
  <2>4. CASE Fail  BY <1>1, <2>4 DEF Fail
  <2>5. CASE pc' = "ended" /\ status' = "crashed"  BY <1>1, <2>5
  <2> QED  BY <1>4, <2>2, <2>3, <2>4, <2>5 DEF ParseFile
<1>5. CASE ApplyOptions
  <2>1. pc = "settings" /\ UNCHANGED <<q_nodes, lost>>
    BY <1>5 DEF ApplyOptions
  <2>2. GivesUp \/ (pc' = "evbase" /\ UNCHANGED status)
    BY <1>5 DEF ApplyOptions, Fail
  <2> QED  BY <1>1, <1>2, <2>1, <2>2 DEF Stages
<1>6. CASE MakeParts
  <2>1. q_nodes' = q_nodes  BY <1>6 DEF MakeParts, confVars
  <2>2. ASSUME NEW c \in Stages \ {"options", "parse"},
               NEW next \in Stages \ {"options", "parse"}, Make(c, next)
        PROVE  Stacked'
    BY <1>2, <2>1, <2>2 DEF Make
  <2>3. ASSUME NEW c, NEW L, Unmade(c, L) PROVE Stacked'
    BY <1>1, <2>3 DEF Unmade, Fail
  <2>4. CASE MakeSignals
    BY <1>1, <1>2, <2>1, <2>4 DEF MakeSignals, Stages
  <2>5. CASE pc' = "ended" /\ status' = "crashed"  BY <1>1, <2>5
  <2> QED  BY <1>6, <2>2, <2>3, <2>4, <2>5 DEF MakeParts, MakePeerServer, Stages
<1>7. CASE Daemonize
  <2>1. pc = "daemonize" /\ pc' = "loop" /\ UNCHANGED <<q_nodes, lost, status>>
    BY <1>7 DEF Daemonize, confVars
  <2> QED  BY <1>2, <2>1 DEF Stages
<1>8. CASE LeaveLoop
  <2>1. pc = "loop" /\ pc' = "destroy" /\ UNCHANGED <<q_nodes, lost>>
    BY <1>8 DEF LeaveLoop, confVars
  <2>2. q_nodes = <<>> /\ lost = {}  BY <2>1 DEF Stacked, Stages
  <2> QED  BY <2>1, <2>2 DEF Stacked, Stages
<1>9. CASE Release
  <2>1. pc = "destroy" /\ status' = status /\ pc' \in {"destroy", "ended"}
    BY <1>9 DEF Release
  <2>2. CASE status # "ok"  BY <1>1, <2>1, <2>2
  <2>3. CASE status = "ok"
    <3>1. q_nodes = <<>> /\ lost = {}  BY <2>3 DEF Stacked
    <3>2. q_nodes' = <<>> /\ lost' = {}
      BY <1>9, <3>1 DEF Release, confVars
    <3> QED  BY <2>1, <3>2 DEF Stacked, Stages
  <2> QED  BY <2>2, <2>3
<1>10. CASE Interrupt
  <2>1. UNCHANGED <<confVars, lost>>  BY <1>10 DEF Interrupt
  <2>2. CASE UNCHANGED <<pc, status>>
    <3>1. UNCHANGED <<file, read, h_conf, q_nodes>>  BY <2>1 DEF confVars
    <3> QED  BY <2>1, <2>2, <3>1 DEF Stacked
  <2>3. CASE pc' = "ended" /\ status' = "killed"  BY <1>1, <2>3
  <2> QED  BY <1>10, <2>2, <2>3 DEF Interrupt
<1>11. CASE UNCHANGED vars
  <2>1. UNCHANGED <<file, read, q_nodes, pc, lost, status>>
    BY <1>11 DEF vars, confVars, appVars
  <2> QED  BY <2>1 DEF Stacked
<1> QED
  BY <1>3, <1>4, <1>5, <1>6, <1>7, <1>8, <1>9, <1>10, <1>11 DEF Next, Main

\* No step forgets how the parser ended.
LEMMA NextParsed == IInv /\ Stacked /\ Parsed /\ [Next]_vars => Parsed'
<1> SUFFICES ASSUME IInv, Stacked, Parsed, [Next]_vars PROVE Parsed'
  OBVIOUS
<1>1. CASE pc' \notin {"options", "parse", "settings"}  BY <1>1 DEF Parsed
<1>2. CASE pc' = pc /\ UNCHANGED confVars
  <2>1. UNCHANGED <<file, read, h_conf, q_nodes>>  BY <1>2 DEF confVars
  <2>2. Complete' = Complete  BY <2>1, SameOpen DEF Complete
  <2>3. /\ Stack(read, q_nodes)' <=> Stack(read, q_nodes)
        /\ Table(read, h_conf)' <=> Table(read, h_conf)
    BY <2>1, SameReading
  <2> QED  BY <1>2, <2>1, <2>2, <2>3 DEF Parsed
<1>3. CASE ReadOptions /\ ~options.bad
  <2>1. CASE file = NULL
    BY <1>3, <2>1 DEF ReadOptions, Parsed
  <2>2. CASE file # NULL
    <3>1. /\ pc' = "parse" /\ read' = 0 /\ q_nodes' = <<>> /\ h_conf' = NoSettings
          /\ file' = file /\ file \in ConfFiles
      BY <1>3, <2>2 DEF ReadOptions, Parsed, Stacked
    <3>2. 1 .. 0 = {}  OBVIOUS
    <3>3. Opens(0) = {}  BY <3>2 DEF Opens
    <3>4. Stack(0, <<>>)
      <4>1. <<>> \in Seq(Elements) /\ 1 .. Len(<<>>) = {}  OBVIOUS
      <4> QED  BY <3>3, <4>1 DEF Stack
    <3>5. Done(0) = {}
      <4>1. file \in Seq(Calls)  BY <3>1, FileIs
      <4>2. \A s \in Settings : s \in 1 .. Len(file)  BY <4>1 DEF Settings
      <4>3. Len(file) \in Nat  BY <4>1
      <4>4. \A s \in Settings : ~(s <= 0)  BY <4>2, <4>3
      <4> QED  BY <4>4 DEF Done
    <3>6. Table(0, NoSettings)  BY <3>5 DEF Table, NoSettings
    <3>7. Stack(read, q_nodes)' /\ Table(read, h_conf)'
      BY <3>1, <3>4, <3>6, SameReading
    <3> QED  BY <3>1, <3>7 DEF Parsed
  <2> QED  BY <2>1, <2>2
<1>4. CASE ParseFile /\ Callback /\ UNCHANGED appVars
  <2>1. pc = "parse" /\ pc' = "parse"  BY <1>4 DEF ParseFile, appVars
  <2>2. file \in ConfFiles /\ read \in 0 .. Len(file)  BY <2>1 DEF Stacked
  <2>3. Stack(read, q_nodes) /\ Table(read, h_conf)  BY <2>1 DEF Parsed
  <2>4. Stack(read, q_nodes)' /\ Table(read, h_conf)'
    BY <1>4, <2>2, <2>3, CallbackReads
  <2> QED  BY <2>1, <2>4 DEF Parsed
<1>5. CASE /\ pc = "parse" /\ pc' = "settings" /\ UNCHANGED confVars
           /\ read = Len(file) /\ Complete
  <2>1. UNCHANGED <<file, read, h_conf, q_nodes>>  BY <1>5 DEF confVars
  <2>2. Complete' = Complete  BY <2>1, SameOpen DEF Complete
  <2>3. Table(read, h_conf)' <=> Table(read, h_conf)
    BY <2>1, SameReading
  <2>4. file \in ConfFiles  BY <1>5 DEF Stacked
  <2> QED  BY <1>5, <2>1, <2>2, <2>3, <2>4 DEF Parsed
<1>6. ReadOptions => pc' \notin {"options", "parse", "settings"} \/ ~options.bad
  BY DEF ReadOptions, Fail
<1>7. ParseFile => \/ Callback /\ UNCHANGED appVars
                   \/ pc' \in {"destroy", "ended"}
                   \/ /\ pc = "parse" /\ pc' = "settings" /\ UNCHANGED confVars
                      /\ read = Len(file) /\ Complete
  BY DEF ParseFile, Fail
<1>8. ApplyOptions \/ MakeParts \/ Daemonize \/ LeaveLoop =>
         pc' \notin {"options", "parse", "settings"}
  BY DEF ApplyOptions, Fail, MakeParts, Make, Unmade, MakeSignals, MakePeerServer,
         Daemonize, LeaveLoop
<1>9. Release => pc' \notin {"options", "parse", "settings"}  BY DEF Release
<1>10. Interrupt \/ UNCHANGED vars =>
          \/ pc' = "ended"
          \/ pc' = pc /\ UNCHANGED confVars
  BY DEF Interrupt, vars, appVars
<1> QED
  BY <1>1, <1>2, <1>3, <1>4, <1>5, <1>6, <1>7, <1>8, <1>9, <1>10
     DEF Next, Main

\* All of this together is invariant.
THEOREM ParserInvariant == Spec => [](IInv /\ Stacked /\ Parsed)
<1>1. Init => IInv /\ Stacked /\ Parsed
  BY InitIInv, InitStacked DEF Init, Parsed
<1>2. IInv /\ Stacked /\ Parsed /\ [Next]_vars => IInv' /\ Stacked' /\ Parsed'
  BY NextIInv, NextStacked, NextParsed
<1> QED  BY <1>1, <1>2, PTL DEF Spec

\* A file that was parsed reads as it is written, whatever file it is.
THEOREM ReadAsWritten == Spec => []SettingsRead
<1>1. Stacked /\ Parsed => SettingsRead
  <2> SUFFICES ASSUME Stacked, Parsed, pc = "settings", file # NULL
               PROVE  SettingsRead
    BY DEF SettingsRead
  <2>1. q_nodes = <<>>  BY DEF Stacked, Stages
  <2>2. file \in ConfFiles /\ Complete /\ Table(Len(file), h_conf)  BY DEF Parsed
  <2> QED  BY <2>1, <2>2, TableRead DEF SettingsRead
<1> QED  BY <1>1, ParserInvariant, PTL

\* application_destroy leaves no part behind, and after a SIGINT ("freeing all
\* used memory") nothing else of main's either.
THEOREM NothingLeft == Spec => []ReleasedAtEnd
<1>1. IInv /\ Stacked => ReleasedAtEnd  BY DEF IInv, Stacked, ReleasedAtEnd
<1> QED  BY <1>1, ParserInvariant, PTL

-----------------------------------------------------------------------------
(***************************************************************************)
(* What the node is told.                                                  *)
(***************************************************************************)
\* The getters return what the file says, or nothing where it says it twice.
LEMMA GetReads ==
    ASSUME SettingsRead, pc = "settings", file \in ConfFiles, file # NULL,
           NEW type, NEW n
    PROVE  Get(h_conf, type, n) \in Readings(type, n)
<1> DEFINE S == Named(n)
           last == Last1(S)
           value == IF file[last].type = type THEN Value(last) ELSE Unset(type)
<1>1. Readings(type, n) = IF S = {} THEN {Unset(type)}
                          ELSE IF Cardinality(S) = 1 THEN {value}
                          ELSE {value, Unset(type)}
  BY DEF Readings
<1>2. DOMAIN h_conf \subseteq {Name(s) : s \in Settings}  BY DEF SettingsRead
<1>3. \A s \in Settings :
         /\ Named(Name(s)) = {s} => Name(s) \in DOMAIN h_conf
         /\ Name(s) \in DOMAIN h_conf =>
               /\ h_conf[Name(s)].type = file[Last1(Named(Name(s)))].type
               /\ h_conf[Name(s)].value = Value(Last1(Named(Name(s))))
  BY DEF SettingsRead
<1>4. CASE n \in DOMAIN h_conf
  <2>1. PICK s \in Settings : Name(s) = n  BY <1>2, <1>4
  <2>2. S # {}  BY <2>1 DEF Named
  <2>3. /\ h_conf[n].type = file[last].type
        /\ h_conf[n].value = Value(last)
    BY <1>3, <1>4, <2>1
  <2>4. Get(h_conf, type, n) = value
    <3>1. CASE file[last].type = type  BY <1>4, <2>3, <3>1 DEF Get
    <3>2. CASE file[last].type # type  BY <1>4, <2>3, <3>2 DEF Get
    <3> QED  BY <3>1, <3>2
  <2> HIDE DEF value, S
  <2> QED  BY <1>1, <2>2, <2>4
<1>5. CASE n \notin DOMAIN h_conf
  <2>1. Get(h_conf, type, n) = Unset(type)  BY <1>5 DEF Get
  <2>2. Cardinality(S) # 1
    <3> SUFFICES ASSUME Cardinality(S) = 1 PROVE FALSE  OBVIOUS
    <3>1. IsFiniteSet(S)
      <4>1. file \in Seq(Calls) /\ Len(file) \in Nat  BY FileIs
      <4>2. S \in SUBSET (1 .. Len(file))  BY <4>1 DEF Named, Settings
      <4>3. IsFiniteSet(1 .. Len(file))  BY <4>1, FS_Interval
      <4> HIDE DEF S
      <4> QED  BY <4>2, <4>3, FS_Subset
    <3>2. PICK s : S = {s}  BY <3>1, FS_Singleton
    <3>3. s \in Settings /\ Name(s) = n  BY <3>2 DEF Named
    <3> QED  BY <1>3, <1>5, <3>2, <3>3
  <2> HIDE DEF value, S
  <2> QED  BY <1>1, <2>1, <2>2
<1> QED  BY <1>4, <1>5

\* What a file configures stays while the file does.
LEMMA SameConfigured ==
    ASSUME file' = file, NEW type, NEW n
    PROVE  Configured(type, n)' = Configured(type, n)
<1>1. \A S : Last1(S)' = Last1(S)  BY SameNamed DEF Last1
<1>2. Named(n)' = Named(n)  BY SameNamed
<1>3. Readings(type, n)' = Readings(type, n)
  BY <1>1, <1>2 DEF Readings, Value
<1> QED  BY <1>3 DEF Configured

\* A getter after a setter.
LEMMA GetPut ==
    ASSUME NEW conf, NEW type, NEW n, NEW value, NEW t, NEW m
    PROVE  Get(Put(conf, type, n, value), t, m)
              = IF m = n THEN IF t = type THEN value ELSE Unset(t)
                ELSE Get(conf, t, m)
<1> DEFINE c == Put(conf, type, n, value)
<1>1. /\ DOMAIN c = DOMAIN conf \cup {n}
      /\ \A k \in DOMAIN c : c[k] = IF k = n THEN [type |-> type, value |-> value]
                                    ELSE conf[k]
  BY DEF Put
<1> HIDE DEF c
<1>2. CASE m = n
  <2>1. m \in DOMAIN c /\ c[m].type = type /\ c[m].value = value
    BY <1>1, <1>2
  <2> QED  BY <1>2, <2>1 DEF Get, c
<1>3. CASE m # n
  <2>1. m \in DOMAIN c <=> m \in DOMAIN conf  BY <1>1, <1>3
  <2>2. m \in DOMAIN c => c[m] = conf[m]  BY <1>1, <1>3
  <2> QED  BY <1>3, <2>1, <2>2 DEF Get, c
<1> QED  BY <1>2, <1>3

\* The settings that the node runs with, from the moment the command line has
\* been applied.
AsTold ==
    LET dir     == Get(h_conf, "string", StorageDir)
        peer_id == Get(h_conf, "string", PeerID)
        level   == Get(h_conf, "int", LogLevel)
        fore    == Get(h_conf, "boolean", Foreground)
    IN  /\ IF options.storage # NULL THEN dir = options.storage
           ELSE dir \in Configured("string", StorageDir)
        /\ dir \in UsableDirs
        /\ IF options.peer_id # NULL THEN peer_id = options.peer_id
           ELSE peer_id \in Configured("string", PeerID)
        /\ peer_id # NULL
        /\ IF options.verbose THEN level = LOG_debug
           ELSE level \in Configured("int", LogLevel)
        /\ IF options.foreground THEN fore = TRUE
           ELSE fore \in Configured("boolean", Foreground)

Told ==
    /\ pc \in Stages \ {"loop"} => detached = FALSE
    /\ pc = "parse" => file # NULL
    /\ pc = "settings" /\ file = NULL => h_conf = Default
    /\ pc \in Stages \ {"options", "parse", "settings"} => AsTold
    /\ pc = "loop" /\ detached =>
          ~options.foreground /\ FALSE \in Configured("boolean", Foreground)

\* What the node was told stays while file, table and options do.
LEMMA SameAsTold ==
    ASSUME UNCHANGED <<file, h_conf, options>> PROVE AsTold' <=> AsTold
<1>1. \A t, n : Configured(t, n)' = Configured(t, n)  BY SameConfigured
<1>2. \A t, n : Get(h_conf, t, n)' = Get(h_conf, t, n)  BY DEF Get
<1> QED  BY <1>1, <1>2 DEF AsTold

\* A setting that is a flag reads as one.
LEMMA FlagConfigured ==
    ASSUME NEW v \in Configured("boolean", Foreground)
    PROVE  v \in BOOLEAN
<1>1. Unset("boolean") = FALSE  BY DEF Unset
<1>2. \A text : Convert("boolean", text) \in BOOLEAN  BY DEF Convert
<1>3. CASE file = NULL
  <2>1. Get(Default, "boolean", Foreground) = FALSE
    BY <1>1 DEF Default, Get, Foreground, StorageDir, LogLevel, Listen, Host
  <2> QED  BY <1>3, <2>1 DEF Configured
<1>4. CASE file # NULL
  <2>1. v \in Readings("boolean", Foreground)  BY <1>4 DEF Configured
  <2> QED  BY <1>1, <1>2, <2>1 DEF Readings, Value
<1> QED  BY <1>3, <1>4

\* After the options were applied, the getters give what the node was told.
LEMMA ApplyTold ==
    ASSUME Stacked, Parsed, SettingsRead, Told, ApplyOptions, pc' = "evbase"
    PROVE  AsTold'
<1> DEFINE conf1 == Override(h_conf, options.verbose, "int", LogLevel, LOG_debug)
           conf2 == Override(conf1, options.peer_id # NULL, "string", PeerID,
                             options.peer_id)
           conf3 == Override(conf2, options.storage # NULL, "string", StorageDir,
                             options.storage)
           conf4 == Override(conf3, options.foreground, "boolean", Foreground, TRUE)
<1>1. /\ pc = "settings" /\ UNCHANGED <<file, options>>
      /\ h_conf' = conf4
      /\ Get(conf3, "string", StorageDir) \in UsableDirs
      /\ Get(conf4, "string", PeerID) # NULL
  BY DEF ApplyOptions, Fail
<1>2. \A t, n : Get(h_conf, t, n) \in Configured(t, n)
  <2>1. CASE file = NULL
    BY <1>1, <2>1 DEF Told, Configured
  <2>2. CASE file # NULL
    <3>1. file \in ConfFiles  BY <1>1, <2>2 DEF Parsed
    <3> QED  BY <1>1, <2>2, <3>1, GetReads DEF Configured
  <2> QED  BY <2>1, <2>2
<1>3. /\ StorageDir # PeerID /\ StorageDir # LogLevel /\ StorageDir # Foreground
      /\ PeerID # LogLevel /\ PeerID # Foreground /\ LogLevel # Foreground
  BY DEF StorageDir, PeerID, LogLevel, Foreground
<1> DEFINE on == TRUE
<1> HIDE DEF conf1, conf2, conf3, conf4, on
<1>4. \A t, m : Get(conf1, t, m) =
         IF options.verbose /\ m = LogLevel
         THEN IF t = "int" THEN LOG_debug ELSE Unset(t) ELSE Get(h_conf, t, m)
  <2>1. CASE options.verbose
    <3>1. conf1 = Put(h_conf, "int", LogLevel, LOG_debug)
      BY <2>1 DEF conf1, Override
    <3> QED  BY <2>1, <3>1, GetPut
  <2>2. CASE ~(options.verbose)
    <3>1. conf1 = h_conf  BY <2>2 DEF conf1, Override
    <3> QED  BY <2>2, <3>1
  <2> QED  BY <2>1, <2>2
<1>5. \A t, m : Get(conf2, t, m) =
         IF options.peer_id # NULL /\ m = PeerID
         THEN IF t = "string" THEN options.peer_id ELSE Unset(t) ELSE Get(conf1, t, m)
  <2>1. CASE options.peer_id # NULL
    <3>1. conf2 = Put(conf1, "string", PeerID, options.peer_id)
      BY <2>1 DEF conf2, Override
    <3> QED  BY <2>1, <3>1, GetPut
  <2>2. CASE ~(options.peer_id # NULL)
    <3>1. conf2 = conf1  BY <2>2 DEF conf2, Override
    <3> QED  BY <2>2, <3>1
  <2> QED  BY <2>1, <2>2
<1>6. \A t, m : Get(conf3, t, m) =
         IF options.storage # NULL /\ m = StorageDir
         THEN IF t = "string" THEN options.storage ELSE Unset(t) ELSE Get(conf2, t, m)
  <2>1. CASE options.storage # NULL
    <3>1. conf3 = Put(conf2, "string", StorageDir, options.storage)
      BY <2>1 DEF conf3, Override
    <3> QED  BY <2>1, <3>1, GetPut
  <2>2. CASE ~(options.storage # NULL)
    <3>1. conf3 = conf2  BY <2>2 DEF conf3, Override
    <3> QED  BY <2>2, <3>1
  <2> QED  BY <2>1, <2>2
<1>7. \A t, m : Get(conf4, t, m) =
         IF options.foreground /\ m = Foreground
         THEN IF t = "boolean" THEN on ELSE Unset(t) ELSE Get(conf3, t, m)
  <2>1. CASE options.foreground
    <3>1. conf4 = Put(conf3, "boolean", Foreground, on)
      BY <2>1 DEF conf4, Override, on
    <3> QED  BY <2>1, <3>1, GetPut
  <2>2. CASE ~(options.foreground)
    <3>1. conf4 = conf3  BY <2>2 DEF conf4, Override
    <3> QED  BY <2>2, <3>1
  <2> QED  BY <2>1, <2>2
<1>8. /\ Get(conf4, "string", StorageDir) =
            IF options.storage # NULL THEN options.storage
            ELSE Get(h_conf, "string", StorageDir)
      /\ Get(conf4, "string", StorageDir) = Get(conf3, "string", StorageDir)
      /\ Get(conf4, "string", PeerID) =
            IF options.peer_id # NULL THEN options.peer_id
            ELSE Get(h_conf, "string", PeerID)
  BY <1>3, <1>4, <1>5, <1>6, <1>7
<1>9. /\ Get(conf4, "int", LogLevel) =
            IF options.verbose THEN LOG_debug ELSE Get(h_conf, "int", LogLevel)
      /\ Get(conf4, "boolean", Foreground) =
            IF options.foreground THEN on ELSE Get(h_conf, "boolean", Foreground)
  BY <1>3, <1>4, <1>5, <1>6, <1>7
<1>10. \A t, n : Configured(t, n)' = Configured(t, n)  BY <1>1, SameConfigured
<1>11. \A t, n : Get(h_conf, t, n)' = Get(conf4, t, n)  BY <1>1 DEF Get
<1> QED  BY <1>1, <1>2, <1>8, <1>9, <1>10, <1>11 DEF AsTold, on

\* No step of the process changes what the getters give.
LEMMA NextTold ==
    IInv /\ Stacked /\ Parsed /\ SettingsRead /\ Told /\ [Next]_vars => Told'
<1> SUFFICES ASSUME IInv, Stacked, Parsed, SettingsRead, Told, [Next]_vars
             PROVE  Told'
  OBVIOUS
<1>1. CASE pc' \in {"destroy", "ended"}  BY <1>1 DEF Told, Stages
<1>2. CASE /\ pc \in Stages \ {"options", "parse", "settings", "loop"}
           /\ pc' \in Stages \ {"options", "parse", "settings", "loop"}
           /\ UNCHANGED <<file, h_conf, options, detached>>
  BY <1>2, SameAsTold DEF Told
<1>3. CASE pc' = pc /\ UNCHANGED <<file, h_conf, options, detached>>
  <2>1. Configured("boolean", Foreground)' = Configured("boolean", Foreground)
    BY <1>3, SameConfigured
  <2> QED  BY <1>3, <2>1, SameAsTold DEF Told
<1>4. CASE ReadOptions /\ ~options.bad
  <2>1. pc = "options" /\ detached' = detached /\ file' = file
        /\ (\/ file = NULL /\ pc' = "settings" /\ h_conf' = Default
            \/ file # NULL /\ pc' = "parse")
    BY <1>4 DEF ReadOptions
  <2>2. detached = FALSE  BY <2>1 DEF Told, Stages
  <2> QED  BY <2>1, <2>2 DEF Told, Stages
<1>5. CASE ParseFile /\ pc' \in {"parse", "settings"}
  <2>1. pc = "parse" /\ detached' = detached /\ file' = file
    BY <1>5 DEF ParseFile, appVars, confVars, Callback, StartElement, Text,
                EndElement, Next1
  <2>2. detached = FALSE  BY <2>1 DEF Told, Stages
  <2>3. file # NULL  BY <2>1 DEF Told
  <2> QED  BY <1>5, <2>1, <2>2, <2>3 DEF Told, Stages
<1>6. CASE ApplyOptions /\ pc' = "evbase"
  <2>1. AsTold'  BY <1>6, ApplyTold
  <2>2. detached' = FALSE  BY <1>6 DEF ApplyOptions, Told, Stages
  <2> QED  BY <1>6, <2>1, <2>2 DEF Told
<1>7. CASE Daemonize
  <2>1. pc = "daemonize" /\ pc' = "loop" /\ UNCHANGED <<file, h_conf, options>>
    BY <1>7 DEF Daemonize, confVars
  <2>2. AsTold /\ AsTold'  BY <2>1, SameAsTold DEF Told, Stages
  <2>3. ASSUME detached'
        PROVE  (~options.foreground /\ FALSE \in Configured("boolean", Foreground))'
    <3> DEFINE fore == Get(h_conf, "boolean", Foreground)
    <3>1. ~fore  BY <1>7, <2>3 DEF Daemonize
    <3>2. ~options.foreground /\ fore \in Configured("boolean", Foreground)
      BY <2>2, <3>1 DEF AsTold
    <3>3. fore = FALSE
      <4> HIDE DEF fore
      <4>1. fore \in BOOLEAN  BY <3>2, FlagConfigured
      <4> QED  BY <3>1, <4>1
    <3>4. Configured("boolean", Foreground)' = Configured("boolean", Foreground)
      BY <2>1, SameConfigured
    <3> QED  BY <2>1, <3>2, <3>3, <3>4
  <2> QED  BY <2>1, <2>2, <2>3 DEF Told, Stages
<1>8. CASE MakeParts
  <2>1. UNCHANGED <<file, h_conf, options, detached>>
    BY <1>8 DEF MakeParts, confVars
  <2>2. \/ pc' \in {"destroy", "ended"}
        \/ /\ pc \in Stages \ {"options", "parse", "settings", "loop"}
           /\ pc' \in Stages \ {"options", "parse", "settings", "loop"}
    BY <1>8 DEF MakeParts, Make, Unmade, Fail, MakeSignals, MakePeerServer, Stages
  <2> QED  BY <1>1, <1>2, <2>1, <2>2
<1>9. CASE Release \/ LeaveLoop
  BY <1>1, <1>9 DEF Release, LeaveLoop
<1>10. CASE Interrupt \/ UNCHANGED vars
  BY <1>1, <1>3, <1>10 DEF Interrupt, vars, confVars, appVars
<1>11. ReadOptions => ~options.bad \/ pc' = "destroy"  BY DEF ReadOptions, Fail
<1>12. ParseFile => pc' \in {"parse", "settings", "destroy", "ended"}
  BY DEF ParseFile, appVars, Fail
<1>13. ApplyOptions => pc' \in {"evbase", "destroy", "ended"}
  BY DEF ApplyOptions, Fail
<1> QED
  BY <1>1, <1>4, <1>5, <1>6, <1>7, <1>8, <1>9, <1>10, <1>11, <1>12, <1>13
     DEF Next, Main

\* A node in its loop runs as it was told to, by the command line, the file or
\* the defaults.
THEOREM ToldAndHeard == Spec => []RunsAsTold
<1>1. Init => Told  BY DEF Init, Told, Stages
<1>2. IInv /\ Stacked /\ Parsed /\ SettingsRead /\ Told /\ [Next]_vars => Told'
  BY NextTold
<1>3. Told => RunsAsTold
  <2> SUFFICES ASSUME Told, pc = "loop" PROVE RunsAsTold  BY DEF RunsAsTold
  <2>1. AsTold  BY DEF Told, Stages
  <2>2. detached => ~options.foreground /\ FALSE \in Configured("boolean", Foreground)
    BY DEF Told
  <2> QED  BY <2>1, <2>2 DEF AsTold, RunsAsTold
<1> QED  BY <1>1, <1>2, <1>3, ParserInvariant, ReadAsWritten, PTL DEF Spec
=============================================================================
