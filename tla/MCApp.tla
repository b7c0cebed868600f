------------------------------- MODULE MCApp -------------------------------
(***************************************************************************)
(* App with every command line of one peer id and one directory, and files *)
(* that are complete, that lack a setting, state one twice or with another *)
(* type, have a setting in no section, a setting inside a setting (of the  *)
(* same name, too) or a text in two pieces, or end too early.              *)
(***************************************************************************)
EXTENDS App

Start(name, type) == [tag |-> "start", name |-> name, type |-> type, text |-> ""]
TextOf(text)      == [tag |-> "text", name |-> "", type |-> "", text |-> text]
End               == [tag |-> "end", name |-> "", type |-> "", text |-> ""]

Setting(name, type, text) == <<Start(name, type), TextOf(text), End>>
Section(name, body) == <<Start(name, "node"), TextOf(" ")>> \o body \o <<End>>

Dir(text)   == Section("storage", Setting("dir", "string", text))
ID          == Section("peer", Setting("peer_id", "string", "p1"))
Server      == Section("peer_server", Setting("listen", "string", "0.0.0.0"))
Tracker     == Section("tracker", Setting("host", "string", "h1"))
Fore(text)  == Section("app", Setting("foreground", "boolean", text))
Level(body) == Section("log", <<Start("level", "int")>> \o body \o <<End>>)

Whole == Section("conf", Dir("d1") \o ID \o Server \o Tracker \o Fore("true"))
MCConfFiles ==
    {Whole,
     Front(Whole),                                              \* ends too early
     SubSeq(Whole, 1, 5),
     Section("conf", Dir("d1") \o Fore("no") \o Tracker         \* no address,
         \o Section("peer", <<Start("peer_id", "string"), End>>)),  \* no text
     Section("conf", Dir("d1") \o ID \o Server),                \* no tracker
     Section("conf", Dir("d3") \o ID \o Dir("d1") \o Server \o Tracker),
     Section("conf", Setting("size", "int", "1")
                     \o Section("storage", Setting("dir", "int", "d1"))),
     Section("conf", <<Start("dir", "string"), TextOf("d1")>>   \* in no section
         \o Setting("sub", "int", "1") \o <<End>>),
     Section("conf",                        \* a text in two pieces, an unknown
         Level(<<TextOf("2"), TextOf("1")>>            \* type, nested settings,
               \o Setting("level", "int", "1"))        \* one of the same name
         \o Section("storage", <<Start("dir", "string"), TextOf("d1")>>
                \o Setting("sub", "boolean", "TRUE") \o <<End>>
                \o Setting("size", "float", "1"))
         \o Section("a", Section("b", Setting("c", "int", "1")))
         \o Server \o Tracker)}

MCOptionSets ==
    [bad : {FALSE}, version : {FALSE}, foreground : BOOLEAN, verbose : BOOLEAN,
     peer_id : {NULL, "p2"}, storage : {NULL, "d2"}]
    \cup [bad : {TRUE}, version : {FALSE}, foreground : {FALSE}, verbose : {FALSE},
          peer_id : {NULL}, storage : {NULL}]
    \cup [bad : {FALSE}, version : {TRUE}, foreground : {FALSE}, verbose : {TRUE},
          peer_id : {NULL}, storage : {NULL}]

MCUsableDirs == {"storage/", "d1", "d2"}

MCAtoi == [t \in {"1", "2", "d1"} |->
              CASE t = "1" -> 1 [] t = "2" -> 2 [] OTHER -> 0]
=============================================================================
