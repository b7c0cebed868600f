-------------------------------- MODULE Conf --------------------------------
(***************************************************************************)
(* The settings of a node (src/src/conf.c): a table of typed values under  *)
(* the names of an XML file, filled by three callbacks of glib's markup    *)
(* parser that share a stack of unfinished elements, and written to by     *)
(* main.c afterwards.                                                      *)
(*                                                                         *)
(* A file is the sequence of calls the parser makes for it.  Attribute     *)
(* values other than the types below make no setting; "uint" and "list",   *)
(* which no setting of the program has, are left out.  Files are modelled  *)
(* whose settings begin with their text, if they have any, and in which    *)
(* nothing but the root is named conf (Legible).                           *)
(* A name is the sequence of the element names that the code joins by      *)
(* dots.                                                                   *)
(***************************************************************************)
EXTENDS Integers, Sequences, SequencesExt, FiniteSets

CONSTANTS
    Atoi,       \* atoi of a text
    Truths,     \* the texts that strcasecmp finds equal to "true"
    NULL        \* no string; no file

VARIABLES
    file,       \* what the parser finds, or NULL
    read,       \* how much of it has been reported
    h_conf,     \* ConfData.h_conf: name -> [type, value]
    q_nodes     \* ConfData.q_nodes, the head first

confVars == <<file, read, h_conf, q_nodes>>

Types == {"int", "string", "boolean"}

\* The value of a node no text has set, and what a getter returns for want of
\* a node of its type.
Unset(type) == CASE type = "int"     -> 0
                 [] type = "boolean" -> FALSE
                 [] OTHER            -> NULL

Convert(type, text) == CASE type = "int"     -> Atoi[text]
                         [] type = "boolean" -> text \in Truths
                         [] type = "string"  -> text
                         [] OTHER            -> NULL

\* conf_get_string, conf_get_int and conf_get_boolean.
Get(conf, type, name) ==
    IF name \in DOMAIN conf /\ conf[name].type = type
    THEN conf[name].value ELSE Unset(type)

\* conf_set_string, conf_set_int and conf_set_boolean: the name and its node are
\* replaced together.
Put(conf, type, name, value) ==
    [n \in DOMAIN conf \cup {name} |->
        IF n = name THEN [type |-> type, value |-> value] ELSE conf[n]]

NoSettings == [n \in {} |-> 0]

-----------------------------------------------------------------------------
(***************************************************************************)
(* The callbacks of the parser                                             *)
(***************************************************************************)
Next1(tag) == /\ read < Len(file) /\ file[read + 1].tag = tag
              /\ read' = read + 1
              /\ UNCHANGED file

\* Full name of the section an element belongs to: an element inside a setting
\* belongs to that setting's section.
ParentName ==
    IF q_nodes = <<>> THEN <<>>
    ELSE IF Head(q_nodes).type = "node" THEN Head(q_nodes).full_name
    ELSE Front(Head(q_nodes).full_name)

\* An element inside a setting that is in no section: start_element_handler
\* reads the name of a parent that is NULL.
Orphan ==
    /\ read < Len(file) /\ file[read + 1].tag = "start"
    /\ file[read + 1].name # "conf" /\ q_nodes # <<>>
    /\ Head(q_nodes).type # "node" /\ Len(Head(q_nodes).full_name) = 1

\* start_element_handler.  A section is marked as set, an element of an
\* unknown type is not.
StartElement ==
    /\ Next1("start") /\ ~Orphan
    /\ LET element == file[read + 1]
           type    == IF element.type \in Types THEN element.type ELSE "node"
           node    == [type |-> type, full_name |-> Append(ParentName, element.name),
                       value |-> Unset(type), is_set |-> element.type = "node"]
       IN  q_nodes' = IF element.name = "conf" THEN q_nodes
                      ELSE <<node>> \o q_nodes
    /\ UNCHANGED h_conf

\* Fault: every text sets the value.
TextAgain ==
    /\ Next1("text")
    /\ q_nodes' = IF q_nodes = <<>> THEN q_nodes
                  ELSE [q_nodes EXCEPT
                           ![1].is_set = TRUE,
                           ![1].value = Convert(q_nodes[1].type, file[read + 1].text)]
    /\ UNCHANGED h_conf

\* text_handler: the first text inside an element, as far as the parser hands
\* it over in one piece.
Text ==
    /\ Next1("text")
    /\ q_nodes' = IF q_nodes = <<>> \/ Head(q_nodes).is_set THEN q_nodes
                  ELSE [q_nodes EXCEPT
                           ![1].is_set = TRUE,
                           ![1].value = Convert(q_nodes[1].type, file[read + 1].text)]
    /\ UNCHANGED h_conf

\* end_element_handler.  g_hash_table_insert keeps the key of a name that is
\* already there, and that key was freed with the old node: whether a lookup
\* still finds the new one is up to the allocator.
EndElement ==
    /\ Next1("end")
    /\ q_nodes' = IF q_nodes = <<>> THEN q_nodes ELSE Tail(q_nodes)
    /\ IF q_nodes = <<>> \/ Head(q_nodes).type = "node" THEN UNCHANGED h_conf
       ELSE LET node == Head(q_nodes)
                name == node.full_name
            IN  \/ h_conf' = Put(h_conf, node.type, name, node.value)
                \/ /\ name \in DOMAIN h_conf
                   /\ h_conf' = [n \in DOMAIN h_conf \ {name} |-> h_conf[n]]

Callback == StartElement \/ Text \/ EndElement

-----------------------------------------------------------------------------
(***************************************************************************)
(* What a file means                                                       *)
(***************************************************************************)
\* How many elements of the file f are open after the first i calls.
DepthIn(f, i) == Cardinality({p \in 1 .. i : f[p].tag = "start"})
               - Cardinality({p \in 1 .. i : f[p].tag = "end"})

Depth(i) == DepthIn(file, i)

Calls == [tag : {"start", "text", "end"}, name : STRING, type : STRING,
          text : STRING]

\* glib's parser ends no element it has not started, and the files are those
\* described above.
Legible(f) ==
    /\ f \in Seq(Calls)
    /\ \A i \in 0 .. Len(f) : DepthIn(f, i) >= 0
    /\ \A p \in DOMAIN f : f[p].tag = "start" =>
          /\ f[p].name = "conf" => p = 1 /\ f[p].type \notin Types
          /\ f[p].type \in Types /\ p < Len(f) => f[p + 1].tag # "start"

\* Every element that is opened is closed; the parser fails otherwise.
Complete == Depth(Len(file)) = 0

\* The elements that are settings, by their place in the file.
Settings == {p \in DOMAIN file : file[p].tag = "start" /\ file[p].type \in Types}

\* What is written in a setting, as a value of its type.
Value(s) == IF file[s + 1].tag = "text"
            THEN Convert(file[s].type, file[s + 1].text)
            ELSE Unset(file[s].type)

\* Is the element p still open after r calls?
Open(p, r) == \A i \in p .. r : Depth(i) >= Depth(p)

\* The sections around an element.
Sections(s) ==
    {p \in 1 .. s - 1 : /\ file[p].tag = "start" /\ file[p].name # "conf"
                       /\ file[p].type \notin Types
                       /\ Open(p, s)}

\* The names of the elements S, from the outside in.
Names(S) ==
    LET place(i) == {p \in S : Cardinality({q \in S : q <= p}) = i}
    IN  [i \in 1 .. Cardinality(S) |-> file[CHOOSE p \in place(i) : TRUE].name]

Name(s) == Append(Names(Sections(s)), file[s].name)

\* The settings of a name, and of these the last in the file: the one that
\* ends after the others.
Named(name) == {s \in Settings : Name(s) = name}
EndsBefore(r, s) == (r < s /\ ~Open(r, s)) \/ (r > s /\ Open(s, r))
Last1(S) == CHOOSE s \in S : \A r \in S \ {s} : EndsBefore(r, s)

\* The values a getter may return: that of the file, and if the file has
\* several the last one or none.
Readings(type, name) ==
    LET S    == Named(name)
        last == Last1(S)
        value == IF file[last].type = type THEN Value(last) ELSE Unset(type)
    IN  IF S = {} THEN {Unset(type)}
        ELSE IF Cardinality(S) = 1 THEN {value} ELSE {value, Unset(type)}
=============================================================================
