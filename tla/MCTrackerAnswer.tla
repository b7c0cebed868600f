-------------------------- MODULE MCTrackerAnswer --------------------------
(***************************************************************************)
(* TrackerAnswer over values nested three deep, whose strings hold bytes   *)
(* that mean something to the parser, and are up to 12 bytes long, two     *)
(* addresses and a length of two digits.                                   *)
(***************************************************************************)
EXTENDS TrackerAnswer

Address(x) == <<x, "e", ":", "1", "i", "d">>

Atoms ==
    {<<"string", s>> : s \in {<<>>, <<"e">>, <<"1", ":">>,
                              Address("a"), Address("a") \o <<"l">>,
                              Address("a") \o Address("b")}}
    \cup {<<"int", n>> : n \in {-1, 0, 12}}

ListsOf(S) == {<<"list", s>> : s \in SeqOf(S, 2)}

Keys == {PeersKey, <<"e">>, <<"i", "1">>}

DictsOf(S) ==
    {<<"dict", f>> : f \in UNION {[K -> S] : K \in kSubset(1, Keys)
                                              \cup kSubset(2, Keys)}}
    \cup {<<"dict", <<>> >>}

Flat == ListsOf({<<"int", 12>>, <<"string", <<"e">> >>})
        \cup DictsOf({<<"string", Address("a")>>})

MCAnswers ==
    Atoms \cup ListsOf(Atoms) \cup DictsOf(Atoms) \cup ListsOf(Flat)
    \cup {<<"dict", (PeersKey :> v) @@ (<<"e">> :> w)>> : v, w \in Flat}

RECURSIVE Written(_)
Written(v) ==
    LET components == IF v[1] \in {"list", "dict"}
                      THEN {v[2][k] : k \in DOMAIN v[2]} ELSE {}
    IN  CHOOSE text \in Encodings([w \in components |-> Written(w)], v) : TRUE

MCText == [v \in MCAnswers |-> Written(v)]

MCByte == {Digit[k] : k \in DOMAIN Digit}
          \cup {":", "-", "i", "l", "d", "e", "p", "r", "s", "a", "b", "x",
                "<", "h", "\r", "\n", Nul}

MCTrailers == {<<>>, <<"e">>, <<"\r", "\n">>}

MCOthers == {<<>>, <<"<", "h">>, <<"l", "x", "e">>,
             <<"d", "i", "1", "e", "i", "2", "e", "e">>}
=============================================================================
