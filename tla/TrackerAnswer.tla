--------------------------- MODULE TrackerAnswer ---------------------------
(***************************************************************************)
(* What a tracker's answer comes to: tbfs_tracker_client_on_send_request_cb *)
(* (src/src/tbfs_tracker_client.c) parses the body with Bencode and reports *)
(* peers or a failure.  TorrentCheck takes the two outcomes as given, and  *)
(* PeerConn the set of addresses.                                          *)
(*                                                                         *)
(* The tracker means a value, writes it in bencode, and may send more after *)
(* it.                                                                     *)
(***************************************************************************)
EXTENDS Bencode

CONSTANTS
    Statuses,   \* HTTP status codes
    Answers,    \* values a tracker may mean, and all that they are made of
    Text,       \* how it writes each of them
    Trailers,   \* what may follow the value
    Others      \* bodies that are no dictionary with a first key

VARIABLES
    status,     \* of the HTTP answer
    meant,      \* the value, or NULL for a body of Others
    body,
    outcome     \* <<"awaited">>, <<"failed">>, or <<"peers", addresses>>

vars == <<status, meant, body, outcome>>

-----------------------------------------------------------------------------
\* The tracker's side.
\* The last digits of a number, k + 1 at most.
Decimal[k \in Nat] ==
    [n \in Nat |->
        IF k = 0 \/ n < 10 THEN <<Digit[(n % 10) + 1]>>
        ELSE Append(Decimal[k - 1][n \div 10], Digit[(n % 10) + 1])]

DigitsOf(n) == Decimal[n][n]

EncodeString(s) == DigitsOf(Len(s)) \o <<":">> \o s

EncodeInt(n) ==
    <<"i">> \o (IF n < 0 THEN <<"-">> \o DigitsOf(-n) ELSE DigitsOf(n))
            \o <<"e">>

EncodeList(text, s) ==
    <<"l">> \o FlattenSeq([k \in DOMAIN s |-> text[s[k]]]) \o <<"e">>

EncodeDict(text, f, keys) ==
    <<"d">> \o FlattenSeq([k \in DOMAIN keys |->
                              EncodeString(keys[k]) \o text[f[keys[k]]]])
            \o <<"e">>

\* The ways to write a value, given those of its components.  The order of a
\* dictionary's entries is left open.
Encodings(text, v) ==
    CASE v[1] = "string" -> {EncodeString(v[2])}
      [] v[1] = "int"    -> {EncodeInt(v[2])}
      [] v[1] = "list"   -> {EncodeList(text, v[2])}
      [] v[1] = "dict"   -> {EncodeDict(text, v[2], keys) :
                                 keys \in SetToSeqs(DOMAIN v[2])}

ASSUME AnswersAssumption ==
    \A v \in Answers :
        \/ v \in {"string"} \X Seq(Byte)
        \/ v \in {"int"} \X Int
        \/ v \in {"list"} \X Seq(Answers)
        \/ /\ v = <<"dict", v[2]>>
           /\ IsFiniteSet(DOMAIN v[2])
           /\ v[2] \in [DOMAIN v[2] -> Answers]
           /\ DOMAIN v[2] \subseteq Seq(Byte \ {Nul})

ASSUME TextAssumption ==
    /\ Text \in [Answers -> Seq(Byte)]
    /\ \A v \in Answers : Text[v] \in Encodings(Text, v)

ASSUME TrailersAssumption == Trailers \subseteq Seq(Byte)

\* In a body of more than two bytes, what follows the "d" of a dictionary is
\* its end, or starts a value that is no string.
ASSUME OthersAssumption ==
    \A b \in Others :
        /\ b \in Seq(Byte)
        /\ Len(b) > 2 /\ b[1] = "d" => b[2] \in {"e", "i", "l", "d"}

-----------------------------------------------------------------------------
PeersKey == <<"p", "e", "e", "r", "s">>

\* Fault: the loop stops one address early.
AddressesButLast(s) ==
    [i \in 1..(Len(s) \div 6 - 1) |-> SubSeq(s, 6 * i - 5, 6 * i)]

\* Lines 222-234: four bytes of address and two of port each.
Addresses(s) == [i \in 1..(Len(s) \div 6) |-> SubSeq(s, 6 * i - 5, 6 * i)]

Awaited == <<"awaited">>
Failed  == <<"failed">>

\* Lines 184-220.
Outcome(code, inbuf) ==
    LET bval == Parse(inbuf).value
    IN  IF code # 200 THEN Failed
        ELSE IF bval[1] # "dict" THEN Failed
        ELSE IF PeersKey \notin DOMAIN bval[2] THEN Failed
        ELSE LET bpeers == bval[2][PeersKey]
             IN  IF bpeers[1] # "string" \/ Len(bpeers[2]) % 6 # 0
                 THEN Failed ELSE <<"peers", Addresses(bpeers[2])>>

Init ==
    /\ \/ /\ meant \in Answers
          /\ LET text == Text[meant]
             IN  \E t \in Trailers : body = text \o t
       \/ /\ meant = NULL
          /\ body \in Others
    /\ status \in Statuses
    /\ outcome = Awaited

OnSendRequest ==
    /\ outcome = Awaited
    /\ outcome' = Outcome(status, body)
    /\ UNCHANGED <<status, meant, body>>

Next == OnSendRequest

Spec == Init /\ [][Next]_vars

-----------------------------------------------------------------------------
(***************************************************************************)
(* Properties                                                              *)
(***************************************************************************)
\* Whatever a tracker means, nested however, is read back as it was meant,
\* bytes of structure inside strings included, and exactly its bytes are
\* taken off the buffer.
ReadBack ==
    meant # NULL =>
        /\ Parse(body).value = meant
        /\ Text[meant] \o Parse(body).rest = body

\* Peers are reported exactly when the tracker said 200 and listed them in
\* compact form, and then all of them, in order: an answer that says anything
\* else, a list of dictionaries or a failure reason included, is a failure.
Compact(v) ==
    /\ v[1] = "dict" /\ PeersKey \in DOMAIN v[2]
    /\ v[2][PeersKey][1] = "string" /\ Len(v[2][PeersKey][2]) % 6 = 0

PeersReported ==
    outcome # Awaited =>
        IF status = 200 /\ meant # NULL /\ Compact(meant)
        THEN /\ outcome[1] = "peers"
             /\ FlattenSeq(outcome[2]) = meant[2][PeersKey][2]
        ELSE outcome = Failed
=============================================================================
