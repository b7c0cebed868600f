------------------------------ MODULE Bencode ------------------------------
(***************************************************************************)
(* The bencode parser (src/src/tbfs_bencode.c), a recursive descent over a *)
(* buffer that each parser takes its bytes off.  A byte is a one-character *)
(* string.  The result of a parser is a record: the value, and the rest of *)
(* the buffer.                                                             *)
(*                                                                         *)
(* A value is a pair of its BType and what it holds: a sequence of bytes,  *)
(* an integer, a sequence of values, or a function from keys to values.    *)
(*                                                                         *)
(* Every parser takes a byte off before it calls another, so that the      *)
(* recursion is on the number of bytes, and a loop over items ends within  *)
(* it too.                                                                 *)
(*                                                                         *)
(* The parsers search for ":" and "e" and use what they find unchecked,    *)
(* atoi keeps to the width of an int, and a dictionary looks into a key    *)
(* that could not be parsed.  They are modelled where the search succeeds, *)
(* the number fits and there is a key.                                     *)
(***************************************************************************)
EXTENDS Integers, Sequences, SequencesExt, FiniteSets, FiniteSetsExt

CONSTANT Byte   \* what a buffer may be made of

Digit == <<"0", "1", "2", "3", "4", "5", "6", "7", "8", "9">>
Nul   == "NUL"

ASSUME ByteAssumption ==
    /\ \A n \in 0..9 : Digit[n + 1] \in Byte
    /\ {":", "-", "i", "l", "d", "e"} \subseteq Byte

NULL == <<"none">>   \* no value

Rest(in, n) == SubSeq(in, n + 1, Len(in))

\* evbuffer_search: where the first c is.
Search(in, c) == Min({k \in DOMAIN in : in[k] = c})

\* g_ascii_isdigit, and what the digit stands for.
IsDigit(c) == \E n \in 0..9 : c = Digit[n + 1]
DigitValue(c) == CHOOSE n \in 0..9 : c = Digit[n + 1]

Number(digits) ==
    LET number[k \in Nat] ==
            IF k = 0 THEN 0 ELSE 10 * number[k - 1] + DigitValue(digits[k])
    IN  number[Len(digits)]

\* atoi and atoll.
Atoi(s) ==
    IF s # <<>> /\ Head(s) = "-" THEN -Number(Tail(s)) ELSE Number(s)

\* g_strdup and g_str_equal read a key up to its first NUL.
CString(s) ==
    LET nuls == {k \in DOMAIN s : s[k] = Nul}
    IN  IF nuls = {} THEN s ELSE SubSeq(s, 1, Min(nuls) - 1)

\* bvalue_parse_string.
ParseString(in) ==
    LET colon == Search(in, ":")
        len   == Atoi(SubSeq(in, 1, colon - 1))
        left  == Rest(in, colon)
    IN  [value |-> <<"string", SubSeq(left, 1, Min({len, Len(left)}))>>,
         rest  |-> Rest(left, len)]

\* Fault: the "e" is not removed.
ParseIntKeepingE(in) ==
    LET left == Rest(in, 1)
        end  == Search(left, "e")
    IN  [value |-> <<"int", Atoi(SubSeq(left, 1, end - 1))>>,
         rest  |-> Rest(left, end - 1)]

\* bvalue_parse_int.
ParseInt(in) ==
    LET left == Rest(in, 1)
        end  == Search(left, "e")
    IN  [value |-> <<"int", Atoi(SubSeq(left, 1, end - 1))>>,
         rest  |-> Rest(left, end)]

\* The loops over the items of a list and of a dictionary stop at an "e", and
\* at the last byte, which is taken for one.
AtEnd(in) == Len(in) <= 1 \/ Head(in) = "e"

\* An iteration of a loop, or its end: what was found so far, what is left of
\* the buffer, and whether the loop goes on.
Turn(found, left, at) == [found |-> found, left |-> left, at |-> at]

\* The loop of bvalue_parse_list.  An item that cannot be parsed leaves an
\* empty list.
ListTurn(parse, was) ==
    LET item == parse[was.left]
    IN  CASE was.at = "end" -> was
          [] was.at = "loop" /\ AtEnd(was.left) ->
                Turn(was.found, Rest(was.left, 1), "end")
          [] was.at = "loop" /\ ~AtEnd(was.left) ->
                IF item.value = NULL THEN Turn(<<>>, item.rest, "end")
                ELSE Turn(Append(was.found, item.value), item.rest, "loop")

\* bvalue_parse_list, of which parse is bvalue_create_from_buff.
ParseList(parse, in) ==
    LET turn[k \in Nat] ==
            IF k = 0 THEN Turn(<<>>, Rest(in, 1), "loop")
            ELSE ListTurn(parse, turn[k - 1])
        last == turn[Len(in)]
    IN  [value |-> <<"list", last.found>>, rest |-> last.left]

\* g_hash_table_insert.
HashTableInsert(table, key, val) ==
    [k \in DOMAIN table \cup {key} |-> IF k = key THEN val ELSE table[k]]

\* The loop of bvalue_parse_dict.  A key that is not a string leaves no table,
\* in which nothing is found.
DictTurn(parse, was) ==
    LET key == parse[was.left]
        val == parse[key.rest]
    IN  CASE was.at = "end" -> was
          [] was.at = "loop" /\ AtEnd(was.left) ->
                Turn(was.found, Rest(was.left, 1), "end")
          [] was.at = "loop" /\ ~AtEnd(was.left) ->
                IF key.value[1] # "string" THEN Turn(<<>>, key.rest, "end")
                ELSE Turn(HashTableInsert(was.found, CString(key.value[2]),
                                          val.value),
                          val.rest, "loop")

\* bvalue_parse_dict.
ParseDict(parse, in) ==
    LET turn[k \in Nat] ==
            IF k = 0 THEN Turn(<<>>, Rest(in, 1), "loop")
            ELSE DictTurn(parse, turn[k - 1])
        last == turn[Len(in)]
    IN  [value |-> <<"dict", last.found>>, rest |-> last.left]

\* bvalue_create_from_buff, which the parsers of lists and dictionaries call.
ParseWith(parse, in) ==
    CASE in # <<>> /\ IsDigit(Head(in)) -> ParseString(in)
      [] in # <<>> /\ Head(in) = "i"    -> ParseInt(in)
      [] in # <<>> /\ Head(in) = "l"    -> ParseList(parse, in)
      [] in # <<>> /\ Head(in) = "d"    -> ParseDict(parse, in)
      [] OTHER                          -> [value |-> NULL, rest |-> in]

\* ... on a buffer of up to n bytes.
Parsing[n \in Nat] ==
    [in \in Seq(Byte) |-> IF n = 0 THEN [value |-> NULL, rest |-> in]
                          ELSE ParseWith(Parsing[n - 1], in)]

Parse(in) == Parsing[Len(in)][in]
=============================================================================
