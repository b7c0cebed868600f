------------------------------- MODULE WRange -------------------------------
(***************************************************************************)
(* WRange (src/src/wrange.c): which bytes of a piece are on disk, as a     *)
(* sorted list of intervals.  wrange_add walks the list with two pointers, *)
(* widens the first interval that meets the new one and absorbs the later  *)
(* ones into it while it walks.  A step of this specification is one       *)
(* iteration of one of the two loops, or one of the ends of the call.      *)
(*                                                                         *)
(* An interval from start to end stands for the bytes start..end-1: the    *)
(* only caller adds offset and offset + len (tbfs_storage_torrent.c:186),  *)
(* which 64 bits hold.  An empty write adds an empty interval.             *)
(***************************************************************************)
EXTENDS Integers, Sequences, SequencesExt, FiniteSets, FiniteSetsExt

CONSTANT Size   \* bytes a caller adds are below Size

ASSUME SizeAssumption == Size \in Nat

Intervals == {i \in [start : 0..Size, end : 0..Size] : i.start <= i.end}

NoCall == [start |-> 0, end |-> -1]

VARIABLES
    l_intervals,   \* the list
    new,           \* the arguments of the call that runs, or NoCall
    found,         \* did an interval meet the new one?
    l, j,          \* positions in the list; j = 0: not in the inner loop
    added          \* history: the bytes of all calls made

vars == <<l_intervals, new, found, l, j, added>>

TypeOK ==
    /\ l_intervals \in Seq(Intervals)
    /\ new \in Intervals \cup {NoCall}
    /\ found \in BOOLEAN
    /\ l \in 1..(Len(l_intervals) + 1)
    /\ j \in 0..(Len(l_intervals) + 1)
    /\ added \in SUBSET (0..Size)

-----------------------------------------------------------------------------
Bytes(i) == i.start..(i.end - 1)

\* "is in range" (line 70).
Holds(in, i) == in.start <= i.start /\ in.end >= i.end

\* "overlaps" (line 75).  Intervals that only touch overlap.
Overlaps(in, i) ==
    \/ in.start >= i.start /\ in.start <= i.end
    \/ in.end >= i.start /\ in.end <= i.end

\* Fault: an interval inside the widened one is not looked for.
MeetsAtAnEnd(in, in1) ==
    \/ in.start >= in1.start /\ in.start <= in1.end
    \/ in.end >= in1.start /\ in.end <= in1.end

\* Lines 89-91.
Meets(in, in1) ==
    \/ in.start >= in1.start /\ in.start <= in1.end
    \/ in.end >= in1.start /\ in.end <= in1.end
    \/ in.start <= in1.start /\ in.end >= in1.end

\* Fault: only the end is extended.
WidenedAtEnd(in, i) ==
    [in EXCEPT !.end = IF @ < i.end THEN i.end ELSE @]

\* Lines 79-82 and 94-97.
Widened(in, i) ==
    [start |-> IF in.start > i.start THEN i.start ELSE in.start,
     end   |-> IF in.end < i.end THEN i.end ELSE in.end]

\* Fault: g_list_prepend.
InsertedFirst(s, i) == InsertAt(s, 1, i)

\* g_list_insert_sorted with intervals_compare: before the first element that
\* does not start below i.
Inserted(s, i) ==
    LET behind == {k \in DOMAIN s : s[k].start >= i.start}
    IN  InsertAt(s, Min(behind \cup {Len(s) + 1}), i)

-----------------------------------------------------------------------------
\* wrange_create.
Init ==
    /\ l_intervals = <<>>
    /\ new = NoCall
    /\ found = FALSE
    /\ l = 1
    /\ j = 0
    /\ added = {}

Call(i) ==
    /\ new = NoCall
    /\ new' = i
    /\ found' = FALSE
    /\ l' = 1
    /\ added' = added \cup Bytes(i)
    /\ UNCHANGED <<l_intervals, j>>

\* The outer loop looks at an interval.
Outer == new # NoCall /\ j = 0 /\ l \in DOMAIN l_intervals

Return == new' = NoCall /\ l' = 1 /\ j' = 0 /\ UNCHANGED <<found, added>>

InRange ==
    /\ Outer
    /\ Holds(l_intervals[l], new)
    /\ Return
    /\ UNCHANGED l_intervals

Extend ==
    /\ Outer
    /\ ~Holds(l_intervals[l], new)
    /\ Overlaps(l_intervals[l], new)
    /\ found' = TRUE
    /\ l_intervals' = [l_intervals EXCEPT ![l] = Widened(@, new)]
    /\ j' = l + 1
    /\ UNCHANGED <<new, l, added>>

Pass ==
    /\ Outer
    /\ ~Holds(l_intervals[l], new)
    /\ ~Overlaps(l_intervals[l], new)
    /\ l' = l + 1
    /\ UNCHANGED <<l_intervals, new, found, j, added>>

\* The inner loop looks at a later interval.
Inner == new # NoCall /\ j \in DOMAIN l_intervals

\* Fault: the next link is read after the link is deleted.
AbsorbStale ==
    /\ Inner
    /\ Meets(l_intervals[l], l_intervals[j])
    /\ l_intervals' =
          RemoveAt([l_intervals EXCEPT ![l] = Widened(@, l_intervals[j])], j)
    /\ j' = j + 1
    /\ UNCHANGED <<new, found, l, added>>

Absorb ==
    /\ Inner
    /\ Meets(l_intervals[l], l_intervals[j])
    /\ l_intervals' =
          RemoveAt([l_intervals EXCEPT ![l] = Widened(@, l_intervals[j])], j)
    /\ UNCHANGED <<new, found, l, j, added>>

PassInner ==
    /\ Inner
    /\ ~Meets(l_intervals[l], l_intervals[j])
    /\ j' = j + 1
    /\ UNCHANGED <<l_intervals, new, found, l, added>>

\* The end of the inner loop, and of the iteration of the outer one.
NextInterval ==
    /\ new # NoCall /\ j = Len(l_intervals) + 1
    /\ j' = 0
    /\ l' = l + 1
    /\ UNCHANGED <<l_intervals, new, found, added>>

\* The end of the outer loop.
Finish ==
    /\ new # NoCall /\ j = 0 /\ l = Len(l_intervals) + 1
    /\ l_intervals' = IF found THEN l_intervals ELSE Inserted(l_intervals, new)
    /\ Return

Next ==
    \/ \E i \in Intervals : Call(i)
    \/ InRange \/ Extend \/ Pass
    \/ Absorb \/ PassInner
    \/ NextInterval \/ Finish

Spec == Init /\ [][Next]_vars

\* wrange_contain and wrange_length, which only read.
Contain(i) == \E k \in DOMAIN l_intervals : Holds(l_intervals[k], i)

Length ==
    LET length[k \in 0..Len(l_intervals)] ==
            IF k = 0 THEN 0
            ELSE length[k - 1] + l_intervals[k].end - l_intervals[k].start
    IN  length[Len(l_intervals)]

-----------------------------------------------------------------------------
(***************************************************************************)
(* Properties                                                              *)
(***************************************************************************)
\* Between calls the list is what its comment says, a sorted list of
\* intervals, and they neither overlap nor touch, so that each byte is in one.
SortedApart ==
    new = NoCall =>
        \A a, b \in DOMAIN l_intervals :
            a < b => l_intervals[a].end < l_intervals[b].start

\* wrange_contain answers for exactly the ranges all of whose bytes were
\* added, by however many calls: a range that two writes cover is in one
\* interval.
ContainExact ==
    new = NoCall =>
        \A i \in Intervals :
            i.start < i.end => (Contain(i) <=> Bytes(i) \subseteq added)

\* wrange_length counts the bytes that were added, each once.
LengthExact == new = NoCall => Length = Cardinality(added)
=============================================================================
