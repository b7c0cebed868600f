---------------------------- MODULE WRangeProofs ----------------------------
(***************************************************************************)
(* Proofs about WRange, for any Size and so for lists of any length.  The  *)
(* call walks the list in many steps, so the invariant says at each of     *)
(* them what the intervals behind the two pointers are: those the call     *)
(* passed are clear of what it adds, and those the inner loop passed are   *)
(* clear of the interval it widens.                                        *)
(*                                                                         *)
(* Where an argument goes by induction, over the position in a list, it    *)
(* looks at the first position that is wrong (NatMin).                     *)
(***************************************************************************)
EXTENDS WRange, FiniteSetTheorems, WellFoundedInduction, TLAPS

\* The bytes of a list.
Covered(s) == UNION {Bytes(s[k]) : k \in DOMAIN s}

\* In order, and no two overlap or touch.
Apart(s) == \A a, b \in DOMAIN s : a < b => s[a].end < s[b].start

Clear(in, i) == in.end < i.start \/ in.start > i.end

Between ==
    new = NoCall =>
        j = 0 /\ l = 1 /\ Apart(l_intervals) /\ Covered(l_intervals) = added

\* The outer loop has found nothing yet.
Scanning ==
    new # NoCall /\ j = 0 /\ ~found =>
        /\ Apart(l_intervals)
        /\ added = Covered(l_intervals) \cup Bytes(new)
        /\ \A k \in 1 .. l - 1 : Clear(l_intervals[k], new)

\* The inner loop is over: the outer one walks on, and nothing is left to do.
Merged ==
    new # NoCall /\ j = 0 /\ found =>
        /\ Apart(l_intervals)
        /\ Covered(l_intervals) = added
        /\ \E k \in 1 .. l - 1 : Holds(l_intervals[k], new)

\* The inner loop runs: all but the interval at l are apart, those before it
\* and those from it to j are clear of it.
Merging ==
    new # NoCall /\ j # 0 =>
        /\ found /\ l < j /\ l \in DOMAIN l_intervals
        /\ Covered(l_intervals) = added
        /\ Holds(l_intervals[l], new)
        /\ \A a, b \in DOMAIN l_intervals \ {l} :
              a < b => l_intervals[a].end < l_intervals[b].start
        /\ \A k \in 1 .. l - 1 : l_intervals[k].end < l_intervals[l].start
        /\ \A k \in l + 1 .. Len(l_intervals) :
              l_intervals[l].start < l_intervals[k].start
        /\ \A k \in l + 1 .. j - 1 : l_intervals[l].end < l_intervals[k].start

IInv == TypeOK /\ Between /\ Scanning /\ Merged /\ Merging

-----------------------------------------------------------------------------
(***************************************************************************)
(* Lists                                                                   *)
(***************************************************************************)
\* A set of numbers that has a member has a least one.
LEMMA NatMin ==
    ASSUME NEW T, T \subseteq Nat, T # {}
    PROVE  \E m \in T : \A n \in T : m <= n
<1>1. PICK m \in T : \A n \in T : <<n, m>> \notin OpToRel(<, Nat)
  BY NatLessThanWellFounded, WFMin
<1>2. \A n \in T : ~(n < m)  BY <1>1 DEF OpToRel
<1> QED  BY <1>2

\* Sequences that are joined, element by element,
LEMMA Joined ==
    ASSUME NEW S, NEW s \in Seq(S), NEW t \in Seq(S)
    PROVE  /\ s \o t \in Seq(S)
           /\ Len(s) \in Nat /\ Len(t) \in Nat
           /\ Len(s \o t) = Len(s) + Len(t)
           /\ \A k \in 1 .. Len(s) + Len(t) :
                 (s \o t)[k] = IF k <= Len(s) THEN s[k] ELSE t[k - Len(s)]
<1>1. s \o t \in Seq(S)  OBVIOUS
<1>2. Len(s) \in Nat /\ Len(t) \in Nat  OBVIOUS
<1>3. Len(s \o t) = Len(s) + Len(t)  OBVIOUS
<1>4. \A k \in 1 .. Len(s) + Len(t) :
          (s \o t)[k] = IF k <= Len(s) THEN s[k] ELSE t[k - Len(s)]
  OBVIOUS
<1> QED  BY <1>1, <1>2, <1>3, <1>4

\* without one of their elements,
LEMMA Removed ==
    ASSUME NEW S, NEW s \in Seq(S), NEW i \in 1 .. Len(s)
    PROVE  /\ RemoveAt(s, i) \in Seq(S)
           /\ Len(RemoveAt(s, i)) = Len(s) - 1
           /\ \A k \in 1 .. Len(s) - 1 :
                 RemoveAt(s, i)[k] = IF k < i THEN s[k] ELSE s[k + 1]
<1> DEFINE a == SubSeq(s, 1, i - 1)
           b == SubSeq(s, i + 1, Len(s))
<1>1. a \in Seq(S) /\ Len(a) = i - 1 /\ \A k \in 1 .. i - 1 : a[k] = s[k]
  OBVIOUS
<1>2. b \in Seq(S) /\ Len(b) = Len(s) - i
      /\ \A k \in 1 .. Len(s) - i : b[k] = s[k + i]
  OBVIOUS
<1>3. RemoveAt(s, i) = a \o b  BY DEF RemoveAt
<1> HIDE DEF a, b
<1>4. a \o b \in Seq(S) /\ Len(a \o b) = Len(s) - 1
  <2>1. a \o b \in Seq(S) /\ Len(a \o b) = Len(a) + Len(b)
    BY <1>1, <1>2, Joined
  <2>2. Len(s) \in Nat  OBVIOUS
  <2> QED  BY <1>1, <1>2, <2>1, <2>2
<1>5. \A k \in 1 .. Len(s) - 1 :
          (a \o b)[k] = IF k < i THEN a[k] ELSE b[k - (i - 1)]
  BY <1>1, <1>2
<1>6. \A k \in 1 .. Len(s) - 1 :
          (a \o b)[k] = IF k < i THEN s[k] ELSE s[k + 1]
  BY <1>1, <1>2, <1>5
<1> QED  BY <1>3, <1>4, <1>6

\* and with one more.
LEMMA InsertedAt ==
    ASSUME NEW S, NEW s \in Seq(S), NEW e \in S, NEW i \in 1 .. Len(s) + 1
    PROVE  /\ InsertAt(s, i, e) \in Seq(S)
           /\ Len(InsertAt(s, i, e)) = Len(s) + 1
           /\ \A k \in 1 .. Len(s) + 1 :
                 InsertAt(s, i, e)[k] =
                    IF k < i THEN s[k] ELSE IF k = i THEN e ELSE s[k - 1]
<1> DEFINE a == SubSeq(s, 1, i - 1)
           b == SubSeq(s, i, Len(s))
           c == a \o <<e>>
<1>1. a \in Seq(S) /\ Len(a) = i - 1 /\ \A k \in 1 .. i - 1 : a[k] = s[k]
  OBVIOUS
<1>2. b \in Seq(S) /\ Len(b) = Len(s) - i + 1
      /\ \A k \in 1 .. Len(s) - i + 1 : b[k] = s[k + i - 1]
  OBVIOUS
<1> HIDE DEF a, b
<1>3. c \in Seq(S) /\ Len(c) = i
      /\ \A k \in 1 .. i : c[k] = IF k < i THEN s[k] ELSE e
  BY <1>1
<1>4. InsertAt(s, i, e) = c \o b  BY DEF InsertAt, a, b
<1> HIDE DEF c
<1>5. c \o b \in Seq(S) /\ Len(c \o b) = Len(s) + 1
  <2>1. c \o b \in Seq(S) /\ Len(c \o b) = Len(c) + Len(b)
    BY <1>2, <1>3, Joined
  <2>2. Len(s) \in Nat  OBVIOUS
  <2> QED  BY <1>2, <1>3, <2>1, <2>2
<1>6. \A k \in 1 .. Len(s) + 1 :
          (c \o b)[k] = IF k <= i THEN c[k] ELSE b[k - i]
  BY <1>2, <1>3
<1>7. \A k \in 1 .. Len(s) + 1 :
          (c \o b)[k] = IF k < i THEN s[k] ELSE IF k = i THEN e ELSE s[k - 1]
  <2> SUFFICES ASSUME NEW k \in 1 .. Len(s) + 1
               PROVE  (c \o b)[k] = IF k < i THEN s[k]
                                    ELSE IF k = i THEN e ELSE s[k - 1]
    OBVIOUS
  <2>1. (c \o b)[k] = IF k <= i THEN c[k] ELSE b[k - i]  BY <1>6
  <2>2. CASE k <= i
    <3>1. k \in 1 .. i  BY <2>2
    <3>2. c[k] = IF k < i THEN s[k] ELSE e  BY <1>3, <3>1
    <3> QED  BY <2>1, <2>2, <3>2
  <2>3. CASE ~(k <= i)
    <3>1. k - i \in 1 .. Len(s) - i + 1 /\ (k - i) + i - 1 = k - 1  BY <2>3
    <3>2. b[k - i] = s[(k - i) + i - 1]  BY <1>2, <3>1
    <3> QED  BY <2>1, <2>3, <3>1, <3>2
  <2> QED  BY <2>2, <2>3
<1> QED  BY <1>4, <1>5, <1>7
-----------------------------------------------------------------------------
(***************************************************************************)
(* Intervals                                                               *)
(***************************************************************************)
USE SizeAssumption

\* The two ends of an interval.
LEMMA IntervalFields ==
    ASSUME NEW i \in Intervals
    PROVE  i.start \in 0 .. Size /\ i.end \in 0 .. Size /\ i.start <= i.end
BY DEF Intervals

\* No call is taken for an interval.
LEMMA NoCallApart == NoCall \notin Intervals
BY IntervalFields DEF NoCall

\* What the code calls overlapping is meeting, and what it walks past is clear.
LEMMA MeetsOrClear ==
    ASSUME NEW in \in Intervals, NEW i \in Intervals
    PROVE  /\ Meets(in, i) <=> ~Clear(in, i)
           /\ Overlaps(in, i) => Meets(in, i)
           /\ ~Holds(in, i) /\ ~Overlaps(in, i) => Clear(in, i)
BY IntervalFields DEF Meets, Overlaps, Holds, Clear

\* An interval that absorbs another ends where the outer one does.
LEMMA WidenedInterval ==
    ASSUME NEW in \in Intervals, NEW i \in Intervals
    PROVE  /\ Widened(in, i) \in Intervals
           /\ Widened(in, i).start = IF in.start > i.start THEN i.start ELSE in.start
           /\ Widened(in, i).end = IF in.end < i.end THEN i.end ELSE in.end
<1>1. /\ Widened(in, i).start = IF in.start > i.start THEN i.start ELSE in.start
      /\ Widened(in, i).end = IF in.end < i.end THEN i.end ELSE in.end
  BY DEF Widened
<1>2. /\ (IF in.start > i.start THEN i.start ELSE in.start) \in 0 .. Size
      /\ (IF in.end < i.end THEN i.end ELSE in.end) \in 0 .. Size
      /\ (IF in.start > i.start THEN i.start ELSE in.start)
             <= (IF in.end < i.end THEN i.end ELSE in.end)
  BY IntervalFields
<1> QED  BY <1>1, <1>2 DEF Widened, Intervals

\* Widening over an interval that meets adds its bytes and no others.
LEMMA WidenedBytes ==
    ASSUME NEW in \in Intervals, NEW i \in Intervals, Meets(in, i)
    PROVE  Bytes(Widened(in, i)) = Bytes(in) \cup Bytes(i)
<1> DEFINE w == Widened(in, i)
<1>1. w \in Intervals
      /\ w.start = (IF in.start > i.start THEN i.start ELSE in.start)
      /\ w.end = (IF in.end < i.end THEN i.end ELSE in.end)
  BY WidenedInterval
<1>2. ~(in.end < i.start) /\ ~(in.start > i.end)
  BY MeetsOrClear DEF Clear
<1> HIDE DEF w
<1>3. \A b \in Int : b \in Bytes(w) <=> b \in Bytes(in) \/ b \in Bytes(i)
  BY <1>1, <1>2, IntervalFields DEF Bytes
<1>4. Bytes(w) \subseteq Int /\ Bytes(in) \subseteq Int /\ Bytes(i) \subseteq Int
  BY DEF Bytes
<1>5. Bytes(w) = Bytes(in) \cup Bytes(i)  BY <1>3, <1>4
<1> QED  BY <1>5 DEF w

\* An interval has bytes of the piece.
LEMMA BytesBelowSize ==
    ASSUME NEW i \in Intervals
    PROVE  Bytes(i) \subseteq 0 .. Size
BY IntervalFields DEF Bytes

\* Covered, byte by byte.
LEMMA CoveredIn ==
    ASSUME NEW s, NEW b
    PROVE  b \in Covered(s) <=> \E k \in DOMAIN s : b \in Bytes(s[k])
BY DEF Covered

\* Where g_list_insert_sorted puts an interval.
LEMMA InsertedWhere ==
    ASSUME NEW s \in Seq(Intervals), NEW i \in Intervals
    PROVE  \E n \in 1 .. Len(s) + 1 :
              /\ Inserted(s, i) = InsertAt(s, n, i)
              /\ \A k \in 1 .. n - 1 : s[k].start < i.start
              /\ n <= Len(s) => s[n].start >= i.start
<1> DEFINE behind == {k \in DOMAIN s : s[k].start >= i.start}
           T == behind \cup {Len(s) + 1}
           n == Min(T)
<1>1. Len(s) \in Nat /\ DOMAIN s = 1 .. Len(s)  OBVIOUS
<1>2. T \subseteq 1 .. Len(s) + 1 /\ Len(s) + 1 \in T  BY <1>1
<1>3. T \subseteq Nat /\ T # {}  BY <1>1, <1>2
<1>4. \E m \in T : \A k \in T : m <= k
  <2> HIDE DEF T
  <2> QED  BY <1>3, NatMin
<1>5. n \in T /\ \A k \in T : n <= k  BY <1>4 DEF Min
<1>6. n \in 1 .. Len(s) + 1  BY <1>2, <1>5
<1>7. Inserted(s, i) = InsertAt(s, n, i)  BY DEF Inserted
<1>8. ASSUME NEW k \in 1 .. n - 1 PROVE s[k].start < i.start
  <2>1. k \in DOMAIN s /\ ~(n <= k)  BY <1>1, <1>6
  <2>2. k \notin T  BY <1>5, <2>1
  <2>3. k \notin behind  BY <2>2
  <2>4. ~(s[k].start >= i.start)  BY <2>1, <2>3
  <2>5. s[k] \in Intervals  BY <2>1
  <2> QED  BY <2>4, <2>5, IntervalFields
<1>9. n <= Len(s) => s[n].start >= i.start
  BY <1>1, <1>5
<1> HIDE DEF n
<1> QED  BY <1>6, <1>7, <1>8, <1>9
-----------------------------------------------------------------------------
(***************************************************************************)
(* One step                                                                *)
(***************************************************************************)
LEMMA InitIInv == Init => IInv
<1> SUFFICES ASSUME Init PROVE IInv  OBVIOUS
<1>1. TypeOK
  <2>1. <<>> \in Seq(Intervals) /\ Len(<<>>) = 0  OBVIOUS
  <2>2. 1 \in 1 .. (0 + 1) /\ 0 \in 0 .. (0 + 1)  OBVIOUS
  <2> QED  BY <2>1, <2>2 DEF Init, TypeOK
<1>2. Between
  <2>1. DOMAIN <<>> = {}  OBVIOUS
  <2> QED  BY <2>1 DEF Init, Between, Apart, Covered
<1>3. Scanning /\ Merged /\ Merging
  BY DEF Init, Scanning, Merged, Merging
<1> QED  BY <1>1, <1>2, <1>3 DEF IInv

\* What the invariant says of the list, without the brackets.
LEMMA ListType ==
    ASSUME IInv
    PROVE  /\ l_intervals \in Seq(Intervals)
           /\ Len(l_intervals) \in Nat
           /\ DOMAIN l_intervals = 1 .. Len(l_intervals)
           /\ \A k \in DOMAIN l_intervals : l_intervals[k] \in Intervals
           /\ l \in 1 .. (Len(l_intervals) + 1)
           /\ j \in 0 .. (Len(l_intervals) + 1)
           /\ new # NoCall => new \in Intervals
BY DEF IInv, TypeOK

\* Each iteration keeps the loop invariant: the call itself,
LEMMA CallStep ==
    ASSUME IInv, NEW i \in Intervals, Call(i)
    PROVE  IInv'
<1>1. i # NoCall  BY NoCallApart
<1>2. j = 0 /\ l = 1 /\ Apart(l_intervals) /\ Covered(l_intervals) = added
  BY DEF IInv, Between, Call
<1>3. TypeOK'
  <2>1. added' \in SUBSET (0 .. Size)
    BY BytesBelowSize DEF IInv, TypeOK, Call
  <2>2. l' \in 1 .. (Len(l_intervals) + 1)  BY ListType DEF Call
  <2> QED  BY <2>1, <2>2 DEF IInv, TypeOK, Call
<1>4. Between'  BY <1>1 DEF Between, Call
<1>5. Scanning'
  <2>1. l' - 1 = 0 /\ 1 .. 0 = {}  BY DEF Call
  <2> QED  BY <1>2, <2>1 DEF Scanning, Call
<1>6. Merged' /\ Merging'  BY <1>2 DEF Merged, Merging, Call
<1> QED  BY <1>3, <1>4, <1>5, <1>6 DEF IInv

\* The call returns where the list is already as it should be.
LEMMA InRangeStep ==
    ASSUME IInv, InRange
    PROVE  IInv'
<1>1. l \in DOMAIN l_intervals /\ new # NoCall /\ j = 0 /\ new' = NoCall
      /\ l' = 1 /\ j' = 0 /\ found' = found /\ added' = added
      /\ l_intervals' = l_intervals /\ Holds(l_intervals[l], new)
  BY DEF InRange, Outer, Return
<1>2. Apart(l_intervals) /\ Covered(l_intervals) = added
  <2>1. CASE found  BY <1>1, <2>1 DEF IInv, Merged
  <2>2. CASE ~found
    <3>1. Apart(l_intervals) /\ added = Covered(l_intervals) \cup Bytes(new)
      BY <1>1, <2>2 DEF IInv, Scanning
    <3>2. new \in Intervals /\ l_intervals[l] \in Intervals
      BY <1>1, ListType
    <3>3. Bytes(new) \subseteq Bytes(l_intervals[l])
      BY <1>1, <3>2, IntervalFields DEF Holds, Bytes
    <3>4. Bytes(new) \subseteq Covered(l_intervals)
      BY <1>1, <3>3, CoveredIn
    <3> QED  BY <3>1, <3>4
  <2> QED  BY <2>1, <2>2, ListType DEF IInv, TypeOK
<1>3. TypeOK'  BY <1>1, ListType DEF IInv, TypeOK
<1>4. Between'  BY <1>1, <1>2 DEF Between
<1>5. Scanning' /\ Merged' /\ Merging'
  BY <1>1 DEF Scanning, Merged, Merging
<1> QED  BY <1>3, <1>4, <1>5 DEF IInv

\* Once an interval holds the new one, no later interval overlaps it: the call
\* extends one interval only.
LEMMA ExtendsOnce ==
    ASSUME IInv, Outer, Overlaps(l_intervals[l], new)
    PROVE  ~found
<1> SUFFICES ASSUME found PROVE FALSE  OBVIOUS
<1>1. new # NoCall /\ j = 0 /\ l \in DOMAIN l_intervals  BY DEF Outer
<1>2. PICK k \in 1 .. l - 1 : Holds(l_intervals[k], new)
  BY <1>1 DEF IInv, Merged
<1>3. k \in DOMAIN l_intervals /\ k < l  BY <1>1, <1>2, ListType
<1>4. l_intervals[k].end < l_intervals[l].start
  BY <1>1, <1>3 DEF IInv, Merged, Apart
<1>5. l_intervals[k] \in Intervals /\ l_intervals[l] \in Intervals
      /\ new \in Intervals
  BY <1>1, <1>3, ListType
<1> QED  BY <1>2, <1>4, <1>5, IntervalFields DEF Holds, Overlaps

\* an interval that touches the new one is widened,
LEMMA ExtendStep ==
    ASSUME IInv, Extend
    PROVE  IInv'
<1> DEFINE s == l_intervals
           w == Widened(s[l], new)
<1>1. l \in DOMAIN s /\ new # NoCall /\ j = 0 /\ new' = new /\ found' = TRUE
      /\ l' = l /\ j' = l + 1 /\ added' = added
      /\ s' = [s EXCEPT ![l] = w]
      /\ ~Holds(s[l], new) /\ Overlaps(s[l], new)
  BY DEF Extend, Outer
<1>2. ~found  BY ExtendsOnce DEF Extend
<1>3. Apart(s) /\ added = Covered(s) \cup Bytes(new)
      /\ \A k \in 1 .. l - 1 : Clear(s[k], new)
  BY <1>1, <1>2 DEF IInv, Scanning
<1>4. new \in Intervals /\ s[l] \in Intervals /\ Meets(s[l], new)
  BY <1>1, ListType, MeetsOrClear
<1>5. w \in Intervals
      /\ w.start = (IF s[l].start > new.start THEN new.start ELSE s[l].start)
      /\ w.end = (IF s[l].end < new.end THEN new.end ELSE s[l].end)
      /\ Bytes(w) = Bytes(s[l]) \cup Bytes(new)
  BY <1>4, WidenedInterval, WidenedBytes
<1> HIDE DEF w
<1>6. s' \in Seq(Intervals) /\ Len(s') = Len(s) /\ DOMAIN s' = DOMAIN s
      /\ s'[l] = w /\ \A k \in DOMAIN s : k # l => s'[k] = s[k]
  BY <1>1, <1>5, ListType
<1>7. TypeOK'  BY <1>1, <1>6, ListType DEF IInv, TypeOK
<1>8. Between' /\ Scanning' /\ Merged'
  <2>1. j' # 0  BY <1>1, ListType
  <2> QED  BY <1>1, <2>1 DEF Between, Scanning, Merged
<1>9. Merging'
  <2>1. Covered(s') = added'
    <3>1. ASSUME NEW b PROVE b \in Covered(s') <=> b \in Covered(s) \cup Bytes(new)
      <4>1. b \in Covered(s') <=> \E k \in DOMAIN s : b \in Bytes(s'[k])
        BY <1>6, CoveredIn
      <4>2. b \in Covered(s) <=> \E k \in DOMAIN s : b \in Bytes(s[k])
        BY CoveredIn
      <4>3. \A k \in DOMAIN s :
               b \in Bytes(s'[k])
                 <=> b \in Bytes(s[k]) \/ (k = l /\ b \in Bytes(new))
        BY <1>5, <1>6
      <4> QED  BY <1>1, <4>1, <4>2, <4>3
    <3> QED  BY <1>1, <1>3, <3>1
  <2>2. Holds(s'[l], new)
    BY <1>4, <1>5, <1>6, IntervalFields DEF Holds
  <2>3. \A a, b \in DOMAIN s \ {l} : a < b => s'[a].end < s'[b].start
    BY <1>3, <1>6 DEF Apart
  <2>4. ASSUME NEW k \in 1 .. l - 1 PROVE s'[k].end < s'[l].start
    <3>1. k \in DOMAIN s /\ k # l /\ k < l  BY <1>1, ListType
    <3>2. s[k].end < s[l].start /\ Clear(s[k], new) /\ s[k] \in Intervals
      BY <1>1, <1>3, <3>1, ListType DEF Apart
    <3>3. s[k].end < w.start
      BY <1>1, <1>4, <1>5, <3>2, IntervalFields DEF Clear, Overlaps
    <3> QED  BY <1>6, <3>1, <3>3
  <2>5. ASSUME NEW k \in l + 1 .. Len(s) PROVE s'[l].start < s'[k].start
    <3>1. k \in DOMAIN s /\ k # l /\ l < k  BY <1>1, ListType
    <3>2. s[l].end < s[k].start /\ s[k] \in Intervals
      BY <1>1, <1>3, <3>1, ListType DEF Apart
    <3>3. w.start < s[k].start
      BY <1>4, <1>5, <3>2, IntervalFields
    <3> QED  BY <1>6, <3>1, <3>3
  <2>6. l + 1 .. j' - 1 = {}  BY <1>1, ListType
  <2> QED  BY <1>1, <1>6, <2>1, <2>2, <2>3, <2>4, <2>5, <2>6, ListType DEF Merging
<1> QED  BY <1>7, <1>8, <1>9 DEF IInv
\* The inner loop takes the bytes of a later interval into the one at l.
LEMMA AbsorbStep ==
    ASSUME IInv, Absorb
    PROVE  IInv'
<1> DEFINE s == l_intervals
           w == Widened(s[l], s[j])
           u == [s EXCEPT ![l] = w]
<1>1. new # NoCall /\ j \in DOMAIN s /\ new' = new /\ found' = found
      /\ l' = l /\ j' = j /\ added' = added
      /\ s' = RemoveAt(u, j) /\ Meets(s[l], s[j])
  BY DEF Absorb, Inner
<1>2. j # 0 /\ j \in 1 .. Len(s)  BY <1>1, ListType
<1>3. /\ found /\ l < j /\ l \in DOMAIN s
      /\ Covered(s) = added
      /\ Holds(s[l], new)
      /\ \A a, b \in DOMAIN s \ {l} : a < b => s[a].end < s[b].start
      /\ \A k \in 1 .. l - 1 : s[k].end < s[l].start
      /\ \A k \in l + 1 .. Len(s) : s[l].start < s[k].start
      /\ \A k \in l + 1 .. j - 1 : s[l].end < s[k].start
  BY <1>1, <1>2 DEF IInv, Merging
<1>4. new \in Intervals /\ s[l] \in Intervals /\ s[j] \in Intervals
  BY <1>1, <1>3, ListType
<1>5. w \in Intervals
      /\ w.start = (IF s[l].start > s[j].start THEN s[j].start ELSE s[l].start)
      /\ w.end = (IF s[l].end < s[j].end THEN s[j].end ELSE s[l].end)
      /\ Bytes(w) = Bytes(s[l]) \cup Bytes(s[j])
  BY <1>1, <1>4, WidenedInterval, WidenedBytes
<1>6. s[l].start < s[j].start  BY <1>2, <1>3, ListType
<1>7. w.start = s[l].start  BY <1>4, <1>5, <1>6, IntervalFields
<1> HIDE DEF w
<1>8. u \in Seq(Intervals) /\ Len(u) = Len(s)
      /\ u[l] = w /\ \A k \in DOMAIN s : k # l => u[k] = s[k]
  BY <1>3, <1>5, ListType
<1> HIDE DEF u
<1>9. /\ s' \in Seq(Intervals) /\ Len(s') = Len(s) - 1
      /\ \A k \in 1 .. Len(s) - 1 : s'[k] = IF k < j THEN u[k] ELSE u[k + 1]
  BY <1>1, <1>2, <1>8, Removed
<1>10. DOMAIN s' = 1 .. Len(s) - 1  BY <1>9
<1>11. s'[l] = w /\ l \in 1 .. Len(s) - 1  BY <1>2, <1>3, <1>8, <1>9, ListType
\* An interval of the new list is the widened one or an old one.
<1>12. ASSUME NEW k \in DOMAIN s', k # l
       PROVE  /\ k < j => s'[k] = s[k] /\ k \in DOMAIN s
              /\ k >= j => s'[k] = s[k + 1] /\ k + 1 \in DOMAIN s
              /\ s'[k] \in Intervals
  <2>1. CASE k < j
    <3>1. k \in DOMAIN s /\ s'[k] = u[k]  BY <1>9, <1>10, <2>1, ListType
    <3> QED  BY <1>8, <1>10, <1>12, <2>1, <3>1, ListType
  <2>2. CASE k >= j
    <3>1. k + 1 \in DOMAIN s /\ k + 1 # l /\ s'[k] = u[k + 1]
      BY <1>2, <1>3, <1>9, <1>10, <2>2, ListType
    <3> QED  BY <1>2, <1>8, <1>10, <1>12, <2>2, <3>1, ListType
  <2> QED  BY <1>2, <1>10, <2>1, <2>2
<1>13. TypeOK'
  <2>1. l \in 1 .. Len(s') + 1 /\ j \in 0 .. Len(s') + 1
    BY <1>2, <1>9, <1>11, ListType
  <2> QED  BY <1>1, <1>9, <2>1 DEF IInv, TypeOK
<1>14. Between' /\ Scanning' /\ Merged'
  BY <1>1, <1>2 DEF Between, Scanning, Merged
<1>15. Covered(s') = Covered(s)
  <2>1. ASSUME NEW b, b \in Covered(s') PROVE b \in Covered(s)
    <3>1. PICK k \in DOMAIN s' : b \in Bytes(s'[k])  BY <2>1, CoveredIn
    <3>2. CASE k = l
      <4>1. b \in Bytes(s[l]) \/ b \in Bytes(s[j])
        BY <1>5, <1>11, <3>1, <3>2
      <4> QED  BY <1>1, <1>3, <4>1, CoveredIn
    <3>3. CASE k # l
      <4>1. \E m \in DOMAIN s : s'[k] = s[m]
        BY <1>2, <1>10, <1>12, <3>3, ListType
      <4> QED  BY <3>1, <4>1, CoveredIn
    <3> QED  BY <3>2, <3>3
  <2>2. ASSUME NEW b, b \in Covered(s) PROVE b \in Covered(s')
    <3>1. PICK k \in DOMAIN s : b \in Bytes(s[k])  BY <2>2, CoveredIn
    <3>2. CASE k = l \/ k = j
      <4>1. b \in Bytes(s'[l])  BY <1>5, <1>11, <3>1, <3>2
      <4>2. l \in DOMAIN s'  BY <1>10, <1>11
      <4> QED  BY <4>1, <4>2, CoveredIn
    <3>3. CASE k # l /\ k < j
      <4>1. k \in DOMAIN s' /\ s'[k] = s[k]
        BY <1>2, <1>10, <1>12, <3>3, ListType
      <4> QED  BY <3>1, <4>1, CoveredIn
    <3>4. CASE k > j
      <4>1. k - 1 \in DOMAIN s' /\ k - 1 # l /\ k - 1 >= j /\ (k - 1) + 1 = k
        BY <1>2, <1>3, <1>10, <3>4, ListType
      <4>2. s'[k - 1] = s[k]  BY <1>12, <4>1
      <4> QED  BY <3>1, <4>1, <4>2, CoveredIn
    <3> QED  BY <1>2, <3>2, <3>3, <3>4, ListType
  <2> QED  BY <2>1, <2>2
<1>16. Merging'
  <2>1. Holds(s'[l], new)
    BY <1>3, <1>4, <1>5, <1>7, <1>11, IntervalFields DEF Holds
  <2>2. ASSUME NEW a \in DOMAIN s' \ {l}, NEW b \in DOMAIN s' \ {l}, a < b
        PROVE  s'[a].end < s'[b].start
    <3> DEFINE m(k) == IF k < j THEN k ELSE k + 1
    <3>1. m(a) \in DOMAIN s \ {l} /\ m(b) \in DOMAIN s \ {l} /\ m(a) < m(b)
      BY <1>2, <1>3, <1>10, <1>12, <2>2, ListType
    <3>2. s'[a] = s[m(a)] /\ s'[b] = s[m(b)]
      BY <1>2, <1>10, <1>12, <2>2
    <3> QED  BY <1>3, <3>1, <3>2
  <2>3. ASSUME NEW k \in 1 .. l - 1 PROVE s'[k].end < s'[l].start
    <3>1. k \in DOMAIN s' /\ k # l /\ k < j  BY <1>2, <1>3, <1>10, ListType
    <3>2. s'[k] = s[k]  BY <1>12, <3>1
    <3> QED  BY <1>3, <1>7, <1>11, <3>2
  <2>4. ASSUME NEW k \in l + 1 .. Len(s') PROVE s'[l].start < s'[k].start
    <3>1. k \in DOMAIN s' /\ k # l /\ l < k  BY <1>9, <1>10, <1>11
    <3>2. CASE k < j
      <4>1. s'[k] = s[k] /\ k \in l + 1 .. Len(s)
        BY <1>9, <1>11, <1>12, <3>1, <3>2, ListType
      <4> QED  BY <1>3, <1>7, <1>11, <4>1
    <3>3. CASE k >= j
      <4>1. s'[k] = s[k + 1] /\ k + 1 \in l + 1 .. Len(s)
        BY <1>9, <1>11, <1>12, <3>1, <3>3, ListType
      <4> QED  BY <1>3, <1>7, <1>11, <4>1
    <3> QED  BY <1>2, <1>11, <3>2, <3>3
  <2>5. ASSUME NEW k \in l + 1 .. j - 1 PROVE s'[l].end < s'[k].start
    <3>1. k \in DOMAIN s' /\ k # l /\ k < j  BY <1>2, <1>10, <1>11, ListType
    <3>2. s'[k] = s[k] /\ k \in DOMAIN s /\ s[k] \in Intervals
      BY <1>12, <3>1
    <3>3. s[l].end < s[k].start  BY <1>3
    <3>4. s[k].end < s[j].start
      BY <1>1, <1>2, <1>3, <3>1, <3>2, ListType
    \* What meets the interval at l has nothing between them.
    <3>5. FALSE
      BY <1>1, <1>4, <1>6, <3>2, <3>3, <3>4, IntervalFields DEF Meets
    <3> QED  BY <3>5
  <2> QED
    BY <1>1, <1>3, <1>10, <1>11, <1>15, <2>1, <2>2, <2>3, <2>4, <2>5 DEF Merging
<1> QED  BY <1>13, <1>14, <1>16 DEF IInv
\* one that ends before it is passed,
LEMMA PassStep ==
    ASSUME IInv, Pass
    PROVE  IInv'
<1>1. new # NoCall /\ j = 0 /\ l \in DOMAIN l_intervals
      /\ l' = l + 1 /\ l_intervals' = l_intervals /\ new' = new
      /\ found' = found /\ j' = j /\ added' = added
  BY DEF Pass, Outer
<1>2. Clear(l_intervals[l], new)
  BY <1>1, ListType, MeetsOrClear DEF Pass
<1>3. TypeOK'
  <2>1. l' \in 1 .. (Len(l_intervals) + 1)  BY <1>1, ListType
  <2> QED  BY <1>1, <2>1 DEF IInv, TypeOK
<1>4. Between' /\ Merging'  BY <1>1 DEF Between, Merging
<1>5. Scanning'
  <2>1. \A k \in 1 .. l' - 1 : k = l \/ k \in 1 .. l - 1  BY <1>1, ListType
  <2> QED  BY <1>1, <1>2, <2>1 DEF IInv, Scanning
<1>6. Merged'
  <2>1. 1 .. l - 1 \subseteq 1 .. l' - 1  BY <1>1, ListType
  <2> QED  BY <1>1, <2>1 DEF IInv, Merged
<1> QED  BY <1>3, <1>4, <1>5, <1>6 DEF IInv

\* the inner loop passes one that does not reach it,
LEMMA PassInnerStep ==
    ASSUME IInv, PassInner
    PROVE  IInv'
<1>1. new # NoCall /\ j \in DOMAIN l_intervals
      /\ j' = j + 1 /\ l_intervals' = l_intervals /\ new' = new
      /\ found' = found /\ l' = l /\ added' = added
      /\ ~Meets(l_intervals[l], l_intervals[j])
  BY DEF PassInner, Inner
<1>2. j # 0 /\ j \in 1 .. Len(l_intervals) /\ j' # 0  BY <1>1, ListType
<1>3. l \in DOMAIN l_intervals /\ l < j
      /\ l_intervals[l].start < l_intervals[j].start
  BY <1>1, <1>2, ListType DEF IInv, Merging
<1>4. l_intervals[l].end < l_intervals[j].start
  <2> DEFINE at == l_intervals[l]
             next == l_intervals[j]
  <2>1. at \in Intervals /\ next \in Intervals  BY <1>1, <1>3, ListType
  <2>2. ~Meets(at, next) /\ at.start < next.start  BY <1>1, <1>3
  <2> HIDE DEF at, next
  <2>3. Clear(at, next)  BY <2>1, <2>2, MeetsOrClear
  <2>4. ~(at.start > next.end)  BY <2>1, <2>2, IntervalFields
  <2>5. at.end < next.start  BY <2>3, <2>4 DEF Clear
  <2> QED  BY <2>5 DEF at, next
<1>5. TypeOK'
  <2>1. j' \in 0 .. (Len(l_intervals) + 1)  BY <1>1, <1>2, ListType
  <2> QED  BY <1>1, <2>1 DEF IInv, TypeOK
<1>6. Between' /\ Scanning' /\ Merged'
  BY <1>1, <1>2 DEF Between, Scanning, Merged
<1>7. Merging'
  <2>1. \A k \in l + 1 .. j' - 1 : k = j \/ k \in l + 1 .. j - 1
    BY <1>1, <1>2, <1>3, ListType
  <2>2. l' < j'  BY <1>1, <1>2, <1>3, ListType
  <2> QED  BY <1>1, <1>2, <1>4, <2>1, <2>2 DEF IInv, Merging
<1> QED  BY <1>5, <1>6, <1>7 DEF IInv

\* At the end of the inner loop all intervals are apart again.
LEMMA NextIntervalStep ==
    ASSUME IInv, NextInterval
    PROVE  IInv'
<1> DEFINE s == l_intervals
<1>1. new # NoCall /\ j = Len(s) + 1 /\ j' = 0 /\ l' = l + 1
      /\ s' = s /\ new' = new /\ found' = found /\ added' = added
  BY DEF NextInterval
<1>2. j # 0  BY <1>1, ListType
<1>3. /\ found /\ l < j /\ l \in DOMAIN s
      /\ Covered(s) = added
      /\ Holds(s[l], new)
      /\ \A a, b \in DOMAIN s \ {l} : a < b => s[a].end < s[b].start
      /\ \A k \in 1 .. l - 1 : s[k].end < s[l].start
      /\ \A k \in l + 1 .. j - 1 : s[l].end < s[k].start
  BY <1>1, <1>2 DEF IInv, Merging
<1>4. TypeOK'
  <2>1. l' \in 1 .. (Len(s) + 1) /\ j' \in 0 .. (Len(s) + 1)
    BY <1>1, <1>3, ListType
  <2> QED  BY <1>1, <2>1 DEF IInv, TypeOK
<1>5. Between' /\ Scanning' /\ Merging'
  BY <1>1, <1>3 DEF Between, Scanning, Merging
<1>6. Apart(s)
  <2> SUFFICES ASSUME NEW a \in DOMAIN s, NEW b \in DOMAIN s, a < b
               PROVE  s[a].end < s[b].start
    BY DEF Apart
  <2>1. a \in 1 .. Len(s) /\ b \in 1 .. Len(s)  BY ListType
  <2>2. CASE a = l
    <3>1. b \in l + 1 .. j - 1  BY <1>1, <2>1, <2>2, ListType
    <3> QED  BY <1>3, <2>2, <3>1
  <2>3. CASE b = l
    <3>1. a \in 1 .. l - 1  BY <2>1, <2>3, ListType
    <3> QED  BY <1>3, <2>3, <3>1
  <2>4. CASE a # l /\ b # l  BY <1>3, <2>4
  <2> QED  BY <2>2, <2>3, <2>4
<1>7. Merged'
  <2>1. l \in 1 .. l' - 1  BY <1>1, ListType
  <2> QED  BY <1>1, <1>3, <1>6, <2>1 DEF Merged
<1> QED  BY <1>4, <1>5, <1>7 DEF IInv

\* An interval that all the others are clear of goes where it belongs.
LEMMA InsertedApart ==
    ASSUME NEW s \in Seq(Intervals), NEW i \in Intervals, Apart(s),
           \A k \in DOMAIN s : Clear(s[k], i)
    PROVE  /\ Inserted(s, i) \in Seq(Intervals)
           /\ Apart(Inserted(s, i))
           /\ Covered(Inserted(s, i)) = Covered(s) \cup Bytes(i)
<1> DEFINE t == Inserted(s, i)
<1>1. PICK n \in 1 .. Len(s) + 1 :
          /\ t = InsertAt(s, n, i)
          /\ \A k \in 1 .. n - 1 : s[k].start < i.start
          /\ n <= Len(s) => s[n].start >= i.start
  BY InsertedWhere
<1> HIDE DEF t
<1>2. /\ t \in Seq(Intervals) /\ Len(t) = Len(s) + 1
      /\ \A k \in 1 .. Len(s) + 1 :
            t[k] = IF k < n THEN s[k] ELSE IF k = n THEN i ELSE s[k - 1]
  <2> DEFINE u == InsertAt(s, n, i)
  <2>1. /\ u \in Seq(Intervals)
        /\ Len(u) = Len(s) + 1
        /\ \A k \in 1 .. Len(s) + 1 :
              u[k] = IF k < n THEN s[k] ELSE IF k = n THEN i ELSE s[k - 1]
    BY InsertedAt
  <2>2. t = u  BY <1>1
  <2> HIDE DEF u
  <2> QED  BY <2>1, <2>2
<1>3. Len(s) \in Nat /\ DOMAIN s = 1 .. Len(s) /\ DOMAIN t = 1 .. Len(s) + 1
      /\ \A k \in DOMAIN s : s[k] \in Intervals
  BY <1>2
<1>4. ASSUME NEW k \in 1 .. n - 1 PROVE k \in DOMAIN s /\ s[k].end < i.start
  <2>1. k \in DOMAIN s /\ s[k] \in Intervals  BY <1>3
  <2>2. s[k].start < i.start /\ Clear(s[k], i)  BY <1>1, <2>1
  <2> QED  BY <2>1, <2>2, IntervalFields DEF Clear
<1>5. ASSUME NEW k \in n .. Len(s) PROVE i.end < s[k].start
  <2>1. k \in DOMAIN s /\ n \in DOMAIN s /\ s[k] \in Intervals
        /\ s[n] \in Intervals /\ n <= Len(s)
    BY <1>3
  <2>2. s[k].start >= s[n].start
    <3>1. CASE k = n  BY <2>1, <3>1, IntervalFields
    <3>2. CASE n < k  BY <2>1, <3>2, IntervalFields DEF Apart
    <3> QED  BY <1>3, <3>1, <3>2
  <2>3. s[n].start >= i.start /\ Clear(s[k], i)  BY <1>1, <2>1
  <2> QED  BY <2>1, <2>2, <2>3, IntervalFields DEF Clear
<1>6. Apart(t)
  <2> SUFFICES ASSUME NEW a \in 1 .. Len(s) + 1, NEW b \in 1 .. Len(s) + 1,
                      a < b
               PROVE  t[a].end < t[b].start
    BY <1>3 DEF Apart
  <2>1. CASE b < n
    <3>1. a \in DOMAIN s /\ b \in DOMAIN s /\ t[a] = s[a] /\ t[b] = s[b]
      BY <1>2, <1>3, <2>1
    <3> QED  BY <3>1 DEF Apart
  <2>2. CASE b = n
    <3>1. a \in 1 .. n - 1 /\ t[a] = s[a] /\ t[b] = i  BY <1>2, <1>3, <2>2
    <3> QED  BY <1>4, <3>1
  <2>3. CASE n < b /\ a < n
    <3>1. a \in DOMAIN s /\ b - 1 \in DOMAIN s /\ a < b - 1
          /\ t[a] = s[a] /\ t[b] = s[b - 1]
      BY <1>2, <1>3, <2>3
    <3> QED  BY <3>1 DEF Apart
  <2>4. CASE a = n
    <3>1. b - 1 \in n .. Len(s) /\ t[a] = i /\ t[b] = s[b - 1]
      BY <1>2, <1>3, <2>4
    <3> QED  BY <1>5, <3>1
  <2>5. CASE n < a
    <3>1. a - 1 \in DOMAIN s /\ b - 1 \in DOMAIN s /\ a - 1 < b - 1
          /\ t[a] = s[a - 1] /\ t[b] = s[b - 1]
      BY <1>2, <1>3, <2>5
    <3> QED  BY <3>1 DEF Apart
  <2> QED  BY <1>3, <2>1, <2>2, <2>3, <2>4, <2>5
<1>7. Covered(t) = Covered(s) \cup Bytes(i)
  <2>1. ASSUME NEW b, b \in Covered(t) PROVE b \in Covered(s) \cup Bytes(i)
    <3>1. PICK k \in 1 .. Len(s) + 1 : b \in Bytes(t[k])
      BY <1>3, <2>1, CoveredIn
    <3>2. t[k] = i \/ \E m \in DOMAIN s : t[k] = s[m]
      <4>1. CASE k < n  BY <1>2, <1>3, <4>1
      <4>2. CASE k = n  BY <1>2, <4>2
      <4>3. CASE n < k
        <5>1. k - 1 \in DOMAIN s /\ t[k] = s[k - 1]  BY <1>2, <1>3, <4>3
        <5> QED  BY <5>1
      <4> QED  BY <4>1, <4>2, <4>3
    <3> QED  BY <3>1, <3>2, CoveredIn
  <2>2. Bytes(i) \subseteq Covered(t)
    <3>1. n \in DOMAIN t /\ t[n] = i  BY <1>2, <1>3
    <3> QED  BY <3>1, CoveredIn
  <2>3. ASSUME NEW b, b \in Covered(s) PROVE b \in Covered(t)
    <3>1. PICK k \in DOMAIN s : b \in Bytes(s[k])  BY <2>3, CoveredIn
    <3>2. CASE k < n
      <4>1. k \in DOMAIN t /\ t[k] = s[k]  BY <1>2, <1>3, <3>2
      <4> QED  BY <3>1, <4>1, CoveredIn
    <3>3. CASE n <= k
      <4>1. k + 1 \in DOMAIN t /\ ~(k + 1 < n) /\ k + 1 # n /\ (k + 1) - 1 = k
        BY <1>3, <3>3
      <4>2. t[k + 1] = s[k]  BY <1>2, <1>3, <4>1
      <4> QED  BY <3>1, <4>1, <4>2, CoveredIn
    <3> QED  BY <1>3, <3>2, <3>3
  <2> QED  BY <2>1, <2>2, <2>3
<1> QED  BY <1>2, <1>6, <1>7 DEF t

\* the new interval is inserted, or was absorbed.
LEMMA FinishStep ==
    ASSUME IInv, Finish
    PROVE  IInv'
<1>1. new # NoCall /\ j = 0 /\ l = Len(l_intervals) + 1
      /\ l_intervals' = (IF found THEN l_intervals
                         ELSE Inserted(l_intervals, new))
      /\ new' = NoCall /\ l' = 1 /\ j' = 0 /\ found' = found /\ added' = added
  BY DEF Finish, Return
<1>2. new \in Intervals  BY <1>1, ListType
<1>3. /\ l_intervals' \in Seq(Intervals)
      /\ Apart(l_intervals')
      /\ Covered(l_intervals') = added
  <2>1. CASE found  BY <1>1, <2>1, ListType DEF IInv, Merged
  <2>2. CASE ~found
    <3>1. /\ Apart(l_intervals)
          /\ added = Covered(l_intervals) \cup Bytes(new)
          /\ \A k \in 1 .. l - 1 : Clear(l_intervals[k], new)
      BY <1>1, <2>2 DEF IInv, Scanning
    <3>2. 1 .. l - 1 = DOMAIN l_intervals  BY <1>1, ListType
    <3>3. \A k \in DOMAIN l_intervals : Clear(l_intervals[k], new)
      BY <3>1, <3>2
    <3> QED  BY <1>1, <1>2, <2>2, <3>1, <3>3, ListType, InsertedApart
  <2> QED  BY <2>1, <2>2
<1>4. TypeOK'
  <2>1. 1 \in 1 .. Len(l_intervals') + 1 /\ 0 \in 0 .. Len(l_intervals') + 1
    BY <1>3
  <2> QED  BY <1>1, <1>3, <2>1 DEF IInv, TypeOK
<1>5. Between'  BY <1>1, <1>3 DEF Between
<1>6. Scanning' /\ Merged' /\ Merging'
  BY <1>1 DEF Scanning, Merged, Merging
<1> QED  BY <1>4, <1>5, <1>6 DEF IInv

\* Nothing happens.
LEMMA StutterStep ==
    ASSUME IInv, UNCHANGED vars
    PROVE  IInv'
BY DEF IInv, TypeOK, Between, Scanning, Merged, Merging, vars

\* The pointers and what they passed, at every iteration of both loops of
\* wrange_add.
THEOREM Invariant == Spec => []IInv
<1>1. ASSUME IInv, [Next]_vars PROVE IInv'
  <2>1. ASSUME NEW i \in Intervals, Call(i) PROVE IInv'
    BY <1>1, <2>1, CallStep
  <2>2. CASE InRange  BY <1>1, <2>2, InRangeStep
  <2>3. CASE Extend  BY <1>1, <2>3, ExtendStep
  <2>4. CASE Pass  BY <1>1, <2>4, PassStep
  <2>5. CASE Absorb  BY <1>1, <2>5, AbsorbStep
  <2>6. CASE PassInner  BY <1>1, <2>6, PassInnerStep
  <2>7. CASE NextInterval  BY <1>1, <2>7, NextIntervalStep
  <2>8. CASE Finish  BY <1>1, <2>8, FinishStep
  <2>9. CASE UNCHANGED vars  BY <1>1, <2>9, StutterStep
  <2> QED
    BY <1>1, <2>1, <2>2, <2>3, <2>4, <2>5, <2>6, <2>7, <2>8, <2>9 DEF Next
<1> QED  BY <1>1, InitIInv, PTL DEF Spec
-----------------------------------------------------------------------------
(***************************************************************************)
(* Between calls                                                           *)
(***************************************************************************)
\* The variables have their types.
THEOREM TypeCorrect == Spec => []TypeOK
<1>1. IInv => TypeOK  BY DEF IInv
<1> QED  BY <1>1, Invariant, PTL

\* wrange_add leaves a sorted list of intervals that neither overlap nor touch,
\* however many of them the new one met.
THEOREM Sorted == Spec => []SortedApart
<1>1. IInv => SortedApart  BY DEF IInv, Between, Apart, SortedApart
<1> QED  BY <1>1, Invariant, PTL

\* In a list of intervals that are apart, one holds the whole of what all of
\* them cover.
LEMMA HeldByOne ==
    ASSUME NEW s \in Seq(Intervals), Apart(s), NEW i \in Intervals,
           i.start < i.end, Bytes(i) \subseteq Covered(s)
    PROVE  \E k \in DOMAIN s : Holds(s[k], i)
<1>1. i.start \in Bytes(i)  BY IntervalFields DEF Bytes
<1>2. PICK k \in DOMAIN s : i.start \in Bytes(s[k])  BY <1>1, CoveredIn
<1>3. s[k] \in Intervals /\ DOMAIN s = 1 .. Len(s) /\ Len(s) \in Nat  OBVIOUS
<1>4. s[k].start <= i.start /\ i.start < s[k].end
  BY <1>2, <1>3, IntervalFields DEF Bytes
<1>5. ASSUME s[k].end < i.end PROVE FALSE
  <2>1. s[k].end \in Bytes(i)  BY <1>3, <1>4, <1>5, IntervalFields DEF Bytes
  <2>2. PICK m \in DOMAIN s : s[k].end \in Bytes(s[m])  BY <2>1, CoveredIn
  <2>3. s[m] \in Intervals  OBVIOUS
  <2>4. s[m].start <= s[k].end /\ s[k].end < s[m].end
    BY <1>3, <2>2, <2>3, IntervalFields DEF Bytes
  <2>5. ~(k < m)  BY <1>3, <2>3, <2>4, IntervalFields DEF Apart
  <2>6. ~(m < k)
    BY <1>3, <2>3, <2>4, IntervalFields DEF Apart
  <2>7. k # m  BY <1>3, <2>4, IntervalFields
  <2> QED  BY <1>3, <2>5, <2>6, <2>7
<1> QED  BY <1>3, <1>4, <1>5, IntervalFields DEF Holds

\* wrange_contain is right about every range that has a byte: it says yes when
\* the calls added all its bytes, and only then.
THEOREM ContainsAdded == Spec => []ContainExact
<1>1. IInv => ContainExact
  <2> SUFFICES ASSUME IInv, new = NoCall, NEW i \in Intervals, i.start < i.end
               PROVE  Contain(i) <=> Bytes(i) \subseteq added
    BY DEF ContainExact
  <2>1. l_intervals \in Seq(Intervals) /\ Apart(l_intervals)
        /\ Covered(l_intervals) = added
    BY DEF IInv, TypeOK, Between
  <2>2. ASSUME Contain(i) PROVE Bytes(i) \subseteq added
    <3>1. PICK k \in DOMAIN l_intervals : Holds(l_intervals[k], i)
      BY <2>2 DEF Contain
    <3>2. l_intervals[k] \in Intervals  BY <2>1
    <3>3. Bytes(i) \subseteq Bytes(l_intervals[k])
      BY <3>1, <3>2, IntervalFields DEF Holds, Bytes
    <3> QED  BY <2>1, <3>3, CoveredIn
  <2>3. ASSUME Bytes(i) \subseteq added PROVE Contain(i)
    BY <2>1, <2>3, HeldByOne DEF Contain
  <2> QED  BY <2>2, <2>3
<1> QED  BY <1>1, Invariant, PTL

\* The bytes of the first k intervals.
First(s, k) == UNION {Bytes(s[m]) : m \in 1 .. k}

\* Each interval adds its length to those before it: no byte is in two.
LEMMA FirstCount ==
    ASSUME NEW s \in Seq(Intervals), Apart(s), NEW k \in 1 .. Len(s)
    PROVE  Cardinality(First(s, k))
             = Cardinality(First(s, k - 1)) + s[k].end - s[k].start
<1> DEFINE A == First(s, k - 1)
           B == Bytes(s[k])
<1>1. Len(s) \in Nat /\ DOMAIN s = 1 .. Len(s)
      /\ \A m \in 1 .. Len(s) : s[m] \in Intervals
  OBVIOUS
<1>2. A \subseteq 0 .. Size /\ B \subseteq 0 .. Size
  BY <1>1, BytesBelowSize DEF First
<1>3. IsFiniteSet(0 .. Size)  BY FS_Interval
<1>4. IsFiniteSet(A) /\ IsFiniteSet(B)  BY <1>2, <1>3, FS_Subset
<1>5. A \cap B = {}
  <2> SUFFICES ASSUME NEW b \in A, b \in B PROVE FALSE  OBVIOUS
  <2>1. PICK m \in 1 .. k - 1 : b \in Bytes(s[m])  BY DEF First
  <2>2. s[m] \in Intervals /\ s[k] \in Intervals /\ s[m].end < s[k].start
    BY <1>1 DEF Apart
  <2> QED  BY <2>1, <2>2, IntervalFields DEF Bytes
<1>6. First(s, k) = A \cup B
  <2>1. 1 .. k = (1 .. k - 1) \cup {k}  BY <1>1
  <2> QED  BY <2>1 DEF First
<1>7. Cardinality(B) = s[k].end - s[k].start
  <2>1. s[k].start \in Nat /\ s[k].end \in Nat /\ s[k].start <= s[k].end
    BY <1>1, IntervalFields
  <2>2. Cardinality(B)
          = (IF s[k].start > s[k].end - 1 THEN 0
             ELSE (s[k].end - 1) - s[k].start + 1)
    <3>1. s[k].start \in Int /\ s[k].end - 1 \in Int  BY <2>1
    <3> QED  BY <3>1, FS_Interval DEF Bytes
  <2> QED  BY <2>1, <2>2
<1> HIDE DEF A, B
<1>8. Cardinality(A \cup B)
        = Cardinality(A) + Cardinality(B) - Cardinality(A \cap B)
  BY <1>4, FS_Union
<1>9. Cardinality(A \cap B) = 0  BY <1>5, FS_EmptySet
<1>10. Cardinality(A) \in Nat  BY <1>4, FS_CardinalityType
<1>11. s[k].start \in Nat /\ s[k].end \in Nat  BY <1>1, IntervalFields
<1>12. Cardinality(A \cup B) = Cardinality(A) + s[k].end - s[k].start
  BY <1>7, <1>8, <1>9, <1>10, <1>11
<1> QED  BY <1>6, <1>12 DEF A

\* The loop of wrange_length sums to the number of bytes of the list.
LEMMA LengthIsCount ==
    ASSUME l_intervals \in Seq(Intervals), Apart(l_intervals)
    PROVE  Length = Cardinality(Covered(l_intervals))
<1> DEFINE s == l_intervals
           n == Len(s)
           count == [k \in 0 .. n |-> Cardinality(First(s, k))]
           Sum(f) == [k \in 0 .. n |->
                         IF k = 0 THEN 0
                         ELSE f[k - 1] + s[k].end - s[k].start]
           length == CHOOSE f : f = Sum(f)
<1>1. n \in Nat /\ DOMAIN s = 1 .. n  OBVIOUS
<1>2. count[0] = 0
  <2>1. First(s, 0) = {}  BY DEF First
  <2> QED  BY <1>1, <2>1, FS_EmptySet
<1>3. \A k \in 1 .. n : count[k] = count[k - 1] + s[k].end - s[k].start
  BY <1>1, FirstCount
<1>4. count = Sum(count)
  <2>1. \A k \in 0 .. n : count[k] = Sum(count)[k]
    <3> SUFFICES ASSUME NEW k \in 0 .. n PROVE count[k] = Sum(count)[k]
      OBVIOUS
    <3>1. Sum(count)[k] = IF k = 0 THEN 0
                          ELSE count[k - 1] + s[k].end - s[k].start
      <4> HIDE DEF count, n
      <4> QED  OBVIOUS
    <3>2. CASE k = 0  BY <1>2, <3>1, <3>2
    <3>3. CASE k # 0
      <4>1. k \in 1 .. n  BY <1>1, <3>3
      <4> QED  BY <1>3, <3>1, <3>3, <4>1
    <3> QED  BY <3>2, <3>3
  <2> QED  BY <2>1
<1>5. length = Sum(length)
  <2> HIDE DEF count
  <2> QED  BY <1>4
<1> HIDE DEF length
<1>6. length[0] = 0
      /\ \A k \in 1 .. n : length[k] = length[k - 1] + s[k].end - s[k].start
  <2>1. \A k \in 0 .. n :
           length[k] = IF k = 0 THEN 0
                       ELSE length[k - 1] + s[k].end - s[k].start
    BY <1>5
  <2> QED  BY <1>1, <2>1
\* The first position where the two differ is not 0, and cannot be any other.
<1>7. \A k \in 0 .. n : length[k] = count[k]
  <2> DEFINE W == {k \in 0 .. n : length[k] # count[k]}
  <2> SUFFICES ASSUME W # {} PROVE FALSE  OBVIOUS
  <2>1. W \subseteq Nat  BY <1>1
  <2>2. PICK m \in W : \A k \in W : m <= k
    <3> HIDE DEF W
    <3> QED  BY <2>1, NatMin
  <2> HIDE DEF count, n
  <2>3. m # 0 /\ m \in 1 .. n /\ m - 1 \in 0 .. n
    BY <1>1, <1>2, <1>6
  <2>4. length[m - 1] = count[m - 1]  BY <1>1, <2>2, <2>3
  <2> QED  BY <1>3, <1>6, <2>3, <2>4
<1>8. Length = length[n]  BY DEF Length, length
<1>9. First(s, n) = Covered(s)  BY <1>1 DEF First, Covered
<1>10. count[n] = Cardinality(First(s, n))  BY <1>1
<1> QED  BY <1>1, <1>7, <1>8, <1>9, <1>10

\* wrange_length is the number of bytes the calls added, in whatever order and
\* however they overlapped.
THEOREM LengthCounts == Spec => []LengthExact
<1>1. IInv => LengthExact
  BY LengthIsCount DEF IInv, TypeOK, Between, LengthExact
<1> QED  BY <1>1, Invariant, PTL
=============================================================================
