------------------------ MODULE TrackerAnswerProofs ------------------------
(***************************************************************************)
(* Proofs about the bencode parser and what becomes of an answer.          *)
(***************************************************************************)
EXTENDS TrackerAnswer, FiniteSetTheorems, SequenceTheorems,
        WellFoundedInduction, TLAPS

-----------------------------------------------------------------------------
(***************************************************************************)
(* Recursion                                                               *)
(***************************************************************************)
\* A set of numbers that has a member has a least one.
LEMMA NatMin ==
    ASSUME NEW T, T \subseteq Nat, T # {}
    PROVE  \E m \in T : \A n \in T : m <= n
<1>1. PICK m \in T : \A n \in T : <<n, m>> \notin OpToRel(<, Nat)
  BY NatLessThanWellFounded, WFMin
<1>2. \A n \in T : ~(n < m)  BY <1>1 DEF OpToRel
<1> QED  BY <1>2

\* The recursive functions of the model: where each starts and how it goes on.
\* with holds what it refers to besides itself.
Start(of, with) ==
    CASE of = "number"  -> 0
      [] of = "flatten" -> <<>>
      [] of = "decimal" -> [n \in Nat |-> <<Digit[(n % 10) + 1]>>]
      [] of = "parsing" -> [in \in Seq(Byte) |-> [value |-> NULL, rest |-> in]]
      [] of = "list"    -> Turn(<<>>, Rest(with[2], 1), "loop")
      [] of = "dict"    -> Turn(<<>>, Rest(with[2], 1), "loop")

Step(of, with, n, was) ==
    CASE of = "number"  -> 10 * was + DigitValue(with[n])
      [] of = "flatten" -> IF n = 1 THEN with[n] ELSE was \o with[n]
      [] of = "decimal" -> [k \in Nat |->
                               IF k < 10 THEN <<Digit[(k % 10) + 1]>>
                               ELSE Append(was[k \div 10],
                                           Digit[(k % 10) + 1])]
      [] of = "parsing" -> [in \in Seq(Byte) |-> ParseWith(was, in)]
      [] of = "list"    -> ListTurn(with[1], was)
      [] of = "dict"    -> DictTurn(with[1], was)

\* g is the recursive function up to n.
UpTo(g, of, with, n) ==
    /\ g = [k \in 0 .. n |-> g[k]]
    /\ g[0] = Start(of, with)
    /\ \A k \in 1 .. n : g[k] = Step(of, with, k, g[k - 1])

\* There is one such g,
LEMMA UpToUnique ==
    ASSUME NEW of, NEW with, NEW g, NEW h, NEW n \in Nat, NEW m \in Nat,
           n <= m, UpTo(g, of, with, n), UpTo(h, of, with, m)
    PROVE  \A k \in 0 .. n : g[k] = h[k]
<1> DEFINE W == {k \in 0 .. n : g[k] # h[k]}
<1> SUFFICES ASSUME W # {} PROVE FALSE  OBVIOUS
<1>1. W \subseteq Nat  OBVIOUS
<1>2. PICK k \in W : \A i \in W : k <= i
  <2> HIDE DEF W
  <2> QED  BY <1>1, NatMin
<1>3. k # 0  BY DEF UpTo
<1>4. k \in 1 .. n /\ k \in 1 .. m /\ k - 1 \in 0 .. n  BY <1>3
<1>5. g[k - 1] = h[k - 1]  BY <1>2, <1>4
<1>6. g[k] = Step(of, with, k, g[k - 1])  BY <1>4 DEF UpTo
<1>7. h[k] = Step(of, with, k, h[k - 1])  BY <1>4 DEF UpTo
<1> QED  BY <1>5, <1>6, <1>7

\* and there is one for every n.
LEMMA UpToExists ==
    ASSUME NEW of, NEW with, NEW n \in Nat
    PROVE  \E g : UpTo(g, of, with, n)
<1> DEFINE W == {k \in Nat : ~\E g : UpTo(g, of, with, k)}
<1> SUFFICES ASSUME W # {} PROVE FALSE  OBVIOUS
<1>1. W \subseteq Nat  OBVIOUS
<1>2. PICK k \in W : \A i \in W : k <= i
  <2> HIDE DEF W
  <2> QED  BY <1>1, NatMin
<1>3. k # 0
  <2> DEFINE g == [i \in 0 .. 0 |-> Start(of, with)]
  <2>1. UpTo(g, of, with, 0)  BY DEF UpTo
  <2> QED  BY <2>1
<1>4. k \in Nat /\ k - 1 \in Nat  BY <1>3
<1>5. PICK g : UpTo(g, of, with, k - 1)  BY <1>2, <1>4
<1> DEFINE h == [i \in 0 .. k |-> IF i < k THEN g[i]
                                  ELSE Step(of, with, k, g[k - 1])]
<1>6. \A i \in 0 .. k - 1 : h[i] = g[i]  BY <1>4
<1>7. h[k] = Step(of, with, k, g[k - 1])  BY <1>4
<1>8. h = [i \in 0 .. k |-> h[i]]  OBVIOUS
<1> HIDE DEF h
<1>9. h[0] = Start(of, with)  BY <1>4, <1>5, <1>6 DEF UpTo
<1>10. ASSUME NEW i \in 1 .. k PROVE h[i] = Step(of, with, i, h[i - 1])
  <2>1. i - 1 \in 0 .. k - 1 /\ h[i - 1] = g[i - 1]  BY <1>4, <1>6
  <2>2. CASE i = k  BY <1>7, <2>1, <2>2
  <2>3. CASE i # k
    <3>1. i \in 1 .. k - 1 /\ i \in 0 .. k - 1  BY <1>4, <2>3
    <3>2. g[i] = Step(of, with, i, g[i - 1])  BY <1>5, <3>1 DEF UpTo
    <3> QED  BY <1>6, <2>1, <3>1, <3>2
  <2> QED  BY <2>2, <2>3
<1>11. UpTo(h, of, with, k)  BY <1>8, <1>9, <1>10 DEF UpTo
<1> QED  BY <1>2, <1>11

\* f is the recursive function.
Recurs(f, of, with) ==
    /\ f = [n \in Nat |-> f[n]]
    /\ f[0] = Start(of, with)
    /\ \A n \in Nat \ {0} : f[n] = Step(of, with, n, f[n - 1])

\* What a recursive definition of the model says, some function does.
LEMMA Recursion ==
    ASSUME NEW of, NEW with
    PROVE  \E f : Recurs(f, of, with)
<1> DEFINE G(n) == CHOOSE g : UpTo(g, of, with, n)
           f == [n \in Nat |-> G(n)[n]]
<1>1. \A n \in Nat : UpTo(G(n), of, with, n)  BY UpToExists
<1> HIDE DEF G
<1>2. f[0] = Start(of, with)  BY <1>1 DEF UpTo
<1>3. ASSUME NEW n \in Nat \ {0} PROVE f[n] = Step(of, with, n, f[n - 1])
  <2>1. n - 1 \in Nat /\ n - 1 <= n /\ n - 1 \in 0 .. n - 1 /\ n \in 1 .. n
    OBVIOUS
  <2>2. G(n)[n] = Step(of, with, n, G(n)[n - 1])  BY <1>1, <2>1 DEF UpTo
  <2>3. G(n - 1)[n - 1] = G(n)[n - 1]
    <3>1. UpTo(G(n - 1), of, with, n - 1) /\ UpTo(G(n), of, with, n)
      BY <1>1, <2>1
    <3> QED  BY <2>1, <3>1, UpToUnique
  <2> QED  BY <2>1, <2>2, <2>3
<1>4. f = [n \in Nat |-> f[n]]  OBVIOUS
<1> HIDE DEF f
<1>5. Recurs(f, of, with)  BY <1>2, <1>3, <1>4 DEF Recurs
<1> QED  BY <1>5

-----------------------------------------------------------------------------
(***************************************************************************)
(* Buffers                                                                 *)
(***************************************************************************)
LEMMA TakenOff ==
    ASSUME NEW S, NEW a \in Seq(S), NEW b \in Seq(S)
    PROVE  /\ Rest(a \o b, Len(a)) = b
           /\ SubSeq(a \o b, 1, Len(a)) = a
<1> DEFINE c == a \o b
<1>1. /\ c \in Seq(S) /\ Len(c) = Len(a) + Len(b)
      /\ Len(a) \in Nat /\ Len(b) \in Nat
      /\ \A k \in 1 .. Len(c) : c[k] = IF k <= Len(a) THEN a[k]
                                     ELSE b[k - Len(a)]
  BY ConcatProperties, LenProperties
<1> HIDE DEF c
<1>2. /\ SubSeq(c, Len(a) + 1, Len(c)) \in Seq(S)
      /\ Len(SubSeq(c, Len(a) + 1, Len(c))) = Len(b)
      /\ \A k \in 1 .. Len(b) :
            SubSeq(c, Len(a) + 1, Len(c))[k] = c[Len(a) + k]
  BY <1>1
<1>3. ASSUME NEW k \in 1 .. Len(b) PROVE c[Len(a) + k] = b[k]
  <2>1. /\ Len(a) + k \in 1 .. Len(c) /\ ~(Len(a) + k <= Len(a))
        /\ (Len(a) + k) - Len(a) = k
    BY <1>1
  <2> QED  BY <1>1, <2>1
<1>4. SubSeq(c, Len(a) + 1, Len(c)) = b
  <2>1. \A k \in 1 .. Len(b) : SubSeq(c, Len(a) + 1, Len(c))[k] = b[k]
    BY <1>2, <1>3
  <2> QED  BY <1>2, <2>1, SeqEqual
<1>5. /\ SubSeq(c, 1, Len(a)) \in Seq(S)
      /\ Len(SubSeq(c, 1, Len(a))) = Len(a)
      /\ \A k \in 1 .. Len(a) : SubSeq(c, 1, Len(a))[k] = c[k]
  BY <1>1
<1>6. SubSeq(c, 1, Len(a)) = a
  <2>1. \A k \in 1 .. Len(a) : SubSeq(c, 1, Len(a))[k] = a[k]
    BY <1>1, <1>5
  <2> QED  BY <1>5, <2>1, SeqEqual
<1> QED  BY <1>4, <1>6 DEF Rest, c

\* A sequence of one.
LEMMA One ==
    ASSUME NEW S, NEW c \in S
    PROVE  <<c>> \in Seq(S) /\ Len(<<c>>) = 1 /\ <<c>>[1] = c
OBVIOUS

\* evbuffer_search finds the first c.
LEMMA Found ==
    ASSUME NEW S, NEW a \in Seq(S), NEW c \in S, NEW b \in Seq(S),
           \A k \in 1 .. Len(a) : a[k] # c
    PROVE  Search(a \o (<<c>> \o b), c) = Len(a) + 1
<1> DEFINE in == a \o (<<c>> \o b)
           T  == {k \in DOMAIN in : in[k] = c}
<1>1. /\ <<c>> \o b \in Seq(S) /\ Len(<<c>> \o b) = 1 + Len(b)
      /\ (<<c>> \o b)[1] = c /\ Len(a) \in Nat /\ Len(b) \in Nat
  BY One, ConcatProperties, LenProperties
<1>2. /\ in \in Seq(S) /\ Len(in) = Len(a) + 1 + Len(b)
      /\ DOMAIN in = 1 .. Len(in)
      /\ in[Len(a) + 1] = c
      /\ \A k \in 1 .. Len(a) : in[k] = a[k]
  <2>1. /\ in \in Seq(S) /\ Len(in) = Len(a) + Len(<<c>> \o b)
        /\ \A k \in 1 .. Len(a) + Len(<<c>> \o b) :
              in[k] = IF k <= Len(a) THEN a[k] ELSE (<<c>> \o b)[k - Len(a)]
    BY <1>1, ConcatProperties
  <2>2. in[Len(a) + 1] = (<<c>> \o b)[1]
    <3>1. (Len(a) + 1) - Len(a) = 1 /\ Len(a) + 1 \in 1 .. Len(a) + Len(<<c>> \o b)
          /\ ~(Len(a) + 1 <= Len(a))
      BY <1>1
    <3> HIDE DEF in
    <3> QED  BY <2>1, <3>1
  <2>3. DOMAIN in = 1 .. Len(in)  BY <2>1, LenProperties
  <2>4. \A k \in 1 .. Len(a) : in[k] = a[k]
    <3> HIDE DEF in
    <3> QED  BY <1>1, <2>1
  <2> QED  BY <1>1, <2>1, <2>2, <2>3, <2>4
<1> HIDE DEF in
<1>3. Len(a) + 1 \in T  BY <1>1, <1>2
<1>4. ASSUME NEW k \in T PROVE Len(a) + 1 <= k /\ k \in Int
  <2>1. k \in 1 .. Len(in) /\ in[k] = c  BY <1>2
  <2>2. ~(k \in 1 .. Len(a))  BY ONLY <1>2, <2>1, \A i \in 1 .. Len(a) : a[i] # c
  <2> QED  BY <1>1, <1>2, <2>1, <2>2
<1>5. \A k \in T : k \in Int  BY <1>4
<1> HIDE DEF T
<1>6. Min(T) = Len(a) + 1
  <2>1. \A m \in T : (\A k \in T : m <= k) => m = Len(a) + 1
    BY <1>1, <1>3, <1>4, <1>5
  <2> QED  BY <1>3, <1>4, <2>1 DEF Min
<1> QED  BY <1>6 DEF Search, T, in

-----------------------------------------------------------------------------
(***************************************************************************)
(* Numbers                                                                 *)
(***************************************************************************)
DigitSet == {Digit[n + 1] : n \in 0 .. 9}

\* A digit is read as what it stands for, and is no mark of bencode.
LEMMA DigitIs ==
    ASSUME NEW n \in 0 .. 9
    PROVE  /\ DigitValue(Digit[n + 1]) = n
           /\ Digit[n + 1] \in Byte /\ Digit[n + 1] \in DigitSet
           /\ IsDigit(Digit[n + 1])
           /\ Digit[n + 1] \notin {":", "-", "i", "l", "d", "e"}
<1>1. \A m \in 0 .. 9 : Digit[n + 1] = Digit[m + 1] => m = n
  BY DEF Digit
<1>2. DigitValue(Digit[n + 1]) = n  BY <1>1 DEF DigitValue
<1>3. Digit[n + 1] \notin {":", "-", "i", "l", "d", "e"}  BY DEF Digit
<1> QED  BY <1>2, <1>3, ByteAssumption DEF DigitSet, IsDigit

\* Number as a loop over the digits.
LEMMA NumberLoop ==
    ASSUME NEW s
    PROVE  \E f : /\ Number(s) = f[Len(s)]
                  /\ f[0] = 0
                  /\ \A k \in Nat \ {0} :
                        f[k] = 10 * f[k - 1] + DigitValue(s[k])
<1> DEFINE Body(f) == [k \in Nat |-> IF k = 0 THEN 0
                                     ELSE 10 * f[k - 1] + DigitValue(s[k])]
           number == CHOOSE f : f = Body(f)
<1>1. PICK f : Recurs(f, "number", s)
  BY Recursion
<1>2. f[0] = 0  BY <1>1 DEF Recurs, Start
<1>3. \A n \in Nat \ {0} : f[n] = 10 * f[n - 1] + DigitValue(s[n])
  BY <1>1 DEF Recurs, Step
<1>4. f = Body(f)
  <2>1. \A n \in Nat : f[n] = Body(f)[n]  BY <1>2, <1>3
  <2>2. Body(f) = [n \in Nat |-> Body(f)[n]]  OBVIOUS
  <2> HIDE DEF Body
  <2> QED  BY <1>1, <2>1, <2>2 DEF Recurs
<1>5. number = Body(number)
  <2> HIDE DEF Body
  <2> QED  BY <1>4
<1>6. Number(s) = number[Len(s)]  BY DEF Number
<1> HIDE DEF number
<1>7. /\ number[0] = 0
      /\ \A k \in Nat \ {0} :
            number[k] = 10 * number[k - 1] + DigitValue(s[k])
  <2>1. \A k \in Nat : number[k] = Body(number)[k]  BY <1>5
  <2> QED  BY <2>1
<1> QED  BY <1>6, <1>7

\* One more digit.
LEMMA NumberAppend ==
    ASSUME NEW s \in Seq(DigitSet), NEW d \in 0 .. 9, Number(s) \in Nat
    PROVE  Number(Append(s, Digit[d + 1])) = 10 * Number(s) + d
<1> DEFINE t == Append(s, Digit[d + 1])
           n == Len(s)
<1>1. Digit[d + 1] \in DigitSet /\ DigitValue(Digit[d + 1]) = d  BY DigitIs
<1>2. /\ Len(t) = n + 1 /\ n \in Nat
      /\ \A k \in 1 .. n : t[k] = s[k]
      /\ t[n + 1] = Digit[d + 1]
  BY <1>1, AppendProperties, LenProperties
<1>3. PICK f : /\ Number(s) = f[n]
               /\ f[0] = 0
               /\ \A k \in Nat \ {0} : f[k] = 10 * f[k - 1] + DigitValue(s[k])
  BY NumberLoop
<1>4. PICK g : /\ Number(t) = g[Len(t)]
               /\ g[0] = 0
               /\ \A k \in Nat \ {0} : g[k] = 10 * g[k - 1] + DigitValue(t[k])
  BY NumberLoop
<1> HIDE DEF t, n
<1>5. \A k \in 0 .. n : f[k] = g[k]
  <2> DEFINE W == {k \in 0 .. n : f[k] # g[k]}
  <2> SUFFICES ASSUME W # {} PROVE FALSE  OBVIOUS
  <2>1. W \subseteq Nat  BY <1>2
  <2>2. PICK k \in W : \A i \in W : k <= i
    <3> HIDE DEF W
    <3> QED  BY <2>1, NatMin
  <2>3. k \in 1 .. n /\ k - 1 \in 0 .. n /\ k \in Nat \ {0}
    BY <1>2, <1>3, <1>4, <2>2
  <2>4. f[k - 1] = g[k - 1]  BY <1>2, <2>2, <2>3
  <2> QED  BY <1>2, <1>3, <1>4, <2>2, <2>3, <2>4
<1>6. g[n + 1] = 10 * g[n] + DigitValue(t[n + 1])
  <2>1. n + 1 \in Nat \ {0} /\ (n + 1) - 1 = n  BY <1>2
  <2> QED  BY <1>4, <2>1
<1> QED  BY <1>1, <1>2, <1>3, <1>4, <1>5, <1>6 DEF t

\* No digits are 0.
LEMMA NumberEmpty == Number(<<>>) = 0
<1>1. PICK f : Number(<<>>) = f[Len(<<>>)] /\ f[0] = 0  BY NumberLoop
<1> QED  BY <1>1, EmptySeq

\* What the definition of Decimal says.
LEMMA DecimalDef ==
    ASSUME NEW k \in Nat, NEW n \in Nat
    PROVE  Decimal[k][n] = IF k = 0 \/ n < 10 THEN <<Digit[(n % 10) + 1]>>
                           ELSE Append(Decimal[k - 1][n \div 10],
                                       Digit[(n % 10) + 1])
<1> DEFINE Line(f, i) ==
             [j \in Nat |->
                IF i = 0 \/ j < 10 THEN <<Digit[(j % 10) + 1]>>
                ELSE Append(f[i - 1][j \div 10], Digit[(j % 10) + 1])]
           Body(f) == [i \in Nat |-> Line(f, i)]
<1>1. PICK f : Recurs(f, "decimal", <<>>)
  BY Recursion
<1>2. f[0] = Line(f, 0)  BY <1>1 DEF Recurs, Start
<1>3. ASSUME NEW i \in Nat \ {0} PROVE f[i] = Line(f, i)
  <2>1. f[i] = Step("decimal", <<>>, i, f[i - 1])  BY <1>1 DEF Recurs
  <2>2. i # 0  OBVIOUS
  <2> QED  BY <2>1, <2>2 DEF Step
<1>4. f = Body(f)
  <2> HIDE DEF Line
  <2>1. \A i \in Nat : f[i] = Body(f)[i]  BY <1>2, <1>3
  <2>2. Body(f) = [i \in Nat |-> Body(f)[i]]  OBVIOUS
  <2> HIDE DEF Body
  <2> QED  BY <1>1, <2>1, <2>2 DEF Recurs
<1>5. Decimal = Body(Decimal)
  <2>1. Decimal = CHOOSE g : g = Body(g)  BY DEF Decimal
  <2> HIDE DEF Body
  <2> QED  BY <1>4, <2>1
<1>6. Decimal[k] = Line(Decimal, k)
  <2> HIDE DEF Line
  <2>1. Body(Decimal)[k] = Line(Decimal, k)  OBVIOUS
  <2> HIDE DEF Body
  <2> QED  BY <1>5, <2>1
<1>7. Line(Decimal, k)[n]
        = IF k = 0 \/ n < 10 THEN <<Digit[(n % 10) + 1]>>
          ELSE Append(Decimal[k - 1][n \div 10], Digit[(n % 10) + 1])
  OBVIOUS
<1> HIDE DEF Line
<1> QED  BY <1>6, <1>7

\* The last digit of a digit.
LEMMA Below == \A m \in 0 .. 9 : m % 10 = m
OBVIOUS

\* A number is written as the digits that are read as it.
LEMMA WrittenNumber ==
    ASSUME NEW n \in Nat
    PROVE  /\ DigitsOf(n) \in Seq(DigitSet) /\ DigitsOf(n) # <<>>
           /\ Number(DigitsOf(n)) = n
<1> DEFINE P(k) == \A m \in 0 .. k : /\ Decimal[k][m] \in Seq(DigitSet)
                                     /\ Decimal[k][m] # <<>>
                                     /\ Number(Decimal[k][m]) = m
           W == {k \in Nat : ~P(k)}
<1>1. ASSUME NEW m \in 0 .. 9
      PROVE  /\ <<Digit[m + 1]>> \in Seq(DigitSet) /\ <<Digit[m + 1]>> # <<>>
             /\ Number(<<Digit[m + 1]>>) = m
  <2>1. <<>> \in Seq(DigitSet) /\ Append(<<>>, Digit[m + 1]) = <<Digit[m + 1]>>
    OBVIOUS
  <2>2. Number(<<>>) \in Nat  BY NumberEmpty
  <2>3. Number(Append(<<>>, Digit[m + 1])) = 10 * Number(<<>>) + m
    BY <2>1, <2>2, NumberAppend
  <2>4. Number(<<Digit[m + 1]>>) = m  BY <2>1, <2>3, NumberEmpty
  <2> QED  BY <2>4, DigitIs
<1>2. W = {}
  <2> SUFFICES ASSUME W # {} PROVE FALSE  OBVIOUS
  <2>1. W \subseteq Nat  OBVIOUS
  <2>2. PICK k \in W : \A i \in W : k <= i
    <3> HIDE DEF W
    <3> QED  BY <2>1, NatMin
  <2>3. k \in Nat /\ \A i \in Nat : i < k => P(i)
    <3> HIDE DEF P
    <3> QED  BY <2>2
  <2>4. ASSUME NEW m \in 0 .. k
        PROVE  /\ Decimal[k][m] \in Seq(DigitSet) /\ Decimal[k][m] # <<>>
               /\ Number(Decimal[k][m]) = m
    <3>1. CASE m < 10
      <4>1. m \in 0 .. 9 /\ m \in Nat  BY <2>3, <3>1
      <4> HIDE DEF W
      <4>3. m % 10 = m  BY <4>1, Below
      <4>2. Decimal[k][m] = <<Digit[m + 1]>>
        BY <2>3, <3>1, <4>1, <4>3, DecimalDef
      <4> QED  BY <1>1, <4>1, <4>2
    <3>2. CASE ~(m < 10)
      <4> DEFINE q == m \div 10
                 r == m % 10
      <4>1. /\ m \in Nat /\ q \in Nat /\ r \in 0 .. 9 /\ m = 10 * q + r
            /\ k # 0 /\ k - 1 \in Nat
        BY <2>3, <3>2
      <4>2. Decimal[k][m] = Append(Decimal[k - 1][q], Digit[r + 1])
        BY <2>3, <3>2, <4>1, DecimalDef
      <4> HIDE DEF q, r
      <4>3. q \in 0 .. k - 1  BY <2>3, <3>2, <4>1
      <4>4. P(k - 1)  BY <2>3, <4>1
      <4>5. /\ Decimal[k - 1][q] \in Seq(DigitSet)
            /\ Number(Decimal[k - 1][q]) = q
        BY <4>3, <4>4
      <4>6. Digit[r + 1] \in DigitSet  BY <4>1, DigitIs
      <4>7. /\ Decimal[k][m] \in Seq(DigitSet) /\ Decimal[k][m] # <<>>
        BY <4>2, <4>5, <4>6, AppendProperties
      <4>8. Number(Decimal[k][m]) = 10 * q + r
        BY <4>1, <4>2, <4>5, NumberAppend
      <4> QED  BY <4>1, <4>7, <4>8
    <3> QED  BY <3>1, <3>2
  <2>5. P(k)  BY <2>4
  <2> HIDE DEF P
  <2> QED  BY <2>2, <2>5
<1>3. P(n)
  <2> HIDE DEF P
  <2> QED  BY <1>2
<1>4. n \in 0 .. n  OBVIOUS
<1> QED  BY <1>3, <1>4 DEF DigitsOf

-----------------------------------------------------------------------------
(***************************************************************************)
(* Strings and integers                                                    *)
(***************************************************************************)
\* What starts a value.
Starts == DigitSet \cup {"i", "l", "d"}

\* b is v in bencode, whatever follows: a buffer that starts with it, in which
\* read is the parser of values, gives v and what follows.
Reads(b, v) ==
    /\ b \in Seq(Byte) /\ Len(b) >= 2 /\ b[1] \in Starts
    /\ \A n \in Nat, t \in Seq(Byte) :
          n >= Len(b) => Parsing[n][b \o t] = [value |-> v, rest |-> t]

\* The digits and the marks are bytes.
LEMMA ByteLetters ==
    /\ DigitSet \subseteq Byte
    /\ ":" \in Byte /\ "-" \in Byte /\ "i" \in Byte
    /\ "l" \in Byte /\ "d" \in Byte /\ "e" \in Byte
BY ByteAssumption DEF DigitSet

\* Two texts, one after the other.
LEMMA Joined ==
    ASSUME NEW a \in Seq(Byte), NEW b \in Seq(Byte)
    PROVE  /\ a \o b \in Seq(Byte) /\ Len(a) \in Nat /\ Len(b) \in Nat
           /\ Len(a \o b) = Len(a) + Len(b)
           /\ Len(a) >= 1 => (a \o b)[1] = a[1]
<1>1. /\ a \o b \in Seq(Byte) /\ Len(a) \in Nat /\ Len(b) \in Nat
      /\ Len(a \o b) = Len(a) + Len(b)
      /\ \A i \in 1 .. Len(a) + Len(b) :
            (a \o b)[i] = IF i <= Len(a) THEN a[i] ELSE b[i - Len(a)]
  BY ConcatProperties, LenProperties
<1>2. Len(a) >= 1 => 1 \in 1 .. Len(a) + Len(b)  BY <1>1
<1> QED  BY <1>1, <1>2

\* Three texts, one after the other.
LEMMA Grouped ==
    ASSUME NEW a \in Seq(Byte), NEW b \in Seq(Byte), NEW c \in Seq(Byte)
    PROVE  (a \o b) \o c = a \o (b \o c)
BY ConcatAssociative

\* What follows the same text is the same.
LEMMA Cancelled ==
    ASSUME NEW a \in Seq(Byte), NEW b \in Seq(Byte), NEW c \in Seq(Byte),
           a \o b = a \o c
    PROVE  b = c
<1>1. Rest(a \o b, Len(a)) = b  BY TakenOff
<1>2. Rest(a \o c, Len(a)) = c  BY TakenOff
<1> QED  BY <1>1, <1>2

\* No digit is a mark of bencode.
LEMMA DigitApart ==
    ASSUME NEW c \in DigitSet
    PROVE  IsDigit(c) /\ c \notin {":", "-", "i", "l", "d", "e"}
BY DigitIs DEF DigitSet

\* A number is written in digits, one at least.
LEMMA DigitsAreBytes ==
    ASSUME NEW n \in Nat
    PROVE  /\ DigitsOf(n) \in Seq(Byte) /\ Len(DigitsOf(n)) \in Nat \ {0}
           /\ \A k \in 1 .. Len(DigitsOf(n)) : DigitsOf(n)[k] \in DigitSet
           /\ Head(DigitsOf(n)) = DigitsOf(n)[1]
<1> DEFINE D == DigitsOf(n)
<1>1. D \in Seq(DigitSet) /\ D # <<>>  BY WrittenNumber
<1> HIDE DEF D
<1>2. D \in Seq(Byte)  BY <1>1, ByteLetters, SeqMonotonic
<1>3. Len(D) \in Nat \ {0}  BY <1>1, EmptySeq
<1>4. \A k \in 1 .. Len(D) : D[k] \in DigitSet  BY <1>1, ElementOfSeq
<1>5. Head(D) = D[1]  BY <1>1
<1> QED  BY <1>2, <1>3, <1>4, <1>5 DEF D

\* atoi reads a number as it was written,
LEMMA AtoiDigits ==
    ASSUME NEW n \in Nat
    PROVE  Atoi(DigitsOf(n)) = n
<1>1. Head(DigitsOf(n)) # "-"
  <2>1. 1 \in 1 .. Len(DigitsOf(n))  BY DigitsAreBytes
  <2> QED  BY <2>1, DigitsAreBytes, DigitApart
<1> QED  BY <1>1, WrittenNumber DEF Atoi

\* with a sign too.
LEMMA AtoiMinus ==
    ASSUME NEW n \in Nat
    PROVE  Atoi(<<"-">> \o DigitsOf(n)) = -n
<1> DEFINE D == DigitsOf(n)
           m == <<"-">> \o D
<1>1. D \in Seq(Byte) /\ <<"-">> \in Seq(Byte) /\ Len(<<"-">>) = 1
      /\ <<"-">>[1] = "-"
  BY DigitsAreBytes, ByteLetters, One
<1> HIDE DEF D
<1>2. m \in Seq(Byte) /\ Len(m) = 1 + Len(D) /\ Len(D) \in Nat
      /\ m[1] = "-"
  BY <1>1, ConcatProperties, LenProperties
<1>3. Rest(m, 1) = D  BY <1>1, TakenOff
<1> HIDE DEF m
<1>4. m # <<>>  BY <1>2, EmptySeq
<1>5. Head(m) = "-"  BY <1>2
<1>6. Tail(m) = D  BY <1>2, <1>3, <1>4, TailIsSubSeq DEF Rest
<1>7. Number(D) = n  BY WrittenNumber DEF D
<1> QED  BY <1>4, <1>5, <1>6, <1>7 DEF Atoi, m, D

\* bvalue_parse_string takes off a string as it was written, of any bytes.
LEMMA ReadString ==
    ASSUME NEW s \in Seq(Byte), NEW t \in Seq(Byte)
    PROVE  /\ EncodeString(s) \in Seq(Byte) /\ Len(EncodeString(s)) >= 2
           /\ EncodeString(s)[1] \in DigitSet
           /\ ParseString(EncodeString(s) \o t)
                = [value |-> <<"string", s>>, rest |-> t]
<1> DEFINE D  == DigitsOf(Len(s))
           C  == <<":">>
           in == EncodeString(s) \o t
<1>1. Len(s) \in Nat  BY LenProperties
<1>2. /\ D \in Seq(Byte) /\ Len(D) \in Nat \ {0} /\ D[1] \in DigitSet
      /\ \A k \in 1 .. Len(D) : D[k] # ":"
      /\ Atoi(D) = Len(s)
  <2>1. 1 \in 1 .. Len(D)  BY <1>1, DigitsAreBytes
  <2>2. \A k \in 1 .. Len(D) : D[k] \in DigitSet  BY <1>1, DigitsAreBytes
  <2>3. Atoi(D) = Len(s)  BY <1>1, AtoiDigits
  <2>4. D \in Seq(Byte) /\ Len(D) \in Nat \ {0}  BY <1>1, DigitsAreBytes
  <2> HIDE DEF D
  <2> QED  BY <2>1, <2>2, <2>3, <2>4, DigitApart
<1>3. EncodeString(s) = (D \o C) \o s  BY DEF EncodeString
<1> HIDE DEF D
<1>4. C \in Seq(Byte) /\ Len(C) = 1 /\ ":" \in Byte  BY ByteLetters, One
<1>5. /\ D \o C \in Seq(Byte) /\ Len(D \o C) = Len(D) + 1
      /\ (D \o C)[1] = D[1]
  <2> HIDE DEF C
  <2>1. D \o C \in Seq(Byte)  BY <1>2, <1>4, Joined
  <2>0. D \in Seq(Byte) /\ C \in Seq(Byte)  BY <1>2, <1>4
  <2>4. Len(D \o C) = Len(D) + Len(C)  BY <2>0, Joined
  <2>2. Len(D \o C) = Len(D) + 1  BY <1>4, <2>4
  <2>3. (D \o C)[1] = D[1]  BY <1>2, <1>4, Joined
  <2> QED  BY <2>1, <2>2, <2>3
<1>6. s \o t \in Seq(Byte) /\ Len(s \o t) = Len(s) + Len(t) /\ Len(t) \in Nat
  BY Joined
<1>7. in = (D \o C) \o (s \o t)
  <2> DEFINE DC == D \o C
  <2>1. DC \in Seq(Byte)  BY <1>5
  <2>2. in = (DC \o s) \o t  BY <1>3
  <2> HIDE DEF DC, in
  <2>3. (DC \o s) \o t = DC \o (s \o t)  BY <2>1, Grouped, Zenon
  <2> QED  BY ONLY <2>2, <2>3 DEF DC
<1>8. in = D \o (C \o (s \o t))
  <2> DEFINE u == s \o t
  <2>1. D \in Seq(Byte) /\ C \in Seq(Byte) /\ u \in Seq(Byte)
    BY <1>2, <1>4, <1>6
  <2>2. in = (D \o C) \o u  BY <1>7
  <2> HIDE DEF C, in, u
  <2>3. (D \o C) \o u = D \o (C \o u)  BY <2>1, Grouped, Zenon
  <2> QED  BY ONLY <2>2, <2>3 DEF u
<1>9. /\ EncodeString(s) \in Seq(Byte) /\ Len(EncodeString(s)) >= 2
      /\ EncodeString(s)[1] \in DigitSet
  <2>1. /\ (D \o C) \o s \in Seq(Byte)
        /\ Len((D \o C) \o s) = Len(D) + 1 + Len(s)
        /\ ((D \o C) \o s)[1] = (D \o C)[1]
    <3> DEFINE DC == D \o C
    <3>1. DC \in Seq(Byte) /\ Len(DC) = Len(D) + 1 /\ Len(DC) >= 1
      BY <1>2, <1>5
    <3> HIDE DEF DC
    <3>2. DC \o s \in Seq(Byte)  BY <3>1, Joined
    <3>5. DC \in Seq(Byte)  BY <3>1
    <3>6. Len(DC \o s) = Len(DC) + Len(s)  BY <3>5, Joined
    <3>3. Len(DC \o s) = Len(D) + 1 + Len(s)  BY <3>1, <3>6
    <3>4. (DC \o s)[1] = DC[1]  BY <3>1, Joined
    <3> QED  BY <3>2, <3>3, <3>4 DEF DC
  <2> HIDE DEF C
  <2>2. EncodeString(s) \in Seq(Byte)  BY ONLY <1>3, <2>1
  <2>3. Len(EncodeString(s)) = Len(D) + 1 + Len(s)  BY ONLY <1>3, <2>1
  <2>4. Len(EncodeString(s)) >= 2
    <3>1. \A a \in Nat \ {0}, b \in Nat : a + 1 + b >= 2  OBVIOUS
    <3>2. Len(D) \in Nat \ {0}  BY <1>2
    <3> QED  BY ONLY <1>1, <2>3, <3>1, <3>2
  <2>5. EncodeString(s)[1] = D[1]  BY ONLY <1>3, <1>5, <2>1
  <2>6. EncodeString(s)[1] \in DigitSet  BY ONLY <1>2, <2>5
  <2> QED  BY ONLY <2>2, <2>4, <2>6
<1>10. Search(in, ":") = Len(D) + 1
  <2>1. Search(D \o (C \o (s \o t)), ":") = Len(D) + 1
    BY <1>2, <1>4, <1>6, Found
  <2> HIDE DEF in, C
  <2> QED  BY <1>8, <2>1
<1>11. SubSeq(in, 1, Len(D)) = D
  <2>1. C \o (s \o t) \in Seq(Byte)
    <3> HIDE DEF C
    <3> QED  BY <1>4, <1>6, Joined
  <2> HIDE DEF C, in
  <2> QED  BY <1>2, <1>8, <2>1, TakenOff
<1>12. Rest(in, Len(D) + 1) = s \o t
  <2> HIDE DEF C, in
  <2>1. Rest((D \o C) \o (s \o t), Len(D \o C)) = s \o t
    BY <1>5, <1>6, TakenOff
  <2> QED  BY <1>5, <1>7, <2>1
<1> HIDE DEF C, in
<1>13. Min({Len(s), Len(s \o t)}) = Len(s)
  <2>1. Len(s) \in Int /\ Len(s \o t) \in Int /\ Len(s) <= Len(s \o t)
    BY <1>1, <1>6
  <2> QED  BY <2>1 DEF Min
<1>14. SubSeq(s \o t, 1, Len(s)) = s /\ Rest(s \o t, Len(s)) = t
  BY TakenOff
<1>15. (Len(D) + 1) - 1 = Len(D)  BY <1>2
<1>16. ParseString(in) = [value |-> <<"string", s>>, rest |-> t]
  BY <1>2, <1>10, <1>11, <1>12, <1>13, <1>14, <1>15 DEF ParseString
<1> QED  BY <1>9, <1>16 DEF in

\* bvalue_parse_int takes off a number as it was written.
LEMMA ReadInt ==
    ASSUME NEW n \in Int, NEW t \in Seq(Byte)
    PROVE  /\ EncodeInt(n) \in Seq(Byte) /\ Len(EncodeInt(n)) >= 2
           /\ EncodeInt(n)[1] = "i"
           /\ ParseInt(EncodeInt(n) \o t)
                = [value |-> <<"int", n>>, rest |-> t]
<1> DEFINE N  == IF n < 0 THEN <<"-">> \o DigitsOf(-n) ELSE DigitsOf(n)
           I  == <<"i">>
           E  == <<"e">>
           in == EncodeInt(n) \o t
<1>1. /\ N \in Seq(Byte) /\ Len(N) \in Nat
      /\ \A k \in 1 .. Len(N) : N[k] # "e"
      /\ Atoi(N) = n
  <2>1. CASE n < 0
    <3> DEFINE D == DigitsOf(-n)
               M == <<"-">>
    <3>1. -n \in Nat /\ -(-n) = n  BY <2>1
    <3>2. /\ D \in Seq(Byte) /\ Len(D) \in Nat
          /\ \A k \in 1 .. Len(D) : D[k] # "e"
      BY <3>1, DigitsAreBytes, DigitApart
    <3>3. M \in Seq(Byte) /\ Len(M) = 1 /\ M[1] # "e"
      BY ByteLetters, One
    <3>4. Atoi(M \o D) = n  BY <3>1, AtoiMinus
    <3>5. N = M \o D  BY <2>1
    <3> HIDE DEF D, M, N
    <3>6. M \o D \in Seq(Byte) /\ Len(M \o D) = 1 + Len(D)
      BY <3>2, <3>3, Joined
    <3>10. M \in Seq(Byte) /\ D \in Seq(Byte)  BY <3>2, <3>3
    <3>11. \A k \in 1 .. Len(M) + Len(D) :
              (M \o D)[k] = IF k <= Len(M) THEN M[k] ELSE D[k - Len(M)]
      BY <3>10, ConcatProperties
    <3>9. \A k \in 1 .. 1 + Len(D) :
              (M \o D)[k] = IF k <= 1 THEN M[k] ELSE D[k - 1]
      BY <3>3, <3>11
    <3>7. \A k \in 1 .. 1 + Len(D) : k <= 1 => k = 1  BY <3>2
    <3>8. \A k \in 1 .. 1 + Len(D) : ~(k <= 1) => k - 1 \in 1 .. Len(D)
      BY <3>2
    <3> QED  BY <3>2, <3>3, <3>4, <3>5, <3>6, <3>7, <3>8, <3>9
  <2>2. CASE ~(n < 0)
    <3>1. n \in Nat /\ N = DigitsOf(n)  BY <2>2
    <3> HIDE DEF N
    <3> QED  BY <3>1, DigitsAreBytes, DigitApart, AtoiDigits
  <2> QED  BY <2>1, <2>2
<1>2. EncodeInt(n) = (I \o N) \o E  BY DEF EncodeInt
<1> HIDE DEF N
<1>3. /\ I \in Seq(Byte) /\ Len(I) = 1 /\ I[1] = "i"
      /\ E \in Seq(Byte) /\ Len(E) = 1 /\ "e" \in Byte
  BY ByteLetters, One
<1>4. /\ I \o N \in Seq(Byte) /\ Len(I \o N) = 1 + Len(N)
      /\ (I \o N)[1] = "i"
  <2> HIDE DEF I
  <2>1. I \o N \in Seq(Byte)  BY <1>1, <1>3, Joined
  <2>0. I \in Seq(Byte) /\ N \in Seq(Byte)  BY <1>1, <1>3
  <2>4. Len(I \o N) = Len(I) + Len(N)  BY <2>0, Joined
  <2>2. Len(I \o N) = 1 + Len(N)  BY <1>3, <2>4
  <2>3. (I \o N)[1] = I[1]  BY <1>1, <1>3, Joined
  <2> QED  BY <1>3, <2>1, <2>2, <2>3
<1>5. /\ EncodeInt(n) \in Seq(Byte) /\ Len(EncodeInt(n)) = Len(N) + 2
      /\ EncodeInt(n)[1] = "i"
  <2> HIDE DEF I, E
  <2> QED  BY <1>1, <1>2, <1>3, <1>4, Joined
<1>6. E \o t \in Seq(Byte) /\ N \o (E \o t) \in Seq(Byte)
  <2> HIDE DEF E
  <2> QED  BY <1>1, <1>3, Joined
<1>7. in = I \o (N \o (E \o t))
  <2> HIDE DEF I, E
  <2>1. in = (I \o N) \o (E \o t)  BY <1>2, <1>3, <1>4, Grouped
  <2>3. I \in Seq(Byte) /\ N \in Seq(Byte) /\ E \o t \in Seq(Byte)
    BY <1>1, <1>3, <1>6
  <2>2. (I \o N) \o (E \o t) = I \o (N \o (E \o t))  BY <2>3, Grouped
  <2> HIDE DEF in
  <2> QED  BY <2>1, <2>2
<1>8. Rest(in, 1) = N \o (E \o t)
  <2> HIDE DEF I, E, in
  <2> QED  BY <1>3, <1>6, <1>7, TakenOff
<1>9. Search(N \o (E \o t), "e") = Len(N) + 1  BY <1>1, <1>3, Found
<1>10. SubSeq(N \o (E \o t), 1, Len(N)) = N
  <2> HIDE DEF E
  <2> QED  BY <1>1, <1>6, TakenOff
<1>11. Rest(N \o (E \o t), Len(N) + 1) = t
  <2> HIDE DEF E
  <2>1. N \o (E \o t) = (N \o E) \o t  BY <1>1, <1>3, Grouped
  <2>2. N \o E \in Seq(Byte) /\ Len(N \o E) = Len(N) + 1
    BY <1>1, <1>3, Joined
  <2> QED  BY <2>1, <2>2, TakenOff
<1>12. (Len(N) + 1) - 1 = Len(N)  BY <1>1
<1> HIDE DEF I, E, in
<1>13. ParseInt(in) = [value |-> <<"int", n>>, rest |-> t]
  BY <1>1, <1>8, <1>9, <1>10, <1>11, <1>12 DEF ParseInt
<1>14. Len(EncodeInt(n)) >= 2  BY <1>1, <1>5
<1> QED  BY <1>5, <1>13, <1>14 DEF in

-----------------------------------------------------------------------------
(***************************************************************************)
(* The recursive functions of the parser                                   *)
(***************************************************************************)
\* What the definition of Parsing says.
LEMMA ParsingDef ==
    ASSUME NEW n \in Nat, NEW in \in Seq(Byte)
    PROVE  Parsing[n][in] = IF n = 0 THEN [value |-> NULL, rest |-> in]
                            ELSE ParseWith(Parsing[n - 1], in)
<1> DEFINE Line(f, i) ==
             [b \in Seq(Byte) |-> IF i = 0 THEN [value |-> NULL, rest |-> b]
                                  ELSE ParseWith(f[i - 1], b)]
           Body(f) == [i \in Nat |-> Line(f, i)]
<1>1. PICK f : Recurs(f, "parsing", "itself")
  BY Recursion
<1>2. f[0] = Line(f, 0)  BY <1>1 DEF Recurs, Start
<1>3. ASSUME NEW i \in Nat \ {0} PROVE f[i] = Line(f, i)
  <2>1. f[i] = Step("parsing", "itself", i, f[i - 1])  BY <1>1 DEF Recurs
  <2>2. i # 0  OBVIOUS
  <2> QED  BY <2>1, <2>2 DEF Step
<1>4. f = Body(f)
  <2> HIDE DEF Line
  <2>1. \A i \in Nat : f[i] = Body(f)[i]  BY <1>2, <1>3
  <2>2. Body(f) = [i \in Nat |-> Body(f)[i]]  OBVIOUS
  <2> HIDE DEF Body
  <2> QED  BY <1>1, <2>1, <2>2 DEF Recurs
<1>5. Parsing = Body(Parsing)
  <2>1. Parsing = CHOOSE g : g = Body(g)  BY DEF Parsing
  <2> HIDE DEF Body
  <2> QED  BY <1>4, <2>1
<1>6. Parsing[n] = Line(Parsing, n)
  <2> HIDE DEF Line
  <2>1. Body(Parsing)[n] = Line(Parsing, n)  OBVIOUS
  <2> HIDE DEF Body
  <2> QED  BY <1>5, <2>1
<1>7. Line(Parsing, n)[in] = IF n = 0 THEN [value |-> NULL, rest |-> in]
                             ELSE ParseWith(Parsing[n - 1], in)
  OBVIOUS
<1> HIDE DEF Line
<1> QED  BY <1>6, <1>7

\* The turns of the loop over a list,
LEMMA ListLoop ==
    ASSUME NEW parse, NEW in
    PROVE  \E f : /\ ParseList(parse, in)
                       = [value |-> <<"list", f[Len(in)].found>>,
                          rest  |-> f[Len(in)].left]
                  /\ f[0] = Turn(<<>>, Rest(in, 1), "loop")
                  /\ \A k \in Nat \ {0} : f[k] = ListTurn(parse, f[k - 1])
<1> DEFINE Body(f) == [k \in Nat |-> IF k = 0 THEN Turn(<<>>, Rest(in, 1), "loop")
                                     ELSE ListTurn(parse, f[k - 1])]
           turn == CHOOSE f : f = Body(f)
           w == <<parse, in>>
<1>1. PICK f : Recurs(f, "list", w)
  <2> HIDE DEF w
  <2> QED  BY Recursion
<1>2. f[0] = Turn(<<>>, Rest(in, 1), "loop")  BY <1>1 DEF Recurs, Start
<1>3. \A n \in Nat \ {0} : f[n] = ListTurn(parse, f[n - 1])
  BY <1>1 DEF Recurs, Step
<1>4. f = Body(f)
  <2>1. \A n \in Nat : f[n] = Body(f)[n]  BY <1>2, <1>3
  <2>2. Body(f) = [n \in Nat |-> Body(f)[n]]  OBVIOUS
  <2> HIDE DEF Body
  <2> QED  BY <1>1, <2>1, <2>2 DEF Recurs
<1>5. turn = Body(turn)
  <2> HIDE DEF Body
  <2> QED  BY <1>4
<1>6. ParseList(parse, in) = [value |-> <<"list", turn[Len(in)].found>>,
                              rest  |-> turn[Len(in)].left]
  BY DEF ParseList
<1> HIDE DEF turn
<1>7. /\ turn[0] = Turn(<<>>, Rest(in, 1), "loop")
      /\ \A k \in Nat \ {0} : turn[k] = ListTurn(parse, turn[k - 1])
  <2>1. \A k \in Nat : turn[k] = Body(turn)[k]  BY <1>5
  <2> QED  BY <2>1
<1> QED  BY <1>6, <1>7

\* and over a dictionary.
LEMMA DictLoop ==
    ASSUME NEW parse, NEW in
    PROVE  \E f : /\ ParseDict(parse, in)
                       = [value |-> <<"dict", f[Len(in)].found>>,
                          rest  |-> f[Len(in)].left]
                  /\ f[0] = Turn(<<>>, Rest(in, 1), "loop")
                  /\ \A k \in Nat \ {0} : f[k] = DictTurn(parse, f[k - 1])
<1> DEFINE Body(f) == [k \in Nat |-> IF k = 0 THEN Turn(<<>>, Rest(in, 1), "loop")
                                     ELSE DictTurn(parse, f[k - 1])]
           turn == CHOOSE f : f = Body(f)
           w == <<parse, in>>
<1>1. PICK f : Recurs(f, "dict", w)
  <2> HIDE DEF w
  <2> QED  BY Recursion
<1>2. f[0] = Turn(<<>>, Rest(in, 1), "loop")  BY <1>1 DEF Recurs, Start
<1>3. \A n \in Nat \ {0} : f[n] = DictTurn(parse, f[n - 1])
  BY <1>1 DEF Recurs, Step
<1>4. f = Body(f)
  <2>1. \A n \in Nat : f[n] = Body(f)[n]  BY <1>2, <1>3
  <2>2. Body(f) = [n \in Nat |-> Body(f)[n]]  OBVIOUS
  <2> HIDE DEF Body
  <2> QED  BY <1>1, <2>1, <2>2 DEF Recurs
<1>5. turn = Body(turn)
  <2> HIDE DEF Body
  <2> QED  BY <1>4
<1>6. ParseDict(parse, in) = [value |-> <<"dict", turn[Len(in)].found>>,
                              rest  |-> turn[Len(in)].left]
  BY DEF ParseDict
<1> HIDE DEF turn
<1>7. /\ turn[0] = Turn(<<>>, Rest(in, 1), "loop")
      /\ \A k \in Nat \ {0} : turn[k] = DictTurn(parse, turn[k - 1])
  <2>1. \A k \in Nat : turn[k] = Body(turn)[k]  BY <1>5
  <2> QED  BY <2>1
<1> QED  BY <1>6, <1>7

-----------------------------------------------------------------------------
(***************************************************************************)
(* Flattened sequences                                                     *)
(***************************************************************************)
LEMMA FlattenLoop ==
    ASSUME NEW q \in Seq(Seq(Byte))
    PROVE  \E h : /\ h[0] = <<>> /\ h[Len(q)] = FlattenSeq(q)
                  /\ \A k \in 1 .. Len(q) : h[k] = h[k - 1] \o q[k]
<1> DEFINE n == Len(q)
           Body(f) == [i \in 1 .. n |-> IF i = 1 THEN q[i] ELSE f[i - 1] \o q[i]]
           flatten == CHOOSE f : f = Body(f)
<1>0. n \in Nat /\ \A i \in 1 .. n : q[i] \in Seq(Byte)
  BY LenProperties, ElementOfSeq
<1>1. PICK f : Recurs(f, "flatten", q)
  BY Recursion
<1>2. \A i \in Nat \ {0} : f[i] = IF i = 1 THEN q[i] ELSE f[i - 1] \o q[i]
  BY <1>1 DEF Recurs, Step
<1> DEFINE g == [i \in 1 .. n |-> f[i]]
<1>3. g = Body(g)
  <2>1. ASSUME NEW i \in 1 .. n PROVE g[i] = Body(g)[i]
    <3>1. i \in Nat \ {0} /\ g[i] = f[i]  BY <1>0
    <3>2. CASE i = 1
      BY <1>2, <3>1, <3>2
    <3>3. CASE i # 1
      <4>1. i - 1 \in 1 .. n  BY <1>0, <3>3
      <4>2. g[i - 1] = f[i - 1]  BY <4>1
      <4>3. f[i] = f[i - 1] \o q[i]  BY <1>2, <3>1, <3>3
      <4> HIDE DEF g
      <4> QED  BY <3>1, <3>3, <4>2, <4>3
    <3> QED  BY <3>2, <3>3
  <2>2. Body(g) = [i \in 1 .. n |-> Body(g)[i]]  OBVIOUS
  <2> HIDE DEF Body
  <2> QED  BY <2>1, <2>2
<1>4. flatten = Body(flatten)
  <2> HIDE DEF Body, g
  <2> QED  BY <1>3
<1>5. FlattenSeq(q) = IF n = 0 THEN q ELSE flatten[n]  BY DEF FlattenSeq
<1> HIDE DEF flatten
<1>6. \A i \in 1 .. n :
          flatten[i] = IF i = 1 THEN q[i] ELSE flatten[i - 1] \o q[i]
  <2>1. \A i \in 1 .. n : flatten[i] = Body(flatten)[i]  BY <1>4
  <2> QED  BY <2>1
<1> DEFINE h == [i \in 0 .. n |-> IF i = 0 THEN <<>> ELSE flatten[i]]
<1>7. h[0] = <<>>  BY <1>0
<1>8. h[n] = FlattenSeq(q)
  <2>1. CASE n = 0
    <3>1. q = <<>>  BY <2>1, EmptySeq
    <3> QED  BY <1>5, <1>7, <2>1, <3>1
  <2>2. CASE n # 0
    <3>1. h[n] = flatten[n]  BY <1>0, <2>2
    <3> QED  BY <1>5, <2>2, <3>1
  <2> QED  BY <2>1, <2>2
<1>9. ASSUME NEW k \in 1 .. n PROVE h[k] = h[k - 1] \o q[k]
  <2>1. h[k] = flatten[k]  BY <1>0
  <2>2. CASE k = 1
    <3>1. h[k - 1] = <<>>  BY <1>7, <2>2
    <3>2. <<>> \o q[k] = q[k]  BY <1>0, ConcatEmptySeq
    <3> QED  BY <1>6, <2>1, <2>2, <3>1, <3>2
  <2>3. CASE k # 1
    <3>1. h[k - 1] = flatten[k - 1]  BY <1>0, <2>3
    <3>2. flatten[k] = flatten[k - 1] \o q[k]  BY <1>6, <2>3
    <3> HIDE DEF h
    <3> QED  BY <2>1, <3>1, <3>2
  <2> QED  BY <2>2, <2>3
<1> HIDE DEF h
<1> QED  BY <1>7, <1>8, <1>9

\* What is left of it after the first k elements.
Lefts(left, q) ==
    /\ left[0] = FlattenSeq(q) /\ left[Len(q)] = <<>>
    /\ \A k \in 0 .. Len(q) : left[k] \in Seq(Byte)
    /\ \A k \in 1 .. Len(q) : left[k - 1] = q[k] \o left[k]

\* For any texts there is what is left after each of them.
LEMMA FlattenLeft ==
    ASSUME NEW q \in Seq(Seq(Byte))
    PROVE  \E left : Lefts(left, q)
<1> DEFINE n == Len(q)
<1>0. n \in Nat /\ \A i \in 1 .. n : q[i] \in Seq(Byte)
  BY LenProperties, ElementOfSeq
<1>1. PICK h : /\ h[0] = <<>> /\ h[n] = FlattenSeq(q)
               /\ \A k \in 1 .. n : h[k] = h[k - 1] \o q[k]
  BY FlattenLoop
<1> HIDE DEF n
<1>2. \A k \in 0 .. n : h[k] \in Seq(Byte)
  <2> DEFINE W == {k \in 0 .. n : h[k] \notin Seq(Byte)}
  <2> SUFFICES ASSUME W # {} PROVE FALSE  OBVIOUS
  <2>1. W \subseteq Nat  BY <1>0
  <2>2. PICK k \in W : \A i \in W : k <= i
    <3> HIDE DEF W
    <3> QED  BY <2>1, NatMin
  <2>3. k # 0  BY <1>1, EmptySeq
  <2>4. k \in 1 .. n /\ k - 1 \in 0 .. n /\ ~(k <= k - 1)  BY <1>0, <2>3
  <2>5. h[k - 1] \in Seq(Byte)  BY <2>2, <2>4
  <2>6. h[k - 1] \o q[k] \in Seq(Byte)  BY <1>0, <2>4, <2>5, Joined
  <2> QED  BY <1>1, <2>4, <2>6
<1>3. \A k \in 0 .. n : \E u \in Seq(Byte) : h[n] = h[k] \o u
  <2> DEFINE Ends(k) == \E u \in Seq(Byte) : h[n] = h[k] \o u
             W == {j \in 0 .. n : ~Ends(n - j)}
  <2>0. W = {}
    <3> SUFFICES ASSUME W # {} PROVE FALSE  OBVIOUS
    <3>1. W \subseteq Nat  BY <1>0
    <3>2. PICK j \in W : \A i \in W : j <= i
      <4> HIDE DEF W
      <4> QED  BY <3>1, NatMin
    <3>3. j \in 0 .. n /\ ~Ends(n - j)  OBVIOUS
    <3>4. j # 0
      <4>1. n \in 0 .. n /\ <<>> \in Seq(Byte)  BY <1>0, EmptySeq
      <4>2. h[n] = h[n] \o <<>>  BY <1>2, <4>1, ConcatEmptySeq
      <4>3. Ends(n)  BY <4>1, <4>2
      <4>4. n - 0 = n  BY <1>0
      <4> HIDE DEF Ends
      <4> QED  BY <3>3, <4>3, <4>4
    <3>5. /\ j - 1 \in 0 .. n /\ ~(j <= j - 1)
          /\ n - (j - 1) = (n - j) + 1 /\ (n - j) + 1 \in 1 .. n
          /\ ((n - j) + 1) - 1 = n - j /\ n - j \in 0 .. n
      BY <1>0, <3>3, <3>4
    <3>6. Ends((n - j) + 1)
      <4> HIDE DEF Ends
      <4> QED  BY <3>2, <3>5
    <3> DEFINE k == n - j
    <3>7. PICK u \in Seq(Byte) : h[n] = h[k + 1] \o u  BY <3>6
    <3>8. h[k + 1] = h[k] \o q[k + 1]  BY <1>1, <3>5
    <3>9. h[k] \in Seq(Byte) /\ q[k + 1] \in Seq(Byte)  BY <1>0, <1>2, <3>5
    <3> HIDE DEF k
    <3>10. h[n] = h[k] \o (q[k + 1] \o u)
      <4>1. (h[k] \o q[k + 1]) \o u = h[k] \o (q[k + 1] \o u)
        BY <3>9, Grouped
      <4> QED  BY ONLY <3>7, <3>8, <4>1
    <3>11. q[k + 1] \o u \in Seq(Byte)  BY <3>9, Joined
    <3>12. Ends(k)  BY <3>10, <3>11
    <3> HIDE DEF Ends
    <3> QED  BY <3>3, <3>12 DEF k
  <2> SUFFICES ASSUME NEW k \in 0 .. n PROVE Ends(k)  OBVIOUS
  <2>1. n - k \in 0 .. n /\ n - (n - k) = k  BY <1>0
  <2> HIDE DEF Ends
  <2> QED  BY <2>0, <2>1
<1> DEFINE left == [k \in 0 .. n |-> CHOOSE u \in Seq(Byte) : h[n] = h[k] \o u]
<1>4. \A k \in 0 .. n : left[k] \in Seq(Byte) /\ h[n] = h[k] \o left[k]
  BY <1>3
<1> HIDE DEF left
<1>5. 0 \in 0 .. n /\ n \in 0 .. n  BY <1>0
<1>6. left[0] = FlattenSeq(q)
  <2>1. h[n] = <<>> \o left[0]  BY <1>1, <1>4, <1>5
  <2>2. <<>> \o left[0] = left[0]  BY <1>4, <1>5, ConcatEmptySeq
  <2> QED  BY <1>1, <2>1, <2>2
<1>7. left[n] = <<>>
  <2>1. h[n] = h[n] \o left[n] /\ h[n] \in Seq(Byte) /\ left[n] \in Seq(Byte)
    BY <1>2, <1>4, <1>5
  <2>2. h[n] \o <<>> = h[n] /\ <<>> \in Seq(Byte)
    BY <2>1, ConcatEmptySeq, EmptySeq
  <2>3. h[n] \o left[n] = h[n] \o <<>>  BY <2>1, <2>2
  <2> QED  BY <2>1, <2>2, <2>3, Cancelled
<1>8. ASSUME NEW k \in 1 .. n PROVE left[k - 1] = q[k] \o left[k]
  <2>1. k \in 0 .. n /\ k - 1 \in 0 .. n  BY <1>0
  <2>2. /\ h[k - 1] \in Seq(Byte) /\ q[k] \in Seq(Byte)
        /\ left[k] \in Seq(Byte) /\ left[k - 1] \in Seq(Byte)
    BY <1>0, <1>2, <1>4, <2>1
  <2>3. h[n] = h[k - 1] \o left[k - 1]  BY <1>4, <2>1
  <2>4. h[n] = (h[k - 1] \o q[k]) \o left[k]  BY <1>1, <1>4, <2>1
  <2>5. (h[k - 1] \o q[k]) \o left[k] = h[k - 1] \o (q[k] \o left[k])
    BY <2>2, Grouped
  <2>6. q[k] \o left[k] \in Seq(Byte)  BY <2>2, Joined
  <2>7. h[k - 1] \o left[k - 1] = h[k - 1] \o (q[k] \o left[k])
    BY <2>3, <2>4, <2>5
  <2> QED  BY <2>2, <2>6, <2>7, Cancelled
<1> QED  BY <1>4, <1>6, <1>7, <1>8 DEF Lefts, n

\* Elements of a byte or more: what is left gets shorter with each.
LEMMA FlattenLengths ==
    ASSUME NEW q \in Seq(Seq(Byte)), NEW left, Lefts(left, q),
           \A k \in 1 .. Len(q) : Len(q[k]) >= 1
    PROVE  /\ FlattenSeq(q) \in Seq(Byte)
           /\ Len(q) <= Len(FlattenSeq(q))
           /\ \A k \in 1 .. Len(q) : Len(q[k]) <= Len(FlattenSeq(q))
<1> DEFINE n == Len(q)
           F == FlattenSeq(q)
<1>0. n \in Nat /\ \A i \in 1 .. n : q[i] \in Seq(Byte)
  BY LenProperties, ElementOfSeq
<1>1. /\ left[0] = F
      /\ \A k \in 0 .. n : left[k] \in Seq(Byte)
      /\ \A k \in 1 .. n : left[k - 1] = q[k] \o left[k]
  BY DEF Lefts
<1> HIDE DEF n, F
<1>2. \A k \in 1 .. n : /\ Len(left[k - 1]) = Len(q[k]) + Len(left[k])
                        /\ Len(q[k]) \in Nat
  <2> TAKE k \in 1 .. n
  <2>1. k \in 0 .. n /\ q[k] \in Seq(Byte) /\ left[k] \in Seq(Byte)
    BY <1>0, <1>1
  <2>2. Len(q[k] \o left[k]) = Len(q[k]) + Len(left[k]) /\ Len(q[k]) \in Nat
    BY <2>1, Joined
  <2> QED  BY <1>1, <2>2
<1>3. \A k \in 0 .. n : Len(left[k]) \in Nat  BY <1>1, LenProperties
<1>4. \A k \in 0 .. n : Len(left[k]) + k <= Len(F)
  <2> DEFINE W == {k \in 0 .. n : ~(Len(left[k]) + k <= Len(F))}
  <2> SUFFICES ASSUME W # {} PROVE FALSE  OBVIOUS
  <2>1. W \subseteq Nat  BY <1>0
  <2>2. PICK k \in W : \A i \in W : k <= i
    <3> HIDE DEF W
    <3> QED  BY <2>1, NatMin
  <2>3. 0 \in 0 .. n  BY <1>0
  <2>4. k # 0  BY <1>1, <1>3, <2>3
  <2>5. k \in 1 .. n /\ k - 1 \in 0 .. n /\ ~(k <= k - 1)  BY <1>0, <2>4
  <2>6. Len(left[k - 1]) + (k - 1) <= Len(F)  BY <2>2, <2>5
  <2>7. Len(left[k - 1]) = Len(q[k]) + Len(left[k]) /\ Len(q[k]) >= 1
    BY <1>2, <2>5 DEF n
  <2>8. Len(F) \in Nat  BY <1>1, <1>3, <2>3
  <2>9. Len(left[k]) \in Nat /\ Len(left[k - 1]) \in Nat /\ Len(q[k]) \in Nat
    BY <1>2, <1>3, <2>5
  <2>10. k \in Nat /\ ~(Len(left[k]) + k <= Len(F))  BY <1>0
  <2> HIDE DEF W
  <2>11. \A a, b, c, l \in Nat :
            a + (k - 1) <= l /\ a = b + c /\ b >= 1 => c + k <= l
    BY <2>10
  <2> HIDE DEF n
  <2> QED  BY <2>6, <2>7, <2>8, <2>9, <2>10, <2>11
<1>5. F \in Seq(Byte)  BY <1>0, <1>1
<1>6. Len(F) \in Nat  BY <1>5, LenProperties
<1>7. n <= Len(F)
  <2>1. n \in 0 .. n  BY <1>0
  <2>2. Len(left[n]) + n <= Len(F) /\ Len(left[n]) \in Nat
    BY <1>3, <1>4, <2>1
  <2> QED  BY <1>0, <1>6, <2>2
<1>8. ASSUME NEW k \in 1 .. n PROVE Len(q[k]) <= Len(F)
  <2>1. k \in 0 .. n /\ k - 1 \in 0 .. n /\ k - 1 >= 0  BY <1>0
  <2>2. Len(left[k - 1]) + (k - 1) <= Len(F)  BY <1>4, <2>1
  <2>3. Len(left[k]) \in Nat /\ Len(q[k]) \in Nat /\ Len(left[k - 1]) \in Nat
    BY <1>2, <1>3, <2>1
  <2>4. Len(left[k - 1]) = Len(q[k]) + Len(left[k])  BY <1>2
  <2>5. k \in Nat  BY <1>0
  <2>6. \A a, b, c, l \in Nat : a + (k - 1) <= l /\ a = b + c => b <= l
    BY <2>1, <2>5
  <2> QED  BY <1>6, <2>2, <2>3, <2>4, <2>6
<1> QED  BY <1>5, <1>7, <1>8 DEF n, F

-----------------------------------------------------------------------------
(***************************************************************************)
(* The loops of the parser                                                 *)
(***************************************************************************)
\* A list or dictionary between its first byte and its "e".
LEMMA Bracketed ==
    ASSUME NEW c \in Byte, NEW a \in Seq(Byte), NEW t \in Seq(Byte)
    PROVE  /\ (<<c>> \o a) \o <<"e">> \in Seq(Byte)
           /\ Len((<<c>> \o a) \o <<"e">>) = Len(a) + 2
           /\ ((<<c>> \o a) \o <<"e">>)[1] = c
           /\ <<"e">> \o t \in Seq(Byte)
           /\ Rest(((<<c>> \o a) \o <<"e">>) \o t, 1) = a \o (<<"e">> \o t)
           /\ Len(((<<c>> \o a) \o <<"e">>) \o t) >= Len(a) + 2
<1> DEFINE C == <<c>>
           E == <<"e">>
<1>1. C \in Seq(Byte) /\ E \in Seq(Byte) /\ Len(C) = 1 /\ Len(E) = 1 /\ C[1] = c
  BY ByteLetters, One
<1> HIDE DEF C, E
<1>2. C \in Seq(Byte) /\ E \in Seq(Byte)  BY <1>1
<1>3. /\ C \o a \in Seq(Byte) /\ Len(C \o a) = Len(C) + Len(a)
      /\ (Len(C) >= 1 => (C \o a)[1] = C[1])
      /\ Len(a) \in Nat
  BY <1>2, Joined
<1>4. Len(C \o a) = 1 + Len(a) /\ (C \o a)[1] = c /\ Len(C \o a) >= 1
  BY <1>1, <1>3
<1>5. C \o a \in Seq(Byte)  BY <1>3
<1>6. /\ (C \o a) \o E \in Seq(Byte)
      /\ Len((C \o a) \o E) = Len(C \o a) + Len(E)
      /\ (Len(C \o a) >= 1 => ((C \o a) \o E)[1] = (C \o a)[1])
  BY <1>2, <1>5, Joined
<1>7. Len((C \o a) \o E) = Len(a) + 2
  BY <1>1, <1>3, <1>4, <1>6
<1>8. ((C \o a) \o E)[1] = c  BY <1>4, <1>6
<1>9. (C \o a) \o E \in Seq(Byte)  BY <1>6
<1>10. /\ Len(((C \o a) \o E) \o t) = Len((C \o a) \o E) + Len(t)
       /\ Len(t) \in Nat
  BY <1>9, Joined
<1>11. Len(((C \o a) \o E) \o t) >= Len(a) + 2  BY <1>3, <1>7, <1>10
<1>12. E \o t \in Seq(Byte)  BY <1>2, Joined
<1>13. a \o (E \o t) \in Seq(Byte)  BY <1>12, Joined
<1>14. ((C \o a) \o E) \o t = (C \o a) \o (E \o t)  BY <1>2, <1>5, Grouped
<1>15. (C \o a) \o (E \o t) = C \o (a \o (E \o t))  BY <1>2, <1>12, Grouped
<1>16. Rest(C \o (a \o (E \o t)), Len(C)) = a \o (E \o t)
  BY <1>2, <1>13, TakenOff
<1>17. Rest(((C \o a) \o E) \o t, 1) = a \o (E \o t)
  BY ONLY <1>1, <1>14, <1>15, <1>16
<1> QED  BY <1>6, <1>7, <1>8, <1>11, <1>12, <1>17 DEF C, E

\* b starts a value and is read by parse as v, whatever follows.
ItemRead(parse, b, v) ==
    /\ b \in Seq(Byte) /\ Len(b) >= 2 /\ b[1] \in Starts /\ v # NULL
    /\ \A u \in Seq(Byte) : parse[b \o u] = [value |-> v, rest |-> u]

\* A value that starts is not taken for the end,
LEMMA NotAtEnd ==
    ASSUME NEW b \in Seq(Byte), Len(b) >= 2, b[1] \in Starts,
           NEW u \in Seq(Byte)
    PROVE  ~AtEnd(b \o u)
<1>1. /\ b \o u \in Seq(Byte) /\ Len(b \o u) = Len(b) + Len(u)
      /\ Len(b) \in Nat /\ Len(u) \in Nat /\ (b \o u)[1] = b[1]
  <2>1. Len(b) >= 1  BY LenProperties
  <2> QED  BY <2>1, Joined
<1> DEFINE c == b \o u
<1>2. Len(c) >= 2  BY <1>1
<1>3. b[1] # "e"  BY DigitApart DEF Starts
<1> HIDE DEF c
<1>7. c \in Seq(Byte)  BY <1>1 DEF c
<1>4. Head(c) = c[1]  BY <1>2, <1>7
<1>5. Head(c) # "e"  BY <1>1, <1>3, <1>4 DEF c
<1>6. ~(Len(c) <= 1)  BY <1>1, <1>2 DEF c
<1> QED  BY <1>5, <1>6 DEF AtEnd, c

\* and the end is found, whatever follows.
LEMMA EndFound ==
    ASSUME NEW u \in Seq(Byte)
    PROVE  AtEnd(<<"e">> \o u) /\ Rest(<<"e">> \o u, 1) = u
<1> DEFINE E == <<"e">>
           c == E \o u
<1>1. E \in Seq(Byte) /\ Len(E) = 1 /\ E[1] = "e"  BY ByteLetters, One
<1> HIDE DEF E
<1>2. c[1] = "e"  BY <1>1, Joined
<1>3. Rest(c, 1) = u  BY <1>1, TakenOff
<1> HIDE DEF c
<1>5. c \in Seq(Byte) /\ Len(c) >= 1
  <2>1. Len(c) = Len(E) + Len(u) /\ Len(u) \in Nat /\ c \in Seq(Byte)
    BY <1>1, Joined DEF c
  <2> QED  BY <1>1, <2>1
<1>4. Head(c) = "e"  BY <1>2, <1>5
<1> QED  BY <1>3, <1>4 DEF AtEnd, c, E

\* A turn of the loop over a list takes off an item,
LEMMA ListItem ==
    ASSUME NEW parse, NEW found, NEW b, NEW v, ItemRead(parse, b, v),
           NEW u \in Seq(Byte)
    PROVE  ListTurn(parse, Turn(found, b \o u, "loop"))
             = Turn(Append(found, v), u, "loop")
<1> DEFINE c == b \o u
<1>1. ~AtEnd(c) /\ v # NULL /\ parse[c] = [value |-> v, rest |-> u]
  BY NotAtEnd DEF ItemRead
<1> DEFINE was == Turn(found, c, "loop")
<1>2. was.left = c /\ was.found = found /\ was.at = "loop"
  <2> HIDE DEF c
  <2> QED  BY DEF Turn
<1> HIDE DEF c, was
<1>3. parse[was.left].value = v /\ parse[was.left].rest = u  BY <1>1, <1>2
<1>4. ListTurn(parse, was) = Turn(Append(found, v), u, "loop")
  BY <1>1, <1>2, <1>3 DEF ListTurn
<1> QED  BY <1>4 DEF was, c

\* or its end, after which nothing changes.
LEMMA ListEnd ==
    ASSUME NEW parse, NEW found, NEW u \in Seq(Byte)
    PROVE  /\ ListTurn(parse, Turn(found, <<"e">> \o u, "loop"))
                = Turn(found, u, "end")
           /\ ListTurn(parse, Turn(found, u, "end")) = Turn(found, u, "end")
<1> DEFINE c == <<"e">> \o u
<1>1. AtEnd(c) /\ Rest(c, 1) = u  BY EndFound
<1> HIDE DEF c
<1>2. ListTurn(parse, Turn(found, c, "loop")) = Turn(found, u, "end")
  BY <1>1 DEF ListTurn, Turn
<1>3. ListTurn(parse, Turn(found, u, "end")) = Turn(found, u, "end")
  BY DEF ListTurn, Turn
<1> QED  BY <1>2, <1>3 DEF c

\* A loop that takes the elements of q off one at a time, of what is left of q
\* before the "e", and finds found[k] in the first k.
Loops(f, found, q, left, R, t) ==
    /\ f[0] = Turn(found[0], left[0] \o R, "loop")
    /\ \A k \in 1 .. Len(q) :
          f[k - 1] = Turn(found[k - 1], q[k] \o (left[k] \o R), "loop")
            => f[k] = Turn(found[k], left[k] \o R, "loop")
    /\ f[Len(q)] = Turn(found[Len(q)], R, "loop")
         => f[Len(q) + 1] = Turn(found[Len(q)], t, "end")
    /\ \A k \in Nat \ {0} :
          f[k - 1] = Turn(found[Len(q)], t, "end")
            => f[k] = Turn(found[Len(q)], t, "end")

\* A loop takes off one text a turn, then the end.
LEMMA LoopRuns ==
    ASSUME NEW f, NEW found, NEW q \in Seq(Seq(Byte)), NEW left,
           Lefts(left, q), NEW t, NEW R \in Seq(Byte),
           Loops(f, found, q, left, R, t)
    PROVE  \A n \in Nat : n >= Len(q) + 1 => f[n] = Turn(found[Len(q)], t, "end")
<1> DEFINE m == Len(q)
           Goes(k) == f[k] = Turn(found[k], left[k] \o R, "loop")
           Over(k) == f[k] = Turn(found[m], t, "end")
<1>0. m \in Nat /\ \A i \in 1 .. m : q[i] \in Seq(Byte)
  BY LenProperties, ElementOfSeq
<1>1. /\ \A k \in 0 .. m : left[k] \in Seq(Byte)
      /\ \A k \in 1 .. m : left[k - 1] = q[k] \o left[k]
      /\ left[m] = <<>>
  BY DEF Lefts
<1>2. Goes(0)  BY DEF Loops
<1>3. ASSUME NEW k \in 1 .. m, Goes(k - 1) PROVE Goes(k)
  <2>1. k \in 0 .. m  BY <1>0
  <2>2. q[k] \in Seq(Byte) /\ left[k] \in Seq(Byte)  BY <1>0, <1>1, <2>1
  <2>3. (q[k] \o left[k]) \o R = q[k] \o (left[k] \o R)  BY <2>2, Grouped
  <2>4. left[k - 1] \o R = q[k] \o (left[k] \o R)  BY <1>1, <2>3
  <2>5. f[k - 1] = Turn(found[k - 1], q[k] \o (left[k] \o R), "loop")
    BY <1>3, <2>4
  <2> QED  BY <2>5 DEF Loops
<1>4. ASSUME Goes(m) PROVE Over(m + 1)
  <2>1. left[m] \o R = R  BY <1>1, ConcatEmptySeq
  <2>2. f[m] = Turn(found[m], R, "loop")  BY <1>4, <2>1
  <2> QED  BY <2>2 DEF Loops
<1>5. ASSUME NEW k \in Nat \ {0}, Over(k - 1) PROVE Over(k)
  BY <1>5 DEF Loops
<1> HIDE DEF Goes, Over, m
<1>6. Goes(m)
  <2> DEFINE W == {k \in 0 .. m : ~Goes(k)}
  <2>0. W = {}
    <3> SUFFICES ASSUME W # {} PROVE FALSE  OBVIOUS
    <3>1. W \subseteq Nat  BY <1>0
    <3>2. PICK k \in W : \A i \in W : k <= i
      <4> HIDE DEF W
      <4> QED  BY <3>1, NatMin
    <3>3. k # 0 /\ ~Goes(k)  BY <1>2
    <3>4. k \in 1 .. m /\ k - 1 \in 0 .. m /\ ~(k <= k - 1)  BY <1>0, <3>3
    <3>5. Goes(k - 1)  BY <3>2, <3>4
    <3> QED  BY <1>3, <3>3, <3>4, <3>5
  <2>1. m \in 0 .. m  BY <1>0
  <2> QED  BY <2>0, <2>1
<1>7. Over(m + 1)  BY <1>4, <1>6
<1>8. ASSUME NEW n \in Nat, n >= Len(q) + 1 PROVE Over(n)
  <2> DEFINE W == {k \in Nat : k >= m + 1 /\ ~Over(k)}
  <2>0. W = {}
    <3> SUFFICES ASSUME W # {} PROVE FALSE  OBVIOUS
    <3>1. W \subseteq Nat  OBVIOUS
    <3>2. PICK k \in W : \A i \in W : k <= i
      <4> HIDE DEF W
      <4> QED  BY <3>1, NatMin
    <3>3. k \in Nat /\ k >= m + 1 /\ k # m + 1 /\ ~Over(k)  BY <1>7
    <3>4. k \in Nat \ {0} /\ k - 1 \in Nat /\ k - 1 >= m + 1 /\ ~(k <= k - 1)
      BY <1>0, <3>3
    <3>5. Over(k - 1)  BY <3>2, <3>4
    <3> QED  BY <1>5, <3>3, <3>4, <3>5
  <2>1. n >= m + 1  BY <1>8 DEF m
  <2> QED  BY <2>0, <2>1
<1> QED  BY <1>8 DEF Over, m

\* The first items, with one more.
LEMMA FoundMore ==
    ASSUME NEW S, NEW s \in Seq(S), NEW k \in 1 .. Len(s)
    PROVE  SubSeq(s, 1, k) = Append(SubSeq(s, 1, k - 1), s[k])
<1>1. Len(s) \in Nat /\ k - 1 \in 0 .. Len(s)  BY LenProperties
<1> DEFINE a == SubSeq(s, 1, k - 1)
           b == Append(a, s[k])
           c == SubSeq(s, 1, k)
<1>2. /\ a \in Seq(S) /\ Len(a) = k - 1
      /\ \A i \in 1 .. k - 1 : a[i] = s[i]
  BY <1>1
<1>3. /\ c \in Seq(S) /\ Len(c) = k
      /\ \A i \in 1 .. k : c[i] = s[i]
  BY <1>1
<1> HIDE DEF a, c
<1>4. s[k] \in S  BY ElementOfSeq
<1>5. /\ b \in Seq(S) /\ Len(b) = k
      /\ \A i \in 1 .. k - 1 : b[i] = a[i]
      /\ b[k] = s[k]
  <2>1. (k - 1) + 1 = k  BY <1>1
  <2> QED  BY <1>2, <1>4, <2>1, AppendProperties
<1> HIDE DEF b
<1>6. \A i \in 1 .. k : b[i] = c[i]
  <2> TAKE i \in 1 .. k
  <2>1. CASE i = k  BY <1>3, <1>5, <2>1
  <2>2. CASE i # k
    <3>1. i \in 1 .. k - 1  BY <1>1, <2>2
    <3> QED  BY <1>2, <1>3, <1>5, <3>1
  <2> QED  BY <2>1, <2>2
<1> QED  BY <1>3, <1>5, <1>6, SeqEqual DEF a, b, c

\* in is a list or dictionary whose items are q, and t.
Holds(in, q, t) ==
    /\ in \in Seq(Byte) /\ t \in Seq(Byte) /\ q \in Seq(Seq(Byte))
    /\ Rest(in, 1) = FlattenSeq(q) \o (<<"e">> \o t)
    /\ Len(in) >= Len(FlattenSeq(q)) + 2

Items(parse, q, s) ==
    /\ s \in Seq(Answers) /\ Len(q) = Len(s)
    /\ \A k \in 1 .. Len(s) : ItemRead(parse, q[k], s[k])

\* bvalue_parse_list takes off a list of items that are each read back.
LEMMA ReadList ==
    ASSUME NEW parse, NEW s, NEW q, Items(parse, q, s), NEW t, NEW in, Holds(in, q, t)
    PROVE  ParseList(parse, in) = [value |-> <<"list", s>>, rest |-> t]
<1> DEFINE m == Len(q)
           R == <<"e">> \o t
<1> t \in Seq(Byte) /\ in \in Seq(Byte) /\ q \in Seq(Seq(Byte))
  BY DEF Holds
<1> s \in Seq(Answers) /\ Len(q) = Len(s)  BY DEF Items
<1>0. m \in Nat  BY LenProperties
<1>1. PICK left : Lefts(left, q)  BY FlattenLeft
<1>2. \A k \in 1 .. m : q[k] \in Seq(Byte) /\ Len(q[k]) >= 2
  BY DEF Items, ItemRead
<1>3. /\ FlattenSeq(q) \in Seq(Byte) /\ m <= Len(FlattenSeq(q))
  <2>1. \A k \in 1 .. Len(q) : Len(q[k]) >= 1
    <3> TAKE k \in 1 .. Len(q)
    <3>1. q[k] \in Seq(Byte) /\ Len(q[k]) >= 2  BY <1>2
    <3>2. Len(q[k]) \in Nat  BY <3>1, LenProperties
    <3> QED  BY <3>1, <3>2
  <2> QED  BY <1>1, <2>1, FlattenLengths
<1>4. R \in Seq(Byte) /\ Rest(in, 1) = FlattenSeq(q) \o R
  BY <1>3, ByteLetters, Bracketed DEF Holds
<1>5. PICK f : /\ ParseList(parse, in)
                    = [value |-> <<"list", f[Len(in)].found>>,
                       rest  |-> f[Len(in)].left]
               /\ f[0] = Turn(<<>>, Rest(in, 1), "loop")
               /\ \A k \in Nat \ {0} : f[k] = ListTurn(parse, f[k - 1])
  BY ListLoop
<1> DEFINE found == [k \in 0 .. m |-> SubSeq(s, 1, k)]
<1>6. found[0] = <<>>
  <2>1. SubSeq(s, 1, 0) = <<>>  BY SubSeqEmpty
  <2> QED  BY <1>0, <2>1
<1>7. found[m] = s
  <2>1. SubSeq(s, 1, Len(s)) = s  BY SubSeqFull
  <2> QED  BY <1>0, <2>1
<1>8. \A k \in 1 .. m : found[k] = Append(found[k - 1], s[k])
  <2> TAKE k \in 1 .. m
  <2>1. k - 1 \in 0 .. m /\ k \in 0 .. m  BY <1>0
  <2>2. SubSeq(s, 1, k) = Append(SubSeq(s, 1, k - 1), s[k])  BY FoundMore
  <2> QED  BY <2>1, <2>2
<1> HIDE DEF found, R
<1>9. f[0] = Turn(found[0], left[0] \o R, "loop")
  BY <1>1, <1>4, <1>5, <1>6 DEF Lefts
<1>10. ASSUME NEW k \in 1 .. Len(q),
              f[k - 1] = Turn(found[k - 1], q[k] \o (left[k] \o R), "loop")
       PROVE  f[k] = Turn(found[k], left[k] \o R, "loop")
  <2>1. k \in Nat \ {0} /\ k \in 0 .. Len(q)  BY <1>0
  <2>2. left[k] \o R \in Seq(Byte)
    <3>1. left[k] \in Seq(Byte)  BY <1>1, <2>1 DEF Lefts
    <3> QED  BY <1>4, <3>1, Joined
  <2>3. ItemRead(parse, q[k], s[k])  BY DEF Items
  <2> DEFINE u == left[k] \o R
  <2>4. ListTurn(parse, Turn(found[k - 1], q[k] \o u, "loop"))
          = Turn(Append(found[k - 1], s[k]), u, "loop")
    <3>1. u \in Seq(Byte)  BY <2>2
    <3> HIDE DEF u
    <3> QED  BY <2>3, <3>1, ListItem
  <2> QED  BY <1>5, <1>8, <1>10, <2>1, <2>4
<1>11. ASSUME f[Len(q)] = Turn(found[Len(q)], R, "loop")
       PROVE  f[Len(q) + 1] = Turn(found[Len(q)], t, "end")
  <2>1. m + 1 \in Nat \ {0} /\ (m + 1) - 1 = m  BY <1>0
  <2>2. f[m + 1] = ListTurn(parse, f[m])  BY <1>5, <2>1
  <2>3. ListTurn(parse, Turn(found[m], R, "loop")) = Turn(found[m], t, "end")
    BY ListEnd DEF R
  <2> QED  BY <1>11, <2>2, <2>3
<1>12. ASSUME NEW k \in Nat \ {0}, f[k - 1] = Turn(found[Len(q)], t, "end")
       PROVE  f[k] = Turn(found[Len(q)], t, "end")
  <2>1. ListTurn(parse, Turn(found[m], t, "end")) = Turn(found[m], t, "end")
    BY ListEnd
  <2> QED  BY <1>5, <1>12, <2>1
<1>13. Len(in) \in Nat /\ Len(in) >= m + 1
  <2>1. Len(in) \in Nat /\ Len(FlattenSeq(q)) \in Nat  BY <1>3, LenProperties
  <2>2. Len(in) >= Len(FlattenSeq(q)) + 2  BY DEF Holds
  <2> HIDE DEF m
  <2> QED  BY ONLY <1>0, <1>3, <2>1, <2>2
<1>14. f[Len(in)] = Turn(found[m], t, "end")
  <2>1. Loops(f, found, q, left, R, t)
    BY <1>9, <1>10, <1>11, <1>12 DEF Loops
  <2>2. R \in Seq(Byte)  BY <1>4
  <2>3. \A n \in Nat : n >= Len(q) + 1 => f[n] = Turn(found[Len(q)], t, "end")
    <3>1. q \in Seq(Seq(Byte))  OBVIOUS
    <3> QED  BY ONLY <1>1, <2>1, <2>2, <3>1, LoopRuns
  <2> QED  BY <1>13, <2>3
<1>15. f[Len(in)].found = s /\ f[Len(in)].left = t  BY <1>7, <1>14 DEF Turn
<1> QED  BY <1>5, <1>15

\* A table of no keys is empty.
LEMMA EmptyTable == \A f : [x \in {} |-> f[x]] = <<>>
OBVIOUS

\* g_strdup keeps a key without a NUL.
LEMMA NoNul ==
    ASSUME NEW s \in Seq(Byte \ {Nul})
    PROVE  CString(s) = s /\ s \in Seq(Byte)
<1> DEFINE nuls == {k \in DOMAIN s : s[k] = Nul}
<1>1. \A k \in DOMAIN s : s[k] \in Byte \ {Nul}  BY LenProperties, ElementOfSeq
<1>2. nuls = {}  BY <1>1
<1> HIDE DEF nuls
<1>3. CString(s) = s  BY <1>2 DEF CString, nuls
<1>4. s \in Seq(Byte)
  <2>1. Byte \ {Nul} \subseteq Byte  OBVIOUS
  <2> QED  BY <2>1, SeqMonotonic
<1> QED  BY <1>3, <1>4

\* e is a key and what it stands for.
EntryRead(parse, e, key, v) ==
    \E a, b : /\ e = a \o b
              /\ key \in Seq(Byte \ {Nul})
              /\ ItemRead(parse, a, <<"string", key>>)
              /\ ItemRead(parse, b, v)

\* An entry is no empty text.
LEMMA EntryIsLong ==
    ASSUME NEW parse, NEW e, NEW key, NEW v, EntryRead(parse, e, key, v)
    PROVE  e \in Seq(Byte) /\ Len(e) >= 1
<1>1. PICK a, b : /\ e = a \o b
                  /\ ItemRead(parse, a, <<"string", key>>)
                  /\ ItemRead(parse, b, v)
  BY DEF EntryRead
<1>2. a \in Seq(Byte) /\ b \in Seq(Byte)  BY <1>1 DEF ItemRead
<1>3. Len(a) >= 2  BY <1>1 DEF ItemRead
<1>4. /\ e \in Seq(Byte) /\ Len(e) = Len(a) + Len(b)
      /\ Len(a) \in Nat /\ Len(b) \in Nat
  BY <1>1, <1>2, Joined
<1> QED  BY <1>3, <1>4

\* A turn of the loop over a dictionary takes off a key and its value,
LEMMA DictItem ==
    ASSUME NEW parse, NEW found, NEW e, NEW key, NEW v,
           EntryRead(parse, e, key, v), NEW u \in Seq(Byte)
    PROVE  DictTurn(parse, Turn(found, e \o u, "loop"))
             = Turn(HashTableInsert(found, key, v), u, "loop")
<1>1. PICK a, b : /\ e = a \o b
                  /\ key \in Seq(Byte \ {Nul})
                  /\ ItemRead(parse, a, <<"string", key>>)
                  /\ ItemRead(parse, b, v)
  BY DEF EntryRead
<1> DEFINE w == b \o u
           c == a \o w
           was == Turn(found, c, "loop")
<1>2. /\ a \in Seq(Byte) /\ Len(a) >= 2 /\ a[1] \in Starts
      /\ \A x \in Seq(Byte) :
            parse[a \o x] = [value |-> <<"string", key>>, rest |-> x]
  BY <1>1 DEF ItemRead
<1>3. /\ b \in Seq(Byte)
      /\ \A x \in Seq(Byte) : parse[b \o x] = [value |-> v, rest |-> x]
  BY <1>1 DEF ItemRead
<1>4. w \in Seq(Byte)  BY <1>3, Joined
<1>5. parse[w] = [value |-> v, rest |-> u]  BY <1>3
<1> HIDE DEF w
<1>6. ~AtEnd(c) /\ parse[c] = [value |-> <<"string", key>>, rest |-> w]
  BY <1>2, <1>4, NotAtEnd
<1>7. e \o u = c
  <2>1. a \in Seq(Byte) /\ b \in Seq(Byte)  BY <1>2, <1>3
  <2> QED  BY <1>1, <2>1, Grouped DEF w
<1> HIDE DEF c
<1>8. was.left = c /\ was.found = found /\ was.at = "loop"  BY DEF Turn
<1> HIDE DEF was
<1>9. /\ parse[was.left].value = <<"string", key>>
      /\ parse[was.left].rest = w
  BY <1>6, <1>8
<1>10. parse[was.left].value[1] = "string" /\ parse[was.left].value[2] = key
  BY <1>9
<1>11. parse[w].value = v /\ parse[w].rest = u  BY <1>5
<1>12. CString(key) = key  BY <1>1, NoNul
<1>13. DictTurn(parse, was) = Turn(HashTableInsert(found, key, v), u, "loop")
  BY <1>6, <1>8, <1>9, <1>10, <1>11, <1>12 DEF DictTurn
<1> QED  BY <1>7, <1>13 DEF was

\* or its end, after which nothing changes.
LEMMA DictEnd ==
    ASSUME NEW parse, NEW found, NEW u \in Seq(Byte)
    PROVE  /\ DictTurn(parse, Turn(found, <<"e">> \o u, "loop"))
                = Turn(found, u, "end")
           /\ DictTurn(parse, Turn(found, u, "end")) = Turn(found, u, "end")
<1> DEFINE c == <<"e">> \o u
<1>1. AtEnd(c) /\ Rest(c, 1) = u  BY EndFound
<1> HIDE DEF c
<1>2. DictTurn(parse, Turn(found, c, "loop")) = Turn(found, u, "end")
  BY <1>1 DEF DictTurn, Turn
<1>3. DictTurn(parse, Turn(found, u, "end")) = Turn(found, u, "end")
  BY DEF DictTurn, Turn
<1> QED  BY <1>2, <1>3 DEF c

Entries(parse, q, keys, table) ==
    /\ table = [x \in DOMAIN table |-> table[x]]
    /\ DOMAIN table = {keys[k] : k \in 1 .. Len(q)}
    /\ \A k \in 1 .. Len(q) :
          EntryRead(parse, q[k], keys[k], table[keys[k]])

\* bvalue_parse_dict takes off a dictionary, its entries in any order.
LEMMA ReadDict ==
    ASSUME NEW parse, NEW table, NEW q, NEW keys,
           Entries(parse, q, keys, table),
           NEW t, NEW in, Holds(in, q, t)
    PROVE  ParseDict(parse, in) = [value |-> <<"dict", table>>, rest |-> t]
<1> DEFINE m == Len(q)
           R == <<"e">> \o t
<1> t \in Seq(Byte) /\ in \in Seq(Byte) /\ q \in Seq(Seq(Byte))
  BY DEF Holds
<1>0. m \in Nat  BY LenProperties
<1>1. PICK left : Lefts(left, q)  BY FlattenLeft
<1>2. \A k \in 1 .. Len(q) : Len(q[k]) >= 1
  BY EntryIsLong DEF Entries
<1>3. /\ FlattenSeq(q) \in Seq(Byte) /\ m <= Len(FlattenSeq(q))
  BY <1>1, <1>2, FlattenLengths
<1>4. R \in Seq(Byte) /\ Rest(in, 1) = FlattenSeq(q) \o R
  BY <1>3, ByteLetters, Bracketed DEF Holds
<1>5. PICK f : /\ ParseDict(parse, in)
                    = [value |-> <<"dict", f[Len(in)].found>>,
                       rest  |-> f[Len(in)].left]
               /\ f[0] = Turn(<<>>, Rest(in, 1), "loop")
               /\ \A k \in Nat \ {0} : f[k] = DictTurn(parse, f[k - 1])
  BY ONLY DictLoop
<1> DEFINE K(k) == {keys[i] : i \in 1 .. k}
           found == [k \in 0 .. m |-> [x \in K(k) |-> table[x]]]
<1>6. found[0] = <<>>
  <2>1. K(0) = {}  OBVIOUS
  <2>2. [x \in {} |-> table[x]] = <<>>  BY EmptyTable
  <2>3. found[0] = [x \in K(0) |-> table[x]]  BY <1>0
  <2> QED  BY <2>1, <2>2, <2>3
<1>7. found[m] = table
  <2>1. K(m) = DOMAIN table /\ table = [x \in DOMAIN table |-> table[x]]
    BY DEF Entries
  <2>2. found[m] = [x \in K(m) |-> table[x]]  BY <1>0
  <2> QED  BY <2>1, <2>2
<1>8. \A k \in 1 .. m :
         found[k] = HashTableInsert(found[k - 1], keys[k], table[keys[k]])
  <2> TAKE k \in 1 .. m
  <2>1. k - 1 \in 0 .. m /\ k \in 0 .. m  BY <1>0
  <2>2. K(k) = K(k - 1) \cup {keys[k]}  BY <1>0
  <2> HIDE DEF K
  <2>3. /\ found[k] = [x \in K(k) |-> table[x]]
        /\ found[k - 1] = [x \in K(k - 1) |-> table[x]]
    BY <2>1
  <2>4. HashTableInsert([x \in K(k - 1) |-> table[x]], keys[k],
                        table[keys[k]])
          = [x \in K(k - 1) \cup {keys[k]} |-> table[x]]
    BY DEF HashTableInsert
  <2> HIDE DEF found
  <2> QED  BY ONLY <2>2, <2>3, <2>4
<1> HIDE DEF found, R
<1>9. f[0] = Turn(found[0], left[0] \o R, "loop")
  BY <1>1, <1>4, <1>5, <1>6 DEF Lefts
<1>10. ASSUME NEW k \in 1 .. Len(q),
              f[k - 1] = Turn(found[k - 1], q[k] \o (left[k] \o R), "loop")
       PROVE  f[k] = Turn(found[k], left[k] \o R, "loop")
  <2>1. k \in Nat \ {0} /\ k \in 0 .. Len(q)  BY <1>0
  <2>2. left[k] \o R \in Seq(Byte)
    <3>1. left[k] \in Seq(Byte)  BY <1>1, <2>1 DEF Lefts
    <3> QED  BY <1>4, <3>1, Joined
  <2>3. EntryRead(parse, q[k], keys[k], table[keys[k]])
    BY DEF Entries
  <2> DEFINE u == left[k] \o R
  <2>4. DictTurn(parse, Turn(found[k - 1], q[k] \o u, "loop"))
          = Turn(HashTableInsert(found[k - 1], keys[k], table[keys[k]]), u,
                 "loop")
    <3>1. u \in Seq(Byte)  BY <2>2
    <3> HIDE DEF u
    <3> QED  BY <2>3, <3>1, DictItem
  <2> QED  BY <1>5, <1>8, <1>10, <2>1, <2>4
<1>11. ASSUME f[Len(q)] = Turn(found[Len(q)], R, "loop")
       PROVE  f[Len(q) + 1] = Turn(found[Len(q)], t, "end")
  <2>1. m + 1 \in Nat \ {0} /\ (m + 1) - 1 = m  BY <1>0
  <2>2. f[m + 1] = DictTurn(parse, f[m])  BY <1>5, <2>1
  <2>3. DictTurn(parse, Turn(found[m], R, "loop")) = Turn(found[m], t, "end")
    BY DictEnd DEF R
  <2> QED  BY <1>11, <2>2, <2>3
<1>12. ASSUME NEW k \in Nat \ {0}, f[k - 1] = Turn(found[Len(q)], t, "end")
       PROVE  f[k] = Turn(found[Len(q)], t, "end")
  <2>1. DictTurn(parse, Turn(found[m], t, "end")) = Turn(found[m], t, "end")
    BY DictEnd
  <2> QED  BY <1>5, <1>12, <2>1
<1>13. Len(in) \in Nat /\ Len(in) >= m + 1
  <2>1. Len(in) \in Nat /\ Len(FlattenSeq(q)) \in Nat  BY <1>3, LenProperties
  <2>2. Len(in) >= Len(FlattenSeq(q)) + 2  BY DEF Holds
  <2> HIDE DEF m
  <2> QED  BY ONLY <1>0, <1>3, <2>1, <2>2
<1>14. f[Len(in)] = Turn(found[m], t, "end")
  <2>1. Loops(f, found, q, left, R, t)
    BY <1>9, <1>10, <1>11, <1>12 DEF Loops
  <2>2. R \in Seq(Byte)  BY <1>4
  <2>3. \A n \in Nat : n >= Len(q) + 1 => f[n] = Turn(found[Len(q)], t, "end")
    <3>1. q \in Seq(Seq(Byte))  OBVIOUS
    <3> QED  BY ONLY <1>1, <2>1, <2>2, <3>1, LoopRuns
  <2> QED  BY <1>13, <2>3
<1>15. f[Len(in)].found = table /\ f[Len(in)].left = t
  BY <1>7, <1>14 DEF Turn
<1> QED  BY <1>5, <1>15

-----------------------------------------------------------------------------
(***************************************************************************)
(* Values                                                                  *)
(***************************************************************************)
LEMMA Recognized ==
    ASSUME NEW parse, NEW in \in Seq(Byte), Len(in) >= 1
    PROVE  /\ in[1] \in DigitSet => ParseWith(parse, in) = ParseString(in)
           /\ in[1] = "i" => ParseWith(parse, in) = ParseInt(in)
           /\ in[1] = "l" => ParseWith(parse, in) = ParseList(parse, in)
           /\ in[1] = "d" => ParseWith(parse, in) = ParseDict(parse, in)
<1>1. in # <<>> /\ Head(in) = in[1]
  <2>1. in # <<>>  BY EmptySeq
  <2> QED  BY <2>1
<1>2. ~IsDigit("i") /\ ~IsDigit("l") /\ ~IsDigit("d")
  BY DEF IsDigit, Digit
<1>3. CASE in[1] \in DigitSet
  <2>1. IsDigit(Head(in)) /\ in[1] \notin {"i", "l", "d"}
    BY <1>1, <1>3, DigitApart
  <2> QED  BY <1>1, <2>1 DEF ParseWith
<1>4. CASE in[1] = "i"
  <2>1. in[1] \notin DigitSet  BY <1>2, <1>4, DigitApart
  <2> QED  BY <1>1, <1>2, <1>4, <2>1 DEF ParseWith
<1>5. CASE in[1] = "l"
  <2>1. in[1] \notin DigitSet  BY <1>2, <1>5, DigitApart
  <2> QED  BY <1>1, <1>2, <1>5, <2>1 DEF ParseWith
<1>6. CASE in[1] = "d"
  <2>1. in[1] \notin DigitSet  BY <1>2, <1>6, DigitApart
  <2> QED  BY <1>1, <1>2, <1>6, <2>1 DEF ParseWith
<1> QED  BY <1>3, <1>4, <1>5, <1>6

\* One level of the recursion.
LEMMA ReadsIf ==
    ASSUME NEW b \in Seq(Byte), NEW v, Len(b) >= 2, b[1] \in Starts,
           \A n \in Nat, t \in Seq(Byte) :
              n + 1 >= Len(b) =>
                  ParseWith(Parsing[n], b \o t) = [value |-> v, rest |-> t]
    PROVE  Reads(b, v)
<1>1. Len(b) \in Nat  BY LenProperties
<1>2. ASSUME NEW n \in Nat, NEW t \in Seq(Byte), n >= Len(b)
      PROVE  Parsing[n][b \o t] = [value |-> v, rest |-> t]
  <2>1. n # 0 /\ n - 1 \in Nat /\ (n - 1) + 1 >= Len(b)  BY <1>1, <1>2
  <2>2. b \o t \in Seq(Byte)  BY Joined
  <2>3. Parsing[n][b \o t] = ParseWith(Parsing[n - 1], b \o t)
    BY <2>1, <2>2, ParsingDef
  <2>4. ParseWith(Parsing[n - 1], b \o t) = [value |-> v, rest |-> t]
    BY <2>1
  <2> QED  BY <2>3, <2>4
<1> QED  BY <1>2 DEF Reads

\* A text starts with its first byte, whatever follows.
LEMMA Headed ==
    ASSUME NEW b \in Seq(Byte), NEW t \in Seq(Byte), Len(b) >= 2
    PROVE  b \o t \in Seq(Byte) /\ Len(b \o t) >= 1 /\ (b \o t)[1] = b[1]
<1>1. /\ b \o t \in Seq(Byte) /\ Len(b) \in Nat /\ Len(t) \in Nat
      /\ Len(b \o t) = Len(b) + Len(t)
      /\ Len(b) >= 1 => (b \o t)[1] = b[1]
  BY Joined
<1>2. Len(b) >= 1 /\ Len(b \o t) >= 1  BY <1>1
<1> QED  BY <1>1, <1>2

\* A string is read back,
LEMMA ReadsString ==
    ASSUME NEW s \in Seq(Byte)
    PROVE  Reads(EncodeString(s), <<"string", s>>)
<1> DEFINE b == EncodeString(s)
<1>1. b \in Seq(Byte) /\ Len(b) >= 2 /\ b[1] \in DigitSet
  <2>1. <<>> \in Seq(Byte)  BY EmptySeq
  <2> QED  BY <2>1, ReadString
<1>2. ASSUME NEW n \in Nat, NEW t \in Seq(Byte)
      PROVE  ParseWith(Parsing[n], b \o t)
               = [value |-> <<"string", s>>, rest |-> t]
  <2>1. b \o t \in Seq(Byte) /\ Len(b \o t) >= 1 /\ (b \o t)[1] \in DigitSet
    <3> HIDE DEF b
    <3> QED  BY <1>1, Headed
  <2>2. ParseString(b \o t) = [value |-> <<"string", s>>, rest |-> t]
    BY ReadString
  <2> HIDE DEF b
  <2> QED  BY <2>1, <2>2, Recognized
<1>3. b[1] \in Starts  BY <1>1 DEF Starts
<1> HIDE DEF b
<1>4. Reads(b, <<"string", s>>)  BY <1>1, <1>2, <1>3, ReadsIf
<1> QED  BY <1>4 DEF b

\* and so is a number.
LEMMA ReadsInt ==
    ASSUME NEW i \in Int
    PROVE  Reads(EncodeInt(i), <<"int", i>>)
<1> DEFINE b == EncodeInt(i)
<1>1. b \in Seq(Byte) /\ Len(b) >= 2 /\ b[1] = "i"
  <2>1. <<>> \in Seq(Byte)  BY EmptySeq
  <2> QED  BY <2>1, ReadInt
<1>2. ASSUME NEW n \in Nat, NEW t \in Seq(Byte)
      PROVE  ParseWith(Parsing[n], b \o t)
               = [value |-> <<"int", i>>, rest |-> t]
  <2>1. b \o t \in Seq(Byte) /\ Len(b \o t) >= 1 /\ (b \o t)[1] = "i"
    <3> HIDE DEF b
    <3> QED  BY <1>1, Headed
  <2>2. ParseInt(b \o t) = [value |-> <<"int", i>>, rest |-> t]
    BY ReadInt
  <2> HIDE DEF b
  <2> QED  BY <2>1, <2>2, Recognized
<1>3. b[1] \in Starts  BY <1>1 DEF Starts
<1> HIDE DEF b
<1>4. Reads(b, <<"int", i>>)  BY <1>1, <1>2, <1>3, ReadsIf
<1> QED  BY <1>4 DEF b

\* The text of a list and of a dictionary, q being those of its items.
ListText(v, s, q) ==
    /\ v = <<"list", s>> /\ s \in Seq(Answers)
    /\ q \in Seq(Seq(Byte)) /\ Len(q) = Len(s)
    /\ \A k \in 1 .. Len(q) : s[k] \in Answers /\ q[k] = Text[s[k]]
    /\ Text[v] = (<<"l">> \o FlattenSeq(q)) \o <<"e">>

DictText(v, table, keys, q) ==
    /\ v = <<"dict", table>> /\ table = [x \in DOMAIN table |-> table[x]]
    /\ q \in Seq(Seq(Byte))
    /\ DOMAIN table = {keys[k] : k \in 1 .. Len(q)}
    /\ \A k \in 1 .. Len(q) :
          /\ keys[k] \in Seq(Byte \ {Nul}) /\ table[keys[k]] \in Answers
          /\ q[k] = EncodeString(keys[k]) \o Text[table[keys[k]]]
    /\ Text[v] = (<<"d">> \o FlattenSeq(q)) \o <<"e">>

\* Every value is written in bytes.
LEMMA TextIsBytes == \A v \in Answers : Text[v] \in Seq(Byte)
BY TextAssumption

\* An order of a set has all of its members.
LEMMA AllKeys ==
    ASSUME NEW K, IsFiniteSet(K), NEW keys \in SetToSeqs(K)
    PROVE  /\ keys \in Seq(K)
           /\ K = {keys[k] : k \in 1 .. Len(keys)}
<1> DEFINE n == Cardinality(K)
<1>1. n \in Nat  BY FS_CardinalityType
<1>2. /\ keys \in [1 .. n -> K]
      /\ \A i, j \in 1 .. n : i # j => keys[i] # keys[j]
  BY DEF SetToSeqs
<1> HIDE DEF n
<1>3. keys \in Injection(1 .. n, K)
  BY <1>2 DEF Injection, IsInjective
<1>4. Cardinality(1 .. n) = n  BY <1>1, FS_Interval
<1>5. keys \in Surjection(1 .. n, K)  BY <1>3, <1>4, FS_Injection DEF n
<1>6. \A x \in K : \E k \in 1 .. n : keys[k] = x  BY <1>5 DEF Surjection
<1>7. keys \in Seq(K) /\ Len(keys) = n
  BY <1>1, <1>2
<1> QED  BY <1>2, <1>6, <1>7

\* What a value can be, and how it is written then.
LEMMA AnswerCases ==
    ASSUME NEW v \in Answers
    PROVE  \/ \E s \in Seq(Byte) :
                 v = <<"string", s>> /\ Text[v] = EncodeString(s)
           \/ \E i \in Int : v = <<"int", i>> /\ Text[v] = EncodeInt(i)
           \/ \E s, q : ListText(v, s, q)
           \/ \E table, keys, q : DictText(v, table, keys, q)
<1>1. Text[v] \in Encodings(Text, v)  BY TextAssumption
<1>2. CASE v \in {"string"} \X Seq(Byte)
  <2>1. v = <<"string", v[2]>> /\ v[1] = "string" /\ v[2] \in Seq(Byte)
    BY <1>2
  <2>2. Text[v] = EncodeString(v[2])  BY <1>1, <2>1 DEF Encodings
  <2> QED  BY <2>1, <2>2
<1>3. CASE v \in {"int"} \X Int
  <2>1. v = <<"int", v[2]>> /\ v[1] = "int" /\ v[2] \in Int
    BY <1>3
  <2>2. Text[v] = EncodeInt(v[2])  BY <1>1, <2>1 DEF Encodings
  <2> QED  BY <2>1, <2>2
<1>4. CASE v \in {"list"} \X Seq(Answers)
  <2>1. v = <<"list", v[2]>> /\ v[1] = "list" /\ v[2] \in Seq(Answers)
    BY <1>4
  <2> DEFINE s == v[2]
             q == [k \in DOMAIN s |-> Text[s[k]]]
  <2>2. Text[v] = EncodeList(Text, s)  BY <1>1, <2>1 DEF Encodings
  <2>3. /\ s \in Seq(Answers) /\ Len(s) \in Nat /\ DOMAIN s = 1 .. Len(s)
        /\ \A k \in 1 .. Len(s) : s[k] \in Answers
    <3> HIDE DEF s
    <3>1. s \in Seq(Answers)  BY <2>1 DEF s
    <3> QED  BY <3>1, LenProperties, ElementOfSeq
  <2>4. Text[v] = (<<"l">> \o FlattenSeq(q)) \o <<"e">>
    BY <2>2 DEF EncodeList
  <2>5. v = <<"list", s>>  BY <2>1
  <2> HIDE DEF s
  <2>6. /\ q \in Seq(Seq(Byte)) /\ Len(q) = Len(s)
        /\ \A k \in 1 .. Len(q) : s[k] \in Answers /\ q[k] = Text[s[k]]
    BY <2>3, TextIsBytes
  <2> HIDE DEF q
  <2>7. ListText(v, s, q)  BY <2>3, <2>4, <2>5, <2>6 DEF ListText
  <2> QED  BY <2>7
<1>5. CASE /\ v = <<"dict", v[2]>>
           /\ IsFiniteSet(DOMAIN v[2])
           /\ v[2] \in [DOMAIN v[2] -> Answers]
           /\ DOMAIN v[2] \subseteq Seq(Byte \ {Nul})
  <2> DEFINE f == v[2]
  <2>1. v[1] = "dict"  BY <1>5
  <2>2. PICK keys \in SetToSeqs(DOMAIN f) : Text[v] = EncodeDict(Text, f, keys)
    BY <1>1, <2>1 DEF Encodings
  <2> DEFINE q == [k \in DOMAIN keys |->
                      EncodeString(keys[k]) \o Text[f[keys[k]]]]
  <2>3. Text[v] = (<<"d">> \o FlattenSeq(q)) \o <<"e">>
    BY <2>2 DEF EncodeDict
  <2>4. /\ v = <<"dict", f>> /\ f = [x \in DOMAIN f |-> f[x]]
        /\ IsFiniteSet(DOMAIN f)
        /\ \A x \in DOMAIN f : f[x] \in Answers /\ x \in Seq(Byte \ {Nul})
    BY <1>5
  <2> HIDE DEF f
  <2>5. /\ keys \in Seq(DOMAIN f)
        /\ DOMAIN f = {keys[k] : k \in 1 .. Len(keys)}
    <3> DEFINE K == DOMAIN f
    <3>1. IsFiniteSet(K) /\ keys \in SetToSeqs(K)  BY <2>4
    <3> HIDE DEF K
    <3>2. keys \in Seq(K) /\ K = {keys[k] : k \in 1 .. Len(keys)}
      BY ONLY <3>1, AllKeys
    <3> QED  BY <3>2 DEF K
  <2>6. Len(keys) \in Nat /\ DOMAIN keys = 1 .. Len(keys)
    BY <2>5, LenProperties
  <2>7. \A k \in 1 .. Len(keys) :
           /\ keys[k] \in Seq(Byte \ {Nul}) /\ f[keys[k]] \in Answers
    BY <2>4, <2>5
  <2>8. \A k \in 1 .. Len(keys) :
           EncodeString(keys[k]) \o Text[f[keys[k]]] \in Seq(Byte)
    <3> TAKE k \in 1 .. Len(keys)
    <3>1. keys[k] \in Seq(Byte)  BY <2>7, NoNul
    <3>2. EncodeString(keys[k]) \in Seq(Byte)  BY <3>1, ReadsString DEF Reads
    <3>3. Text[f[keys[k]]] \in Seq(Byte)  BY <2>7, TextIsBytes
    <3> QED  BY <3>2, <3>3, Joined
  <2>9. /\ q \in Seq(Seq(Byte)) /\ Len(q) = Len(keys)
        /\ \A k \in 1 .. Len(q) :
              q[k] = EncodeString(keys[k]) \o Text[f[keys[k]]]
    BY <2>6, <2>8
  <2> HIDE DEF q
  <2>10. DictText(v, f, keys, q)
    BY <2>3, <2>4, <2>5, <2>7, <2>9 DEF DictText
  <2> QED  BY <2>10
<1> QED  BY <1>2, <1>3, <1>4, <1>5, AnswersAssumption

\* A text starts as bencode does and has two bytes at least.
LEMMA TextShape ==
    ASSUME NEW v \in Answers
    PROVE  /\ Text[v] \in Seq(Byte) /\ Len(Text[v]) >= 2
           /\ Text[v][1] \in Starts /\ v # NULL
<1>0. Text[v] \in Seq(Byte)  BY TextIsBytes
<1>1. ASSUME NEW s \in Seq(Byte), v = <<"string", s>>,
             Text[v] = EncodeString(s)
      PROVE  Len(Text[v]) >= 2 /\ Text[v][1] \in Starts /\ v # NULL
  <2>1. v[1] = "string"  BY <1>1
  <2> QED  BY <1>1, <2>1, ReadsString DEF Reads, NULL
<1>2. ASSUME NEW i \in Int, v = <<"int", i>>, Text[v] = EncodeInt(i)
      PROVE  Len(Text[v]) >= 2 /\ Text[v][1] \in Starts /\ v # NULL
  <2>1. v[1] = "int"  BY <1>2
  <2> QED  BY <1>2, <2>1, ReadsInt DEF Reads, NULL
<1>3. ASSUME NEW q \in Seq(Seq(Byte)), NEW c \in {"l", "d"},
             Text[v] = (<<c>> \o FlattenSeq(q)) \o <<"e">>
      PROVE  Len(Text[v]) >= 2 /\ Text[v][1] \in Starts
  <2>1. PICK left : Lefts(left, q)  BY FlattenLeft
  <2>2. Len(q) \in Nat  BY LenProperties
  <2>3. 0 \in 0 .. Len(q)  BY <2>2
  <2>4. FlattenSeq(q) \in Seq(Byte)  BY <2>1, <2>3 DEF Lefts
  <2> DEFINE F == FlattenSeq(q)
  <2>5. F \in Seq(Byte) /\ <<>> \in Seq(Byte) /\ c \in Byte
    BY <2>4, EmptySeq, ByteLetters
  <2>6. Text[v] = (<<c>> \o F) \o <<"e">>  BY <1>3
  <2> HIDE DEF F
  <2>7. Len(Text[v]) = Len(F) + 2 /\ Text[v][1] = c
    BY <2>5, <2>6, Bracketed
  <2>8. Len(F) \in Nat  BY <2>5, LenProperties
  <2> QED  BY <2>7, <2>8 DEF Starts
<1>4. ASSUME NEW s, NEW q, ListText(v, s, q)
      PROVE  Len(Text[v]) >= 2 /\ Text[v][1] \in Starts /\ v # NULL
  <2>1. v[1] = "list"  BY <1>4 DEF ListText
  <2>2. v # NULL  BY <2>1 DEF NULL
  <2>3. /\ q \in Seq(Seq(Byte))
        /\ Text[v] = (<<"l">> \o FlattenSeq(q)) \o <<"e">>
    BY <1>4 DEF ListText
  <2> QED  BY <1>3, <2>2, <2>3
<1>5. ASSUME NEW table, NEW keys, NEW q, DictText(v, table, keys, q)
      PROVE  Len(Text[v]) >= 2 /\ Text[v][1] \in Starts /\ v # NULL
  <2>1. v[1] = "dict"  BY <1>5 DEF DictText
  <2>2. v # NULL  BY <2>1 DEF NULL
  <2>3. /\ q \in Seq(Seq(Byte))
        /\ Text[v] = (<<"d">> \o FlattenSeq(q)) \o <<"e">>
    BY <1>5 DEF DictText
  <2> QED  BY <1>3, <2>2, <2>3
<1> QED  BY <1>0, <1>1, <1>2, <1>4, <1>5, AnswerCases

\* What is read back is read back in a list, too.
LEMMA ItemOf ==
    ASSUME NEW b, NEW v, Reads(b, v), v # NULL,
           NEW n \in Nat, n >= Len(b)
    PROVE  ItemRead(Parsing[n], b, v)
BY DEF Reads, ItemRead

\* The texts of the components are shorter, and given that those are read, so
\* is the whole.
LEMMA ReadsList ==
    ASSUME NEW v \in Answers, NEW s, NEW q, ListText(v, s, q),
           \A w \in Answers :
               Len(Text[w]) < Len(Text[v]) => Reads(Text[w], w)
    PROVE  Reads(Text[v], v)
<1>1. /\ v = <<"list", s>> /\ s \in Seq(Answers)
      /\ q \in Seq(Seq(Byte)) /\ Len(q) = Len(s)
      /\ \A k \in 1 .. Len(q) : s[k] \in Answers /\ q[k] = Text[s[k]]
      /\ Text[v] = (<<"l">> \o FlattenSeq(q)) \o <<"e">>
  BY DEF ListText
<1> DEFINE F == FlattenSeq(q)
           b == (<<"l">> \o F) \o <<"e">>
<1>2. PICK left : Lefts(left, q)  BY <1>1, FlattenLeft
<1>3. \A k \in 1 .. Len(q) : Len(q[k]) >= 1 /\ Len(q[k]) \in Nat
  <2> TAKE k \in 1 .. Len(q)
  <2>1. q[k] \in Seq(Byte) /\ Len(q[k]) >= 2  BY <1>1, TextShape
  <2>2. Len(q[k]) \in Nat  BY <2>1, LenProperties
  <2> QED  BY <2>1, <2>2
<1>4. /\ F \in Seq(Byte)
      /\ \A k \in 1 .. Len(q) : Len(q[k]) <= Len(F)
  BY <1>1, <1>2, <1>3, FlattenLengths
<1>5. Len(F) \in Nat  BY <1>4, LenProperties
<1> HIDE DEF F
<1>6. /\ b \in Seq(Byte) /\ Len(b) = Len(F) + 2 /\ b[1] = "l"
  <2>1. <<>> \in Seq(Byte)  BY EmptySeq
  <2> QED  BY <1>4, <2>1, ByteLetters, Bracketed
<1>7. Text[v] = b  BY <1>1 DEF F
<1> HIDE DEF b
<1>8. ASSUME NEW n \in Nat, NEW t \in Seq(Byte), n + 1 >= Len(b)
      PROVE  ParseWith(Parsing[n], b \o t) = [value |-> v, rest |-> t]
  <2>1. \A k \in 1 .. Len(s) : ItemRead(Parsing[n], q[k], s[k])
    <3> TAKE k \in 1 .. Len(s)
    <3>1. s[k] \in Answers /\ q[k] = Text[s[k]]  BY <1>1
    <3>2. Len(q[k]) <= Len(F) /\ Len(q[k]) \in Nat  BY <1>1, <1>3, <1>4
    <3>3. Len(q[k]) < Len(Text[v]) /\ Len(q[k]) <= n
      BY <1>5, <1>6, <1>7, <1>8, <3>2
    <3>4. Reads(q[k], s[k])  BY <3>1, <3>3
    <3>5. s[k] # NULL  BY <3>1, TextShape
    <3> QED  BY <3>3, <3>4, <3>5, ItemOf
  <2> DEFINE in == b \o t
  <2>2. /\ in \in Seq(Byte) /\ Len(in) >= 1 /\ in[1] = "l"
    <3>1. Len(b) >= 2  BY <1>5, <1>6
    <3> QED  BY <1>6, <3>1, Headed
  <2>3. /\ Rest(in, 1) = F \o (<<"e">> \o t)
        /\ Len(in) >= Len(F) + 2
    <3>1. F \in Seq(Byte) /\ "l" \in Byte /\ t \in Seq(Byte)
      BY <1>4, ByteLetters
    <3>2. /\ Rest(((<<"l">> \o F) \o <<"e">>) \o t, 1) = F \o (<<"e">> \o t)
          /\ Len(((<<"l">> \o F) \o <<"e">>) \o t) >= Len(F) + 2
      BY ONLY <3>1, Bracketed
    <3> QED  BY <3>2 DEF b
  <2> HIDE DEF in
  <2>4. ParseList(Parsing[n], in) = [value |-> <<"list", s>>, rest |-> t]
    <3>1. /\ s \in Seq(Answers) /\ q \in Seq(Seq(Byte)) /\ Len(q) = Len(s)
      BY <1>1
    <3>2. in \in Seq(Byte)  BY <2>2
    <3>3. /\ Rest(in, 1) = FlattenSeq(q) \o (<<"e">> \o t)
          /\ Len(in) >= Len(FlattenSeq(q)) + 2
      BY <2>3 DEF F
    <3>4. t \in Seq(Byte)  OBVIOUS
    <3>5. Items(Parsing[n], q, s)  BY <2>1, <3>1 DEF Items
    <3>6. Holds(in, q, t)  BY <3>1, <3>2, <3>3, <3>4 DEF Holds
    <3> QED  BY ONLY <3>5, <3>6, ReadList
  <2>5. ParseWith(Parsing[n], in) = ParseList(Parsing[n], in)
    BY <2>2, Recognized
  <2> QED  BY <1>1, <2>4, <2>5 DEF in
<1>9. Len(b) >= 2 /\ b[1] \in Starts  BY <1>5, <1>6 DEF Starts
<1>10. Reads(b, v)  BY <1>6, <1>8, <1>9, ReadsIf
<1> QED  BY <1>7, <1>10

\* A dictionary is read back if all shorter texts are.
LEMMA ReadsDict ==
    ASSUME NEW v \in Answers, NEW table, NEW keys, NEW q,
           DictText(v, table, keys, q),
           \A w \in Answers :
               Len(Text[w]) < Len(Text[v]) => Reads(Text[w], w)
    PROVE  Reads(Text[v], v)
<1>1. /\ v = <<"dict", table>>
      /\ q \in Seq(Seq(Byte))
      /\ \A k \in 1 .. Len(q) :
            /\ keys[k] \in Seq(Byte \ {Nul}) /\ table[keys[k]] \in Answers
            /\ q[k] = EncodeString(keys[k]) \o Text[table[keys[k]]]
      /\ Text[v] = (<<"d">> \o FlattenSeq(q)) \o <<"e">>
  BY DEF DictText
<1> DEFINE F == FlattenSeq(q)
           b == (<<"d">> \o F) \o <<"e">>
           A(k) == EncodeString(keys[k])
           B(k) == Text[table[keys[k]]]
<1>2. PICK left : Lefts(left, q)  BY <1>1, FlattenLeft
<1>3. \A k \in 1 .. Len(q) :
         /\ A(k) \in Seq(Byte) /\ B(k) \in Seq(Byte) /\ q[k] = A(k) \o B(k)
         /\ Reads(A(k), <<"string", keys[k]>>)
         /\ Len(A(k)) >= 2 /\ Len(A(k)) \in Nat /\ Len(B(k)) \in Nat
         /\ Len(q[k]) = Len(A(k)) + Len(B(k))
         /\ table[keys[k]] # NULL
  <2> TAKE k \in 1 .. Len(q)
  <2>1. keys[k] \in Seq(Byte)  BY <1>1, NoNul
  <2>2. Reads(A(k), <<"string", keys[k]>>)  BY <2>1, ReadsString
  <2>3. B(k) \in Seq(Byte) /\ table[keys[k]] # NULL  BY <1>1, TextShape
  <2>4. q[k] = A(k) \o B(k)  BY <1>1
  <2> HIDE DEF A, B
  <2>5. A(k) \in Seq(Byte) /\ Len(A(k)) >= 2  BY <2>2 DEF Reads
  <2>6. /\ Len(A(k)) \in Nat /\ Len(B(k)) \in Nat
        /\ Len(A(k) \o B(k)) = Len(A(k)) + Len(B(k))
    BY <2>3, <2>5, Joined
  <2> QED  BY <2>2, <2>3, <2>4, <2>5, <2>6
<1> HIDE DEF A, B
<1>4. \A k \in 1 .. Len(q) : Len(q[k]) >= 1
  <2> TAKE k \in 1 .. Len(q)
  <2>1. /\ Len(A(k)) >= 2 /\ Len(A(k)) \in Nat /\ Len(B(k)) \in Nat
        /\ Len(q[k]) = Len(A(k)) + Len(B(k))
    BY <1>3
  <2> QED  BY <2>1
<1>5. /\ F \in Seq(Byte)
      /\ \A k \in 1 .. Len(q) : Len(q[k]) <= Len(F)
  BY <1>1, <1>2, <1>4, FlattenLengths
<1>6. Len(F) \in Nat  BY <1>5, LenProperties
<1> HIDE DEF F
<1>7. /\ b \in Seq(Byte) /\ Len(b) = Len(F) + 2 /\ b[1] = "d"
  <2>1. <<>> \in Seq(Byte)  BY EmptySeq
  <2> QED  BY <1>5, <2>1, ByteLetters, Bracketed
<1>8. Text[v] = b  BY <1>1 DEF F
<1> HIDE DEF b
<1>9. ASSUME NEW n \in Nat, NEW t \in Seq(Byte), n + 1 >= Len(b)
      PROVE  ParseWith(Parsing[n], b \o t) = [value |-> v, rest |-> t]
  <2>1. \A k \in 1 .. Len(q) :
           EntryRead(Parsing[n], q[k], keys[k], table[keys[k]])
    <3> TAKE k \in 1 .. Len(q)
    <3>1. /\ Len(A(k)) >= 2 /\ Len(A(k)) \in Nat /\ Len(B(k)) \in Nat
          /\ Len(q[k]) = Len(A(k)) + Len(B(k))
      BY <1>3
    <3>2. Len(q[k]) <= Len(F)  BY <1>5
    <3>3. Len(A(k)) <= n /\ Len(B(k)) <= n /\ Len(B(k)) < Len(Text[v])
      BY <1>6, <1>7, <1>8, <1>9, <3>1, <3>2
    <3>4. Reads(B(k), table[keys[k]]) /\ table[keys[k]] # NULL
      BY <1>1, <1>3, <3>3 DEF B
    <3>5. ItemRead(Parsing[n], B(k), table[keys[k]])  BY <3>3, <3>4, ItemOf
    <3>6. Reads(A(k), <<"string", keys[k]>>)  BY <1>3
    <3>7. <<"string", keys[k]>> # NULL  BY DEF NULL
    <3>8. ItemRead(Parsing[n], A(k), <<"string", keys[k]>>)
      BY <3>3, <3>6, <3>7, ItemOf
    <3>9. q[k] = A(k) \o B(k) /\ keys[k] \in Seq(Byte \ {Nul})
      BY <1>1, <1>3
    <3> QED  BY <3>5, <3>8, <3>9 DEF EntryRead
  <2> DEFINE in == b \o t
  <2>2. /\ in \in Seq(Byte) /\ Len(in) >= 1 /\ in[1] = "d"
    <3>1. Len(b) >= 2  BY <1>6, <1>7
    <3> QED  BY <1>7, <3>1, Headed
  <2>3. /\ Rest(in, 1) = F \o (<<"e">> \o t)
        /\ Len(in) >= Len(F) + 2
    <3>1. F \in Seq(Byte) /\ "d" \in Byte /\ t \in Seq(Byte)
      BY <1>5, ByteLetters
    <3>2. /\ Rest(((<<"d">> \o F) \o <<"e">>) \o t, 1) = F \o (<<"e">> \o t)
          /\ Len(((<<"d">> \o F) \o <<"e">>) \o t) >= Len(F) + 2
      BY ONLY <3>1, Bracketed
    <3> QED  BY <3>2 DEF b
  <2> HIDE DEF in
  <2>4. ParseDict(Parsing[n], in) = [value |-> <<"dict", table>>, rest |-> t]
    <3>1. /\ table = [x \in DOMAIN table |-> table[x]]
          /\ q \in Seq(Seq(Byte))
          /\ DOMAIN table = {keys[k] : k \in 1 .. Len(q)}
      BY DEF DictText
    <3>2. in \in Seq(Byte)  BY <2>2
    <3>3. /\ Rest(in, 1) = FlattenSeq(q) \o (<<"e">> \o t)
          /\ Len(in) >= Len(FlattenSeq(q)) + 2
      BY <2>3 DEF F
    <3>4. t \in Seq(Byte)  OBVIOUS
    <3>5. Entries(Parsing[n], q, keys, table)  BY <2>1, <3>1 DEF Entries
    <3>6. Holds(in, q, t)  BY <3>1, <3>2, <3>3, <3>4 DEF Holds
    <3> QED  BY ONLY <3>5, <3>6, ReadDict
  <2>5. ParseWith(Parsing[n], in) = ParseDict(Parsing[n], in)
    BY <2>2, Recognized
  <2> QED  BY <1>1, <2>4, <2>5 DEF in
<1>10. Len(b) >= 2 /\ b[1] \in Starts  BY <1>6, <1>7 DEF Starts
<1>11. Reads(b, v)  BY <1>7, <1>9, <1>10, ReadsIf
<1> QED  BY <1>8, <1>11

\* Every value is read back, by the length of its text.
LEMMA EveryValue == \A v \in Answers : Reads(Text[v], v)
<1> DEFINE W == {n \in Nat : \E v \in Answers :
                                Len(Text[v]) = n /\ ~Reads(Text[v], v)}
<1>1. \A v \in Answers : Len(Text[v]) \in Nat  BY TextIsBytes, LenProperties
<1>2. W = {}
  <2> SUFFICES ASSUME W # {} PROVE FALSE  OBVIOUS
  <2>1. W \subseteq Nat  OBVIOUS
  <2>2. PICK n \in W : \A i \in W : n <= i
    <3> HIDE DEF W
    <3> QED  BY <2>1, NatMin
  <2>3. PICK v \in Answers : Len(Text[v]) = n /\ ~Reads(Text[v], v)
    BY <2>2
  <2>4. ASSUME NEW w \in Answers, Len(Text[w]) < Len(Text[v])
        PROVE  Reads(Text[w], w)
    <3> SUFFICES ASSUME ~Reads(Text[w], w) PROVE FALSE  OBVIOUS
    <3>1. Len(Text[w]) \in W  BY <1>1
    <3> HIDE DEF W
    <3>2. n <= Len(Text[w]) /\ n \in Nat /\ Len(Text[w]) \in Nat
      BY <1>1, <2>1, <2>2, <3>1
    <3> QED  BY <2>3, <2>4, <3>2
  <2> HIDE DEF W
  <2>5. CASE \E s \in Seq(Byte) :
                v = <<"string", s>> /\ Text[v] = EncodeString(s)
    BY <2>3, <2>5, ReadsString
  <2>6. CASE \E i \in Int : v = <<"int", i>> /\ Text[v] = EncodeInt(i)
    BY <2>3, <2>6, ReadsInt
  <2>7. CASE \E s, q : ListText(v, s, q)
    BY <2>3, <2>4, <2>7, ReadsList
  <2>8. CASE \E table, keys, q : DictText(v, table, keys, q)
    BY <2>3, <2>4, <2>8, ReadsDict
  <2> QED  BY <2>5, <2>6, <2>7, <2>8, AnswerCases
<1> QED  BY <1>1, <1>2

\* A value and what follows it are read back.
LEMMA ParseOf ==
    ASSUME NEW v \in Answers, NEW t \in Seq(Byte)
    PROVE  Parse(Text[v] \o t) = [value |-> v, rest |-> t]
<1> DEFINE b == Text[v]
           in == b \o t
<1>1. b \in Seq(Byte) /\ Reads(b, v)  BY TextIsBytes, EveryValue
<1> HIDE DEF b
<1>2. /\ Len(in) = Len(b) + Len(t)
      /\ Len(b) \in Nat /\ Len(t) \in Nat
  BY <1>1, Joined
<1>3. Len(in) \in Nat /\ Len(in) >= Len(b)  BY <1>2
<1>4. Parsing[Len(in)][in] = [value |-> v, rest |-> t]
  BY <1>1, <1>3 DEF Reads
<1> QED  BY <1>4 DEF Parse, b

-----------------------------------------------------------------------------
(***************************************************************************)
(* Bodies that are no such value                                           *)
(***************************************************************************)
\* A dictionary whose first key is no string is read as an empty one.
LEMMA NoFirstKey ==
    ASSUME NEW parse, NEW in \in Seq(Byte), Len(in) >= 1,
           Len(in) > 2 /\ in[2] # "e" =>
               parse[Rest(in, 1)].value[1] # "string"
    PROVE  ParseDict(parse, in).value = <<"dict", <<>>>>
<1> DEFINE left == Rest(in, 1)
<1>0. Len(in) \in Nat \ {0}  BY LenProperties
<1>1. PICK f : /\ ParseDict(parse, in)
                    = [value |-> <<"dict", f[Len(in)].found>>,
                       rest  |-> f[Len(in)].left]
               /\ f[0] = Turn(<<>>, Rest(in, 1), "loop")
               /\ \A k \in Nat \ {0} : f[k] = DictTurn(parse, f[k - 1])
  BY ONLY DictLoop
<1>2. \E u : f[1] = Turn(<<>>, u, "end")
  <2> DEFINE was == f[0]
  <2>1. was.left = left /\ was.found = <<>> /\ was.at = "loop"
    BY <1>1 DEF Turn
  <2>2. f[1] = DictTurn(parse, was)
    <3>1. 1 \in Nat \ {0} /\ 1 - 1 = 0  OBVIOUS
    <3> QED  BY <1>1, <3>1
  <2> HIDE DEF was
  <2>3. CASE AtEnd(left)
    <3>1. DictTurn(parse, was) = Turn(<<>>, Rest(left, 1), "end")
      <4> HIDE DEF left
      <4> QED  BY <2>1, <2>3 DEF DictTurn
    <3> QED  BY <2>2, <3>1
  <2>4. CASE ~AtEnd(left)
    <3>1. /\ left \in Seq(Byte) /\ Len(left) = Len(in) - 1
          /\ Len(in) >= 2 => left[1] = in[2]
      <4> DEFINE sub == SubSeq(in, 2, Len(in))
      <4>1. sub = left  BY DEF Rest
      <4>2. \A i \in 2 .. Len(in) : in[i] \in Byte  BY <1>0, ElementOfSeq
      <4>3. /\ sub \in Seq(Byte)
            /\ Len(sub) = IF 2 <= Len(in) THEN Len(in) - 2 + 1 ELSE 0
            /\ \A i \in 1 .. Len(in) - 2 + 1 : sub[i] = in[2 + i - 1]
        BY <1>0, <4>2, SubSeqProperties
      <4> HIDE DEF sub, left
      <4>6. \A m \in Nat \ {0} :
               (IF 2 <= m THEN m - 2 + 1 ELSE 0) = m - 1
        OBVIOUS
      <4>4. Len(sub) = Len(in) - 1  BY <1>0, <4>3, <4>6
      <4>5. Len(in) >= 2 => sub[1] = in[2]
        <5> SUFFICES ASSUME Len(in) >= 2 PROVE sub[1] = in[2]  OBVIOUS
        <5>1. 1 \in 1 .. Len(in) - 2 + 1 /\ 2 + 1 - 1 = 2  BY <1>0
        <5> QED  BY <4>3, <5>1
      <4> QED  BY <4>1, <4>3, <4>4, <4>5
    <3>2. Len(left) > 1 /\ Head(left) # "e"
      <4>1. Len(left) \in Nat  BY <1>0, <3>1
      <4> HIDE DEF left
      <4> QED  BY <2>4, <4>1 DEF AtEnd
    <3>3. Head(left) = left[1]
      <4> HIDE DEF left
      <4> QED  BY <3>1, <3>2
    <3>4. Len(in) > 2 /\ in[2] # "e"
      <4> HIDE DEF left
      <4> QED  BY <1>0, <3>1, <3>2, <3>3
    <3>5. parse[left].value[1] # "string"  BY <3>4
    <3> HIDE DEF left
    <3>6. DictTurn(parse, was) = Turn(<<>>, parse[left].rest, "end")
      BY <2>1, <2>4, <3>5 DEF DictTurn
    <3> QED  BY <2>2, <3>6
  <2> QED  BY <2>3, <2>4
<1>3. PICK u : f[1] = Turn(<<>>, u, "end")  BY <1>2
<1>4. DictTurn(parse, Turn(<<>>, u, "end")) = Turn(<<>>, u, "end")
  BY DEF DictTurn, Turn
<1>5. f[Len(in)] = Turn(<<>>, u, "end")
  <2> DEFINE W == {k \in Nat \ {0} : f[k] # Turn(<<>>, u, "end")}
  <2>0. W = {}
    <3> SUFFICES ASSUME W # {} PROVE FALSE  OBVIOUS
    <3>1. W \subseteq Nat  OBVIOUS
    <3>2. PICK k \in W : \A i \in W : k <= i
      <4> HIDE DEF W
      <4> QED  BY <3>1, NatMin
    <3>3. k \in Nat \ {0} /\ k # 1 /\ f[k] # Turn(<<>>, u, "end")
      BY <1>3
    <3>4. k - 1 \in Nat \ {0} /\ ~(k <= k - 1)  BY <3>3
    <3>5. f[k - 1] = Turn(<<>>, u, "end")  BY <3>2, <3>4
    <3> QED  BY <1>1, <1>4, <3>3, <3>5
  <2> QED  BY <1>0, <2>0
<1>6. f[Len(in)].found = <<>>  BY <1>5 DEF Turn
<1> QED  BY <1>1, <1>6

\* What is read from a body of Others has no entry.
LEMMA NothingRead ==
    ASSUME NEW b \in Others
    PROVE  LET v == Parse(b).value IN v[1] = "dict" => v[2] = <<>>
<1> DEFINE n == Len(b)
           v == Parse(b).value
<1>0. b \in Seq(Byte) /\ (Len(b) > 2 /\ b[1] = "d" => b[2] \in {"e", "i", "l", "d"})
  BY OthersAssumption
<1>1. n \in Nat  BY <1>0, LenProperties
<1>2. CASE n = 0
  <2>1. Parse(b) = [value |-> NULL, rest |-> b]
    BY <1>0, <1>1, <1>2, ParsingDef DEF Parse
  <2>2. v[1] # "dict"  BY <2>1 DEF NULL
  <2> QED  BY <2>2
<1>3. CASE n # 0
  <2> DEFINE parse == Parsing[n - 1]
  <2>1. n - 1 \in Nat /\ n >= 1  BY <1>1, <1>3
  <2>2. Parse(b) = ParseWith(parse, b)
    BY <1>0, <1>1, <1>3, ParsingDef DEF Parse
  <2>3. \A in : ParseString(in).value[1] = "string"  BY DEF ParseString
  <2>4. \A in : ParseInt(in).value[1] = "int"  BY DEF ParseInt
  <2>5. \A p, in : ParseList(p, in).value[1] = "list"  BY DEF ParseList
  <2>6. CASE b[1] \in DigitSet
    <3>1. Parse(b) = ParseString(b)  BY <1>0, <2>1, <2>2, <2>6, Recognized
    <3>2. v[1] # "dict"  BY <2>3, <3>1
    <3> QED  BY <3>2
  <2>7. CASE b[1] = "i"
    <3>1. Parse(b) = ParseInt(b)  BY <1>0, <2>1, <2>2, <2>7, Recognized
    <3>2. v[1] # "dict"  BY <2>4, <3>1
    <3> QED  BY <3>2
  <2>8. CASE b[1] = "l"
    <3>1. Parse(b) = ParseList(parse, b)
      BY <1>0, <2>1, <2>2, <2>8, Recognized
    <3>2. v[1] # "dict"  BY <2>5, <3>1
    <3> QED  BY <3>2
  <2>9. CASE b[1] = "d"
    <3>1. Parse(b) = ParseDict(parse, b)
      BY <1>0, <2>1, <2>2, <2>9, Recognized
    <3>2. ASSUME Len(b) > 2, b[2] # "e"
          PROVE  parse[Rest(b, 1)].value[1] # "string"
      <4> DEFINE c == Rest(b, 1)
      <4>1. /\ c \in Seq(Byte) /\ Len(c) >= 1 /\ c[1] = b[2]
        BY <1>0, <1>1, <3>2 DEF Rest
      <4>2. b[2] \in {"i", "l", "d"}  BY <1>0, <2>9, <3>2
      <4>3. n - 1 # 0 /\ (n - 1) - 1 \in Nat  BY <1>1, <3>2
      <4> HIDE DEF c
      <4>4. parse[c] = ParseWith(Parsing[(n - 1) - 1], c)
        BY <2>1, <4>1, <4>3, ParsingDef
      <4>5. \A p, in : ParseDict(p, in).value[1] = "dict"  BY DEF ParseDict
      <4>6. CASE b[2] = "i"
        <5>1. parse[c] = ParseInt(c)  BY <4>1, <4>4, <4>6, Recognized
        <5> QED  BY <2>4, <5>1 DEF c
      <4>7. CASE b[2] = "l"
        <5>1. parse[c] = ParseList(Parsing[(n - 1) - 1], c)
          BY <4>1, <4>4, <4>7, Recognized
        <5> QED  BY <2>5, <5>1 DEF c
      <4>8. CASE b[2] = "d"
        <5>1. parse[c] = ParseDict(Parsing[(n - 1) - 1], c)
          BY <4>1, <4>4, <4>8, Recognized
        <5> QED  BY <4>5, <5>1 DEF c
      <4> QED  BY <4>2, <4>6, <4>7, <4>8
    <3>3. ParseDict(parse, b).value = <<"dict", <<>>>>
      BY <1>0, <2>1, <3>2, NoFirstKey
    <3>4. v[2] = <<>>  BY <3>1, <3>3
    <3> QED  BY <3>4
  <2>10. CASE b[1] \notin DigitSet \cup {"i", "l", "d"}
    <3>1. b # <<>> /\ Head(b) = b[1]
      <4>1. b # <<>>  BY <1>3, EmptySeq
      <4> QED  BY <1>0, <4>1
    <3>2. ~IsDigit(b[1])  BY <2>10 DEF IsDigit, DigitSet
    <3>3. Parse(b) = [value |-> NULL, rest |-> b]
      BY <2>2, <2>10, <3>1, <3>2 DEF ParseWith
    <3>4. v[1] # "dict"  BY <3>3 DEF NULL
    <3> QED  BY <3>4
  <2> QED  BY <2>6, <2>7, <2>8, <2>9, <2>10
<1> QED  BY <1>2, <1>3

-----------------------------------------------------------------------------
(***************************************************************************)
(* The properties                                                          *)
(***************************************************************************)
\* The body stays what the tracker sent.
Sent ==
    \/ meant \in Answers /\ \E t \in Seq(Byte) : body = Text[meant] \o t
    \/ meant = NULL /\ body \in Others

\* The body does not change,
LEMMA SentStays == Spec => []Sent
<1>1. Init => Sent  BY TrailersAssumption DEF Init, Sent
<1>2. Sent /\ [Next]_vars => Sent'
  BY DEF Sent, Next, OnSendRequest, vars
<1> QED  BY <1>1, <1>2, PTL DEF Spec

\* What the tracker means is what is read, and its bytes are all that is taken
\* off the buffer: bvalue_create_from_buff on any answer, nested to any depth,
\* with any bytes in its strings and anything after it.
THEOREM ReadsBack == Spec => []ReadBack
<1>1. Sent => ReadBack
  <2> SUFFICES ASSUME Sent, meant # NULL
               PROVE  /\ Parse(body).value = meant
                      /\ Text[meant] \o Parse(body).rest = body
    BY DEF ReadBack
  <2>1. PICK t \in Seq(Byte) : body = Text[meant] \o t  BY DEF Sent
  <2>2. meant \in Answers  BY DEF Sent
  <2>3. Parse(body) = [value |-> meant, rest |-> t]  BY <2>1, <2>2, ParseOf
  <2> QED  BY <2>1, <2>3
<1> QED  BY <1>1, SentStays, PTL

\* The addresses that a string is cut into are the string.
LEMMA Rejoined ==
    ASSUME NEW s \in Seq(Byte), Len(s) % 6 = 0
    PROVE  FlattenSeq(Addresses(s)) = s
<1> DEFINE q == Addresses(s)
           n == Len(s) \div 6
<1>1. Len(s) \in Nat /\ n \in Nat /\ Len(s) = 6 * n
  <2>1. Len(s) \in Nat  BY LenProperties
  <2> QED  BY <2>1
<1> HIDE DEF n
<1>2. ASSUME NEW k \in 1 .. n
      PROVE  /\ 6 * k - 5 \in 1 .. Len(s) + 1
             /\ 6 * (k - 1) \in 0 .. Len(s) /\ 6 * k \in 6 * (k - 1) .. Len(s)
             /\ 6 * (k - 1) + 1 = 6 * k - 5 /\ 6 * k \in 0 .. Len(s)
             /\ 6 * k - 5 <= 6 * k
  BY <1>1
<1>3. \A k \in 1 .. n : SubSeq(s, 6 * k - 5, 6 * k) \in Seq(Byte)
  <2> TAKE k \in 1 .. n
  <2>1. \A i \in 6 * k - 5 .. 6 * k : s[i] \in Byte
    <3> TAKE i \in 6 * k - 5 .. 6 * k
    <3>1. i \in 1 .. Len(s)  BY <1>1, <1>2
    <3> QED  BY <3>1, ElementOfSeq
  <2>2. 6 * k - 5 \in Int /\ 6 * k \in Int  BY <1>1
  <2> QED  BY <2>1, <2>2, SubSeqProperties
<1>4. /\ q \in Seq(Seq(Byte)) /\ Len(q) = n
      /\ \A k \in 1 .. n : q[k] = SubSeq(s, 6 * k - 5, 6 * k)
  <2>1. q = [k \in 1 .. n |-> SubSeq(s, 6 * k - 5, 6 * k)]
    BY DEF Addresses, n
  <2> HIDE DEF q
  <2> QED  BY <1>1, <1>3, <2>1
<1> HIDE DEF q
<1>5. PICK h : /\ h[0] = <<>> /\ h[Len(q)] = FlattenSeq(q)
               /\ \A k \in 1 .. Len(q) : h[k] = h[k - 1] \o q[k]
  <2>1. q \in Seq(Seq(Byte))  BY <1>4
  <2> QED  BY ONLY <2>1, FlattenLoop
<1>6. \A k \in 0 .. n : h[k] = SubSeq(s, 1, 6 * k)
  <2> DEFINE W == {k \in 0 .. n : h[k] # SubSeq(s, 1, 6 * k)}
  <2> SUFFICES ASSUME W # {} PROVE FALSE  OBVIOUS
  <2>1. W \subseteq Nat  BY <1>1
  <2>2. PICK k \in W : \A i \in W : k <= i
    <3> HIDE DEF W
    <3> QED  BY <2>1, NatMin
  <2>3. k # 0
    <3>1. SubSeq(s, 1, 6 * 0) = <<>>  BY SubSeqEmpty
    <3> QED  BY <1>5, <3>1
  <2>4. k \in 1 .. n /\ k - 1 \in 0 .. n /\ ~(k <= k - 1)  BY <1>1, <2>3
  <2>5. h[k - 1] = SubSeq(s, 1, 6 * (k - 1))  BY <2>2, <2>4
  <2>6. h[k] = h[k - 1] \o q[k]  BY <1>4, <1>5, <2>4
  <2>7. SubSeq(s, 1, 6 * (k - 1)) \o SubSeq(s, 6 * (k - 1) + 1, 6 * k)
          = SubSeq(s, 1, 6 * k)
    <3> DEFINE a == 6 * (k - 1)
               b == 6 * k
    <3>1. 1 \in 1 .. Len(s) + 1 /\ a \in 1 - 1 .. Len(s) /\ b \in a .. Len(s)
      BY <1>1, <1>2, <2>4
    <3> HIDE DEF a, b
    <3>2. SubSeq(s, 1, a) \o SubSeq(s, a + 1, b) = SubSeq(s, 1, b)
      BY <3>1, ConcatAdjacentSubSeq
    <3> QED  BY <3>2 DEF a, b
  <2>8. SubSeq(s, 6 * (k - 1) + 1, 6 * k) = q[k]  BY <1>2, <1>4, <2>4
  <2>9. h[k] = SubSeq(s, 1, 6 * k)  BY <2>5, <2>6, <2>7, <2>8
  <2> QED  BY <2>9
<1>7. h[n] = SubSeq(s, 1, Len(s))
  <2>1. n \in 0 .. n  BY <1>1
  <2> QED  BY <1>1, <1>6, <2>1
<1>8. SubSeq(s, 1, Len(s)) = s  BY SubSeqFull
<1> QED  BY <1>4, <1>5, <1>7, <1>8 DEF q

\* ... and nothing is reported but the outcome of the body.
Answered == outcome = Awaited \/ outcome = Outcome(status, body)

\* The outcome is that of the body.
LEMMA AnsweredStays == Spec => []Answered
<1>1. Init => Answered  BY DEF Init, Answered
<1>2. Answered /\ [Next]_vars => Answered'
  BY DEF Answered, Next, OnSendRequest, vars
<1> QED  BY <1>1, <1>2, PTL DEF Spec

\* What bencode says of an answer's values.
LEMMA PeersString ==
    ASSUME NEW v \in Answers, v[1] = "dict", PeersKey \in DOMAIN v[2],
           v[2][PeersKey][1] = "string"
    PROVE  v[2][PeersKey][2] \in Seq(Byte)
<1>1. /\ v[2] \in [DOMAIN v[2] -> Answers]
  BY AnswersAssumption
<1> DEFINE w == v[2][PeersKey]
<1>2. w \in Answers  BY <1>1
<1> HIDE DEF w
<1>3. w[1] = "string"  BY DEF w
<1>4. w \in {"string"} \X Seq(Byte)  BY <1>2, <1>3, AnswersAssumption
<1> QED  BY <1>4 DEF w

\* Peers are reported for an answer of 200 whose value lists them in compact
\* form, all of them and in order, and a failure for everything else.
THEOREM Peers == Spec => []PeersReported
<1>1. Sent /\ Answered => PeersReported
  <2> SUFFICES ASSUME Sent, outcome = Outcome(status, body)
               PROVE  IF status = 200 /\ meant # NULL /\ Compact(meant)
                      THEN /\ outcome[1] = "peers"
                           /\ FlattenSeq(outcome[2]) = meant[2][PeersKey][2]
                      ELSE outcome = Failed
    BY DEF PeersReported, Answered
  <2>1. CASE meant \in Answers /\ \E t \in Seq(Byte) : body = Text[meant] \o t
    <3>1. meant # NULL  BY <2>1, TextShape
    <3>2. Parse(body).value = meant
      <4>1. PICK t \in Seq(Byte) : body = Text[meant] \o t  BY <2>1
      <4>2. Parse(body) = [value |-> meant, rest |-> t]
        BY <2>1, <4>1, ParseOf
      <4> QED  BY <4>2
    <3>3. CASE status = 200 /\ Compact(meant)
      <4> DEFINE s == meant[2][PeersKey][2]
      <4>1. s \in Seq(Byte)  BY <2>1, <3>3, PeersString DEF Compact
      <4>2. Len(s) % 6 = 0  BY <3>3 DEF Compact
      <4>3. outcome = <<"peers", Addresses(s)>>
        BY <3>2, <3>3 DEF Outcome, Compact
      <4> HIDE DEF s
      <4>4. FlattenSeq(Addresses(s)) = s  BY <4>1, <4>2, Rejoined
      <4>5. outcome[1] = "peers" /\ outcome[2] = Addresses(s)  BY <4>3
      <4> QED  BY <3>1, <3>3, <4>4, <4>5 DEF s
    <3>4. CASE ~(status = 200 /\ Compact(meant))
      <4>1. outcome = Failed  BY <3>2, <3>4 DEF Outcome, Compact
      <4> QED  BY <3>4, <4>1
    <3> QED  BY <3>3, <3>4
  <2>2. CASE meant = NULL /\ body \in Others
    <3> DEFINE v == Parse(body).value
    <3>1. v[1] = "dict" => v[2] = <<>>  BY <2>2, NothingRead
    <3>2. PeersKey \notin DOMAIN <<>>  OBVIOUS
    <3>3. outcome = Failed  BY <3>1, <3>2 DEF Outcome
    <3> QED  BY <2>2, <3>3
  <2> QED  BY <2>1, <2>2 DEF Sent
<1> QED  BY <1>1, SentStays, AnsweredStays, PTL
=============================================================================
