------------------------ MODULE CounterServiceProofs ------------------------
(***************************************************************************)
(* The server is one counter: BrownianServer implements CounterService,    *)
(* and a client that stops sending is closed only when it has been         *)
(* answered.  The link is Scanned, which reads a client's bytes one at a   *)
(* time: a scan can be cut anywhere and joined again, and what the parser  *)
(* makes of inbuf and a chunk is what a scan makes of them.  The invariant *)
(* then says, of every connection, that inbuf is the line its consumed     *)
(* bytes have begun and that it is owed as many answers as it sent         *)
(* numbers.                                                                *)
(***************************************************************************)
EXTENDS BrownianServerProofs

-----------------------------------------------------------------------------
(* A scan, byte by byte.                                                   *)

LineByte == Byte \ {NL}

\* A line that is a number has digits only.
LEMMA NumberOfLine ==
  ASSUME NEW line \in Seq(LineByte), ~NotANumber(line)
  PROVE  Number(line) \in Nat
<1>1. \A j \in 1..Len(line) : line[j] \in LineByte /\ line[j] # Other
  BY DEF NotANumber, ToSet
<1>2. \A j \in 1..Len(line) : line[j] \in Digit
  BY <1>1 DEF LineByte, Byte
<1>3. \A x \in Digit : x \in Nat
  BY ServerConstants
<1>4. \A j \in 1..Len(line) : line[j] \in Nat
  BY <1>2, <1>3, Zenon
<1>5. Len(line) \in Nat
  OBVIOUS
<1> QED
  BY <1>4, <1>5, NumberType

\* What the line, the fault and the numbers are from one byte to the next.
LineThen(line, b) == IF b = NL THEN <<>> ELSE Append(line, b)
FaultAt(line, b) == b = NL /\ NotANumber(line)
NumberAt(line, bad, b) == IF b = NL /\ ~bad THEN <<Number(line)>> ELSE <<>>
Walks(s, line, bad, numbers) ==
  /\ line \in [0..Len(s) -> Seq(LineByte)] /\ bad \in [0..Len(s) -> BOOLEAN]
  /\ numbers \in [0..Len(s) -> Seq(Nat)]
  /\ line[0] = <<>> /\ bad[0] = FALSE /\ numbers[0] = <<>>
  /\ \A n \in 1..Len(s) :
       /\ line[n] = LineThen(line[n - 1], s[n])
       /\ bad[n] = (bad[n - 1] \/ FaultAt(line[n - 1], s[n]))
       /\ numbers[n] = numbers[n - 1] \o NumberAt(line[n - 1], bad[n], s[n])

\* A scan is a walk over the bytes: the functions inside Scanned satisfy their recurrences.
LEMMA ScanWalks ==
  ASSUME NEW s \in Seq(Byte)
  PROVE  \E line, bad, numbers :
           /\ Walks(s, line, bad, numbers)
           /\ Scanned(s) = [line |-> line[Len(s)], numbers |-> numbers[Len(s)], bad |-> bad[Len(s)]]
<1> DEFINE N == Len(s)
           next(x, n) == IF s[n] = NL THEN <<>> ELSE Append(x, s[n])
           EqL(f) == f = [n \in 0..N |-> IF n = 0 THEN <<>> ELSE next(f[n - 1], n)]
           line == CHOOSE f : EqL(f)
           fault(n) == s[n] = NL /\ NotANumber(line[n - 1])
           EqB(f) == f = [n \in 0..N |-> n > 0 /\ (f[n - 1] \/ fault(n))]
           bad == CHOOSE f : EqB(f)
           piece(n) == IF s[n] = NL /\ ~bad[n] THEN <<Number(line[n - 1])>> ELSE <<>>
           joined(x, n) == x \o piece(n)
           EqN(f) == f = [n \in 0..N |-> IF n = 0 THEN <<>> ELSE joined(f[n - 1], n)]
           numbers == CHOOSE f : EqN(f)
           Lines == Seq(LineByte)
<1>0. /\ N \in Nat /\ <<>> \in Lines /\ <<>> \in Seq(Nat) /\ \A n \in 1..N : s[n] \in Byte
      /\ 0 \in 0..N /\ \A n \in 1..N : n \in 0..N /\ n - 1 \in 0..N /\ n # 0 /\ n > 0
      /\ \A n \in 0..N : n = 0 \/ n \in 1..N
      /\ ~(0 > 0)
  OBVIOUS
<1>s. Scanned(s) = [line |-> line[N], numbers |-> numbers[N], bad |-> bad[N]]
  BY DEF Scanned, line, bad, numbers
<1>n. \A n \in 1..N : \A x \in Lines : next(x, n) \in Lines
  BY <1>0 DEF LineByte
<1>d. \A n, x : next(x, n) = IF s[n] = NL THEN <<>> ELSE Append(x, s[n])
  OBVIOUS
<1> HIDE DEF N, next, Lines
<1>1. EqL(line)
  <2> DEFINE g == [n \in 1..N |-> [x \in Lines |-> next(x, n)]]
  <2>1. g \in Steps(Lines, N)
    BY <1>n DEF Steps
  <2>2. PICK f : Takes(f, Lines, N, <<>>, g)
    <3> HIDE DEF g
    <3> QED
      BY <1>0, <2>1, Recurrence
  <2>3. f \in [0..N -> Lines] /\ f[0] = <<>> /\ \A n \in 1..N : f[n] = g[n][f[n - 1]]
    BY <2>2 DEF Takes
  <2>4. \A n \in 1..N : f[n - 1] \in Lines
    BY <1>0, <2>3
  <2>5. \A n \in 1..N : f[n] = next(f[n - 1], n)
    BY <2>3, <2>4
  <2>6. EqL(f)
    <3>1. \A n \in 0..N : f[n] = IF n = 0 THEN <<>> ELSE next(f[n - 1], n)
      BY <1>0, <2>3, <2>5
    <3> QED
      BY <2>3, <3>1
  <2> HIDE DEF EqL
  <2> QED
    BY <2>6
<1>2. /\ line[0] = <<>> /\ \A n \in 1..N : line[n] = next(line[n - 1], n)
      /\ line = [n \in 0..N |-> line[n]]
  <2> HIDE DEF line
  <2> QED
    BY <1>0, <1>1
<1> HIDE DEF line
<1>3. \A n \in 0..N : line[n] \in Lines
  <2>1. \A n \in 1..N : line[n - 1] \in Lines => line[n] \in Lines
    BY <1>n, <1>2
  <2>2. line[0] \in Lines
    BY <1>0, <1>2
  <2> QED
    BY <1>0, <2>1, <2>2, EveryPlace
<1>x. \A n \in 1..N : s[n] = NL /\ ~NotANumber(line[n - 1]) => <<Number(line[n - 1])>> \in Seq(Nat)
  BY <1>0, <1>3, NumberOfLine DEF Lines
<1>f. \A n : fault(n) <=> s[n] = NL /\ NotANumber(line[n - 1])
  OBVIOUS
<1> HIDE DEF fault
<1>4. EqB(bad)
  <2> DEFINE f == [n \in 0..N |-> \E j \in 1..n : fault(j)]
  <2>1. \A n \in 1..N : f[n] = (f[n - 1] \/ fault(n))
    <3> SUFFICES ASSUME NEW n \in 1..N PROVE f[n] = (f[n - 1] \/ fault(n))
      OBVIOUS
    <3>1. \A j : j \in 1..n <=> j \in 1..(n - 1) \/ j = n
      BY <1>0
    <3>2. f[n] = (\E j \in 1..n : fault(j)) /\ f[n - 1] = (\E j \in 1..(n - 1) : fault(j))
      BY <1>0
    <3> QED
      BY <3>1, <3>2
  <2>2. f[0] = FALSE
    BY <1>0
  <2>3. EqB(f)
    <3>1. f = [n \in 0..N |-> f[n]]
      OBVIOUS
    <3> HIDE DEF f
    <3>2. f[0] = (0 > 0 /\ (f[0 - 1] \/ fault(0)))
      BY <1>0, <2>2
    <3>3. \A n \in 1..N : f[n] = (n > 0 /\ (f[n - 1] \/ fault(n)))
      BY <1>0, <2>1
    <3>4. \A n \in 0..N : f[n] = (n > 0 /\ (f[n - 1] \/ fault(n)))
      BY <1>0, <3>2, <3>3
    <3> QED
      BY <3>1, <3>4
  <2> HIDE DEF EqB
  <2> QED
    BY <2>3
<1>5. /\ bad[0] = FALSE /\ \A n \in 1..N : bad[n] = (bad[n - 1] \/ fault(n))
      /\ bad = [n \in 0..N |-> bad[n]] /\ \A n \in 0..N : bad[n] \in BOOLEAN
  <2> HIDE DEF bad
  <2> QED
    BY <1>0, <1>4
<1> HIDE DEF bad
<1>p. \A n : piece(n) = IF s[n] = NL /\ ~bad[n] THEN <<Number(line[n - 1])>> ELSE <<>>
  OBVIOUS
<1>6. \A n \in 1..N : piece(n) \in Seq(Nat)
  <2>1. \A n \in 1..N : s[n] = NL /\ ~bad[n] => ~NotANumber(line[n - 1])
    BY <1>5, <1>f
  <2> QED
    BY <1>0, <1>x, <2>1
<1> HIDE DEF piece
<1>j. \A n \in 1..N : \A x \in Seq(Nat) : joined(x, n) \in Seq(Nat)
  BY <1>6
<1>k. \A n, x : joined(x, n) = x \o piece(n)
  OBVIOUS
<1> HIDE DEF joined
<1>7. EqN(numbers)
  <2> DEFINE g == [n \in 1..N |-> [x \in Seq(Nat) |-> joined(x, n)]]
  <2>1. g \in Steps(Seq(Nat), N)
    BY <1>j DEF Steps
  <2>2. PICK f : Takes(f, Seq(Nat), N, <<>>, g)
    <3> HIDE DEF g
    <3> QED
      BY <1>0, <2>1, Recurrence
  <2>3. f \in [0..N -> Seq(Nat)] /\ f[0] = <<>> /\ \A n \in 1..N : f[n] = g[n][f[n - 1]]
    BY <2>2 DEF Takes
  <2>4. \A n \in 1..N : f[n - 1] \in Seq(Nat)
    BY <1>0, <2>3
  <2>5. \A n \in 1..N : f[n] = joined(f[n - 1], n)
    BY <2>3, <2>4
  <2>6. EqN(f)
    <3>1. \A n \in 0..N : f[n] = IF n = 0 THEN <<>> ELSE joined(f[n - 1], n)
      BY <1>0, <2>3, <2>5
    <3> QED
      BY <2>3, <3>1
  <2> HIDE DEF EqN
  <2> QED
    BY <2>6
<1>8. /\ numbers[0] = <<>> /\ \A n \in 1..N : numbers[n] = joined(numbers[n - 1], n)
      /\ numbers = [n \in 0..N |-> numbers[n]]
  <2> HIDE DEF numbers
  <2> QED
    BY <1>0, <1>7
<1> HIDE DEF numbers
<1>9. \A n \in 0..N : numbers[n] \in Seq(Nat)
  <2>1. \A n \in 1..N : numbers[n - 1] \in Seq(Nat) => numbers[n] \in Seq(Nat)
    BY <1>j, <1>8
  <2>2. numbers[0] \in Seq(Nat)
    BY <1>0, <1>8
  <2> QED
    BY <1>0, <2>1, <2>2, EveryPlace
<1>10. Walks(s, line, bad, numbers)
  <2>1. line \in [0..N -> Lines]
    BY <1>2, <1>3
  <2>2. bad \in [0..N -> BOOLEAN]
    BY <1>5
  <2>3. numbers \in [0..N -> Seq(Nat)]
    BY <1>8, <1>9
  <2>4. \A n \in 1..N : line[n] = LineThen(line[n - 1], s[n])
    BY <1>2, <1>d DEF LineThen
  <2>5. \A n \in 1..N : bad[n] = (bad[n - 1] \/ FaultAt(line[n - 1], s[n]))
    BY <1>5, <1>f DEF FaultAt
  <2>6. \A n \in 1..N : numbers[n] = numbers[n - 1] \o NumberAt(line[n - 1], bad[n], s[n])
    BY <1>8, <1>k, <1>p DEF NumberAt
  <2> QED
    BY <2>1, <2>2, <2>3, <2>4, <2>5, <2>6, <1>2, <1>5, <1>8 DEF Walks, N, Lines
<1> QED
  BY <1>10, <1>s DEF N

\* What a scan yields: a line without newlines, numbers, and whether there was a fault.
LEMMA ScanType ==
  ASSUME NEW s \in Seq(Byte)
  PROVE  /\ Scanned(s).line \in Seq(LineByte) /\ Scanned(s).line \in Seq(Byte)
         /\ Scanned(s).numbers \in Seq(Nat) /\ Scanned(s).bad \in BOOLEAN
<1>1. PICK line, bad, numbers :
        /\ Walks(s, line, bad, numbers)
        /\ Scanned(s) = [line |-> line[Len(s)], numbers |-> numbers[Len(s)], bad |-> bad[Len(s)]]
  BY ScanWalks
<1>2. Len(s) \in 0..Len(s)
  OBVIOUS
<1>3. line[Len(s)] \in Seq(LineByte) /\ numbers[Len(s)] \in Seq(Nat) /\ bad[Len(s)] \in BOOLEAN
  BY <1>1, <1>2 DEF Walks
<1>4. \A x \in Seq(LineByte) : x \in Seq(Byte)
  BY DEF LineByte
<1> QED
  BY <1>1, <1>3, <1>4

\* Nothing is scanned of nothing.
LEMMA ScanNil == /\ Scanned(<<>>).line = <<>> /\ Scanned(<<>>).numbers = <<>>
                 /\ Scanned(<<>>).bad = FALSE
<1>0. <<>> \in Seq(Byte) /\ Len(<<>>) = 0
  OBVIOUS
<1>1. PICK line, bad, numbers :
        /\ Walks(<<>>, line, bad, numbers)
        /\ Scanned(<<>>) = [line |-> line[Len(<<>>)], numbers |-> numbers[Len(<<>>)],
                            bad |-> bad[Len(<<>>)]]
  BY <1>0, ScanWalks
<1> QED
  BY <1>0, <1>1 DEF Walks

\* What holds at 0, and at every place if it does at the one before, holds everywhere.
LEMMA EveryIndex ==
  ASSUME NEW N \in Nat, NEW T, 0 \in T, \A n \in 1..N : n - 1 \in T => n \in T
  PROVE  \A n \in 0..N : n \in T
<1> DEFINE h == [n \in 0..N |-> n]
<1>1. h[0] \in T
  OBVIOUS
<1>2. \A n \in 1..N : h[n - 1] \in T => h[n] \in T
  OBVIOUS
<1>3. \A n \in 0..N : h[n] \in T
  <2> HIDE DEF h
  <2> QED
    BY <1>1, <1>2, EveryPlace
<1> QED
  BY <1>3

\* The same bytes are scanned the same whatever follows them.
LEMMA ScanAppend ==
  ASSUME NEW s \in Seq(Byte), NEW b \in Byte
  PROVE  /\ Scanned(Append(s, b)).line = LineThen(Scanned(s).line, b)
         /\ Scanned(Append(s, b)).bad <=> Scanned(s).bad \/ FaultAt(Scanned(s).line, b)
         /\ b = NL /\ ~Scanned(Append(s, b)).bad =>
              Scanned(Append(s, b)).numbers = Scanned(s).numbers \o <<Number(Scanned(s).line)>>
         /\ b # NL \/ Scanned(Append(s, b)).bad =>
              Scanned(Append(s, b)).numbers = Scanned(s).numbers
<1> DEFINE t == Append(s, b)
           N == Len(s)
<1>0. /\ t \in Seq(Byte) /\ Len(t) = N + 1 /\ N \in Nat /\ t[N + 1] = b
      /\ (\A n \in 1..N : t[n] = s[n] /\ n \in 1..(N + 1) /\ n - 1 \in 0..N /\ n \in 0..N)
      /\ N + 1 \in 1..(N + 1) /\ (N + 1) - 1 = N /\ N \in 0..N /\ 0 \in 0..N
  OBVIOUS
<1>1. PICK line, bad, numbers :
        /\ Walks(s, line, bad, numbers)
        /\ Scanned(s) = [line |-> line[N], numbers |-> numbers[N], bad |-> bad[N]]
  BY ScanWalks
<1>2. PICK line2, bad2, numbers2 :
        /\ Walks(t, line2, bad2, numbers2)
        /\ Scanned(t) = [line |-> line2[Len(t)], numbers |-> numbers2[Len(t)], bad |-> bad2[Len(t)]]
  <2> HIDE DEF t
  <2> QED
    BY <1>0, ScanWalks
<1>3. /\ line[0] = line2[0] /\ bad[0] = bad2[0] /\ numbers[0] = numbers2[0]
      /\ \A n \in 1..N :
           /\ line[n] = LineThen(line[n - 1], s[n])
           /\ bad[n] = (bad[n - 1] \/ FaultAt(line[n - 1], s[n]))
           /\ numbers[n] = numbers[n - 1] \o NumberAt(line[n - 1], bad[n], s[n])
  BY <1>1, <1>2 DEF Walks
<1>4. \A n \in 1..(N + 1) :
           /\ line2[n] = LineThen(line2[n - 1], t[n])
           /\ bad2[n] = (bad2[n - 1] \/ FaultAt(line2[n - 1], t[n]))
           /\ numbers2[n] = numbers2[n - 1] \o NumberAt(line2[n - 1], bad2[n], t[n])
  <2> HIDE DEF t
  <2> QED
    BY <1>0, <1>2 DEF Walks
<1> HIDE DEF t, N
<1> DEFINE same == {n \in 0..N : line[n] = line2[n] /\ bad[n] = bad2[n] /\ numbers[n] = numbers2[n]}
<1>5. \A n \in 1..N : n - 1 \in same => n \in same
  <2> SUFFICES ASSUME NEW n \in 1..N, n - 1 \in same PROVE n \in same
    OBVIOUS
  <2>0. n \in 0..N /\ n \in 1..(N + 1) /\ t[n] = s[n]
    BY <1>0
  <2>1. line[n - 1] = line2[n - 1] /\ bad[n - 1] = bad2[n - 1] /\ numbers[n - 1] = numbers2[n - 1]
    OBVIOUS
  <2>2. line[n] = line2[n] /\ bad[n] = bad2[n]
    BY <1>3, <1>4, <2>0, <2>1
  <2>3. numbers[n] = numbers2[n]
    BY <1>3, <1>4, <2>0, <2>1, <2>2
  <2> QED
    BY <2>0, <2>2, <2>3
<1>6. 0 \in same
  BY <1>0, <1>3
<1>7. N \in same
  <2> HIDE DEF same
  <2> QED
    BY <1>0, <1>5, <1>6, EveryIndex
<1>8. line[N] = line2[N] /\ bad[N] = bad2[N] /\ numbers[N] = numbers2[N]
  BY <1>7
<1> DEFINE m == N + 1
<1>9. m \in 1..(N + 1) /\ m - 1 = N /\ t[m] = b /\ Len(t) = m
  BY <1>0
<1> HIDE DEF m
<1>10. /\ line2[m] = LineThen(line2[N], b)
       /\ bad2[m] = (bad2[N] \/ FaultAt(line2[N], b))
       /\ numbers2[m] = numbers2[N] \o NumberAt(line2[N], bad2[m], b)
  BY <1>4, <1>9
<1>11. Scanned(t).line = line2[m] /\ Scanned(t).bad = bad2[m] /\ Scanned(t).numbers = numbers2[m]
  BY <1>2, <1>9
<1>12. Scanned(s).line = line[N] /\ Scanned(s).bad = bad[N] /\ Scanned(s).numbers = numbers[N]
  BY <1>1
<1>13. Scanned(s).numbers \o <<>> = Scanned(s).numbers
  BY ScanType
<1>14. /\ Scanned(t).line = LineThen(Scanned(s).line, b)
       /\ Scanned(t).bad <=> Scanned(s).bad \/ FaultAt(Scanned(s).line, b)
  BY <1>8, <1>10, <1>11, <1>12
<1>15. Scanned(t).numbers = Scanned(s).numbers \o NumberAt(Scanned(s).line, bad2[m], b)
  BY <1>8, <1>10, <1>11, <1>12
<1>16. /\ b = NL /\ ~bad2[m] => Scanned(t).numbers = Scanned(s).numbers \o <<Number(Scanned(s).line)>>
       /\ b # NL \/ bad2[m] => Scanned(t).numbers = Scanned(s).numbers
  BY <1>13, <1>15 DEF NumberAt
<1> QED
  BY <1>11, <1>14, <1>16 DEF t

\* Concatenation does not mind the brackets; stated once so that no larger step needs it.
LEMMA ConcatNats ==
  \A p, q, e \in Seq(Nat) : p \o q \in Seq(Nat) /\ (p \o q) \o e = p \o (q \o e)
<1> SUFFICES ASSUME NEW p \in Seq(Nat), NEW q \in Seq(Nat), NEW e \in Seq(Nat)
             PROVE  p \o q \in Seq(Nat) /\ (p \o q) \o e = p \o (q \o e)
  OBVIOUS
<1>1. p \o q \in Seq(Nat)
  OBVIOUS
<1>2. (p \o q) \o e = p \o (q \o e)
  BY ConcatAssociative, SMTT(60)
<1> QED
  BY <1>1, <1>2

\* The same of bytes.
LEMMA ConcatBytes ==
  \A p, q, e \in Seq(Byte) : p \o q \in Seq(Byte) /\ (p \o q) \o e = p \o (q \o e)
<1> SUFFICES ASSUME NEW p \in Seq(Byte), NEW q \in Seq(Byte), NEW e \in Seq(Byte)
             PROVE  p \o q \in Seq(Byte) /\ (p \o q) \o e = p \o (q \o e)
  OBVIOUS
<1>1. p \o q \in Seq(Byte)
  OBVIOUS
<1>2. (p \o q) \o e = p \o (q \o e)
  BY ConcatAssociative, SMTT(60)
<1> QED
  BY <1>1, <1>2

\* What a connection was answered and is owed, when the part p of its output p \o q goes out.
PartOut(g, t, p, q, v) == (g \o (t \o p)) \o <<>> = v /\ (g \o t) \o (p \o q) = v \o q

\* A part of the output that moves into the socket leaves the answers what they are.
LEMMA PartGoesOut ==
  \A g, t, p, q \in Seq(Nat) : \E v \in Seq(Nat) : PartOut(g, t, p, q, v)
<1> DEFINE S == Seq(Nat)
           cat(x, y) == x \o y
<1>1. \A x, y \in S : cat(x, y) \in S
  OBVIOUS
<1>2. \A x, y, z \in S : cat(cat(x, y), z) = cat(x, cat(y, z))
  BY ConcatNats
<1>3. \A x \in S : cat(x, <<>>) = x
  OBVIOUS
<1> HIDE DEF S, cat
<1>4. ASSUME NEW g \in S, NEW t \in S, NEW p \in S, NEW q \in S
      PROVE  \E v \in S : /\ cat(cat(g, cat(t, p)), <<>>) = v
                          /\ cat(cat(g, t), cat(p, q)) = cat(v, q)
  <2>1. cat(cat(g, t), p) = cat(g, cat(t, p)) /\ cat(g, t) \in S /\ cat(cat(g, t), p) \in S
    BY <1>1, <1>2
  <2>2. cat(cat(cat(g, t), p), q) = cat(cat(g, t), cat(p, q))
    BY <1>2, <2>1
  <2> QED
    BY <1>3, <2>1, <2>2
<1> QED
  BY <1>4, Zenon DEF PartOut, S, cat

\* As many answers as numbers, and as many more, are as many.
LEMMA SameLength ==
  \A a, w, n, ns \in Seq(Nat) :
    Len(a) = Len(n) /\ Len(w) = Len(ns) => Len(a \o w) = Len(n \o ns) /\ Len(a \o w) <= Len(n \o ns)
<1> DEFINE S == Seq(Nat)
           size(x) == Len(x)
           cat(x, y) == x \o y
<1>1. \A x, y \in S : size(cat(x, y)) = size(x) + size(y) /\ size(x) \in Nat
  OBVIOUS
<1> HIDE DEF S, size, cat
<1>2. ASSUME NEW a \in S, NEW w \in S, NEW n \in S, NEW ns \in S, size(a) = size(n), size(w) = size(ns)
      PROVE  size(cat(a, w)) = size(cat(n, ns)) /\ size(cat(a, w)) <= size(cat(n, ns))
  BY <1>1, <1>2
<1> QED
  BY <1>2, Zenon DEF S, size, cat

\* A sequence cut in two.
LEMMA TwoParts ==
  ASSUME NEW S, NEW s \in Seq(S), NEW r \in 1..Len(s)
  PROVE  /\ SubSeq(s, 1, r) \in Seq(S) /\ SubSeq(s, r + 1, Len(s)) \in Seq(S)
         /\ SubSeq(s, 1, r) \o SubSeq(s, r + 1, Len(s)) = s
<1> DEFINE u == SubSeq(s, 1, r)
           v == SubSeq(s, r + 1, Len(s))
<1>1. u \in Seq(S) /\ Len(u) = r /\ \A i \in 1..r : u[i] = s[i]
  OBVIOUS
<1>2. v \in Seq(S) /\ Len(v) = Len(s) - r /\ \A i \in 1..(Len(s) - r) : v[i] = s[r + i]
  OBVIOUS
<1>0. r \in Nat /\ r >= 1 /\ r <= Len(s) /\ Len(s) \in Nat
  OBVIOUS
<1> HIDE DEF u, v
<1>3. u \o v \in Seq(S) /\ Len(u \o v) = Len(s)
  <2>1. u \o v \in Seq(S) /\ Len(u \o v) = Len(u) + Len(v)
    BY <1>1, <1>2, ConcatProperties
  <2> QED
    BY <1>0, <1>1, <1>2, <2>1
<1>4. \A i \in 1..Len(s) : (u \o v)[i] = s[i]
  <2> SUFFICES ASSUME NEW i \in 1..Len(s) PROVE (u \o v)[i] = s[i]
    OBVIOUS
  <2>1. CASE i <= r
    BY <1>0, <1>1, <1>2, <2>1
  <2>2. CASE i > r
    <3>1. i - r \in 1..(Len(s) - r) /\ r + (i - r) = i
      BY <1>0, <2>2
    <3>2. (u \o v)[i] = v[i - r]
      BY <1>0, <1>1, <1>2, <2>2
    <3> QED
      BY <1>2, <3>1, <3>2
  <2>3. i <= r \/ i > r
    BY <1>0
  <2> QED
    BY <2>1, <2>2, <2>3, Zenon
<1>5. u \o v = s
  BY <1>3, <1>4, SeqEqual
<1> QED
  BY <1>1, <1>2, <1>5 DEF u, v

\* One more byte of t behind s.
LEMMA Longer ==
  ASSUME NEW S, NEW s \in Seq(S), NEW t \in Seq(S), NEW n \in 1..Len(t)
  PROVE  /\ s \o SubSeq(t, 1, n - 1) \in Seq(S) /\ SubSeq(t, 1, n - 1) \in Seq(S) /\ t[n] \in S
         /\ SubSeq(t, 1, n) = Append(SubSeq(t, 1, n - 1), t[n])
         /\ s \o SubSeq(t, 1, n) = Append(s \o SubSeq(t, 1, n - 1), t[n])
<1> DEFINE u == SubSeq(t, 1, n - 1)
           v == SubSeq(t, 1, n)
<1>1. u \in Seq(S) /\ t[n] \in S /\ s \o u \in Seq(S) /\ v \in Seq(S)
  OBVIOUS
<1>2. Len(u) = n - 1 /\ Len(v) = n /\ \A i \in 1..(n - 1) : u[i] = t[i]
  OBVIOUS
<1>3. \A i \in 1..n : v[i] = t[i]
  OBVIOUS
<1> HIDE DEF u, v
<1>4. v = Append(u, t[n])
  <2> DEFINE w == Append(u, t[n])
  <2>1. w \in Seq(S) /\ Len(w) = n /\ w[n] = t[n] /\ \A i \in 1..(n - 1) : w[i] = u[i]
    BY <1>1, <1>2, AppendProperties
  <2>2. \A i \in 1..n : i \in 1..(n - 1) \/ i = n
    OBVIOUS
  <2> HIDE DEF w
  <2>3. Len(v) = Len(w) /\ \A i \in 1..Len(v) : v[i] = w[i]
    BY <1>2, <1>3, <2>1, <2>2
  <2>4. v = w
    BY <1>1, <2>1, <2>3, SeqEqual
  <2> QED
    BY <2>4 DEF w
<1>5. s \o Append(u, t[n]) = Append(s \o u, t[n])
  BY <1>1
<1> QED
  BY <1>1, <1>4, <1>5 DEF u, v

\* None and all of t behind s.
LEMMA Whole ==
  ASSUME NEW S, NEW s \in Seq(S), NEW t \in Seq(S)
  PROVE  /\ SubSeq(t, 1, 0) = <<>> /\ SubSeq(t, 1, Len(t)) = t
         /\ s \o SubSeq(t, 1, 0) = s /\ s \o <<>> = s /\ <<>> \o s = s
  OBVIOUS

\* A line without a newline is left as it is.
LEMMA ScanLine ==
  ASSUME NEW l \in Seq(LineByte)
  PROVE  l \in Seq(Byte) /\ Scanned(l).line = l /\ Scanned(l).numbers = <<>> /\ ~Scanned(l).bad
<1> DEFINE N == Len(l)
           u(n) == SubSeq(l, 1, n)
           T == {n \in 0..N : /\ Scanned(u(n)).line = u(n) /\ Scanned(u(n)).numbers = <<>>
                              /\ ~Scanned(u(n)).bad}
<1>0. l \in Seq(Byte) /\ N \in Nat /\ 0 \in 0..N /\ N \in 0..N /\ u(0) = <<>> /\ u(N) = l
  BY DEF LineByte
<1>1. \A n \in 1..N : /\ n - 1 \in 0..N /\ n \in 0..N /\ u(n - 1) \in Seq(Byte) /\ l[n] \in Byte
                      /\ l[n] # NL /\ u(n) = Append(u(n - 1), l[n])
  <2>1. \A n \in 1..N : l[n] # NL /\ n - 1 \in 0..N /\ n \in 0..N
    BY DEF LineByte
  <2> QED
    BY <1>0, <2>1, Longer
<1> HIDE DEF u, N
<1>2. 0 \in T
  BY <1>0, ScanNil
<1>3. \A n \in 1..N : n - 1 \in T => n \in T
  <2> SUFFICES ASSUME NEW n \in 1..N, n - 1 \in T PROVE n \in T
    OBVIOUS
  <2>1. /\ Scanned(u(n - 1)).line = u(n - 1) /\ Scanned(u(n - 1)).numbers = <<>>
        /\ ~Scanned(u(n - 1)).bad
    OBVIOUS
  <2> DEFINE b == l[n]
  <2>2. /\ b \in Byte /\ b # NL /\ u(n - 1) \in Seq(Byte) /\ u(n) = Append(u(n - 1), b) /\ n \in 0..N
    BY <1>1
  <2> HIDE DEF b
  <2>3. LineThen(u(n - 1), b) = Append(u(n - 1), b) /\ ~FaultAt(u(n - 1), b)
    BY <2>2 DEF LineThen, FaultAt
  <2>4. Scanned(u(n)).line = u(n) /\ ~Scanned(u(n)).bad
    <3>1. Scanned(u(n)).line = LineThen(u(n - 1), b)
      BY <2>1, <2>2, ScanAppend
    <3>2. Scanned(u(n)).bad <=> FaultAt(u(n - 1), b)
      BY <2>1, <2>2, ScanAppend
    <3> QED
      BY <2>2, <2>3, <3>1, <3>2
  <2>5. Scanned(u(n)).numbers = <<>>
    <3> DEFINE v == u(n - 1)
    <3>1. v \in Seq(Byte) /\ b \in Byte /\ b # NL
      BY <2>2
    <3> HIDE DEF v
    <3>2. Scanned(Append(v, b)).numbers = Scanned(v).numbers
      BY <3>1, ScanAppend
    <3> QED
      BY <2>1, <2>2, <3>2 DEF v
  <2> QED
    BY <2>2, <2>4, <2>5
<1>4. N \in T
  <2> HIDE DEF T
  <2> QED
    BY <1>0, <1>2, <1>3, EveryIndex
<1> QED
  BY <1>0, <1>4

\* The scan of s \o t goes on from the line l that s has begun.
ScanJoin(s, t, l) ==
  /\ Scanned(s \o t).line = Scanned(l \o t).line
  /\ Scanned(s \o t).bad <=> Scanned(l \o t).bad
  /\ Scanned(s \o t).numbers = Scanned(s).numbers \o Scanned(l \o t).numbers

\* Bytes that follow a scan without fault go on from the line it has begun.
LEMMA ScanConcat ==
  \A s, t \in Seq(Byte) : ~Scanned(s).bad => ScanJoin(s, t, Scanned(s).line)
<1> SUFFICES ASSUME NEW s \in Seq(Byte), NEW t \in Seq(Byte), NEW l, l = Scanned(s).line, ~Scanned(s).bad
             PROVE  ScanJoin(s, t, l)
  BY Zenon
<1> DEFINE N == Len(t)
           u(n) == s \o SubSeq(t, 1, n)
           v(n) == l \o SubSeq(t, 1, n)
           T == {n \in 0..N :
                   /\ Scanned(u(n)).line = Scanned(v(n)).line
                   /\ Scanned(u(n)).bad <=> Scanned(v(n)).bad
                   /\ Scanned(u(n)).numbers = Scanned(s).numbers \o Scanned(v(n)).numbers}
<1>0. N \in Nat /\ 0 \in 0..N /\ N \in 0..N /\ \A n \in 1..N : n - 1 \in 0..N /\ n \in 0..N
  OBVIOUS
<1>1. l \in Seq(LineByte) /\ l \in Seq(Byte) /\ Scanned(s).numbers \in Seq(Nat)
  BY ScanType
<1>2. u(0) = s /\ u(N) = s \o t /\ v(0) = l /\ v(N) = l \o t
  BY <1>1, Whole
<1>3. \A n \in 1..N : /\ u(n - 1) \in Seq(Byte) /\ v(n - 1) \in Seq(Byte) /\ t[n] \in Byte
                      /\ u(n) = Append(u(n - 1), t[n]) /\ v(n) = Append(v(n - 1), t[n])
  <2>1. \A n \in 1..N : u(n - 1) \in Seq(Byte) /\ t[n] \in Byte /\ u(n) = Append(u(n - 1), t[n])
    BY Longer
  <2>2. \A n \in 1..N : v(n - 1) \in Seq(Byte) /\ v(n) = Append(v(n - 1), t[n])
    <3>1. \A x \in Seq(Byte) : \A n \in 1..Len(t) :
            /\ x \o SubSeq(t, 1, n - 1) \in Seq(Byte)
            /\ x \o SubSeq(t, 1, n) = Append(x \o SubSeq(t, 1, n - 1), t[n])
      BY Longer, SMTT(60)
    <3> QED
      BY <1>1, <3>1
  <2> QED
    BY <2>1, <2>2
<1> HIDE DEF N, u, v
<1>5. 0 \in T
  <2>1. /\ Scanned(v(0)).line = l /\ Scanned(v(0)).numbers = <<>> /\ ~Scanned(v(0)).bad
    BY <1>1, <1>2, ScanLine
  <2>2. Scanned(s).numbers \o <<>> = Scanned(s).numbers
    BY <1>1
  <2> QED
    BY <1>0, <1>2, <2>1, <2>2
<1>6. \A n \in 1..N : n - 1 \in T => n \in T
  <2> SUFFICES ASSUME NEW n \in 1..N, n - 1 \in T PROVE n \in T
    OBVIOUS
  <2> DEFINE x == u(n - 1)
             y == v(n - 1)
             b == t[n]
  <2>1. /\ Scanned(x).line = Scanned(y).line /\ (Scanned(x).bad <=> Scanned(y).bad)
        /\ Scanned(x).numbers = Scanned(s).numbers \o Scanned(y).numbers
    OBVIOUS
  <2>2. /\ x \in Seq(Byte) /\ y \in Seq(Byte) /\ b \in Byte
        /\ u(n) = Append(x, b) /\ v(n) = Append(y, b) /\ n \in 0..N
    BY <1>0, <1>3
  <2> HIDE DEF x, y, b
  <2>3. Scanned(Append(x, b)).line = Scanned(Append(y, b)).line
    <3>1. Scanned(Append(x, b)).line = LineThen(Scanned(x).line, b)
      BY <2>2, ScanAppend
    <3>2. Scanned(Append(y, b)).line = LineThen(Scanned(y).line, b)
      BY <2>2, ScanAppend
    <3> QED
      BY <2>1, <3>1, <3>2
  <2>4. Scanned(Append(x, b)).bad <=> Scanned(x).bad \/ FaultAt(Scanned(x).line, b)
    BY <2>2, ScanAppend
  <2>5. Scanned(Append(y, b)).bad <=> Scanned(y).bad \/ FaultAt(Scanned(y).line, b)
    BY <2>2, ScanAppend
  <2>6. Scanned(Append(x, b)).bad <=> Scanned(Append(y, b)).bad
    BY <2>1, <2>4, <2>5
  <2>7. Scanned(y).numbers \in Seq(Nat) /\ Scanned(y).line \in Seq(LineByte)
    BY <2>2, ScanType
  <2>8. Scanned(Append(x, b)).numbers = Scanned(s).numbers \o Scanned(Append(y, b)).numbers
    <3>1. CASE b = NL /\ ~Scanned(Append(y, b)).bad
      <4>1. Scanned(Append(x, b)).numbers = Scanned(x).numbers \o <<Number(Scanned(x).line)>>
        BY <2>2, <2>6, <3>1, ScanAppend
      <4>2. Scanned(Append(y, b)).numbers = Scanned(y).numbers \o <<Number(Scanned(y).line)>>
        BY <2>2, <3>1, ScanAppend
      <4>3. <<Number(Scanned(y).line)>> \in Seq(Nat)
        <5>1. ~NotANumber(Scanned(y).line)
          BY <2>5, <3>1 DEF FaultAt
        <5> QED
          BY <2>7, <5>1, NumberOfLine
      <4> DEFINE p == Scanned(s).numbers
                 q == Scanned(y).numbers
                 e == <<Number(Scanned(y).line)>>
      <4>4. (p \o q) \o e = p \o (q \o e)
        <5>1. p \in Seq(Nat) /\ q \in Seq(Nat) /\ e \in Seq(Nat)
          BY <1>1, <2>7, <4>3
        <5> HIDE DEF p, q, e
        <5> QED
          BY <5>1, ConcatNats, ZenonT(60)
      <4> QED
        BY <2>1, <4>1, <4>2, <4>4
    <3>2. CASE b # NL \/ Scanned(Append(y, b)).bad
      <4>1. Scanned(Append(x, b)).numbers = Scanned(x).numbers
        BY <2>2, <2>6, <3>2, ScanAppend
      <4>2. Scanned(Append(y, b)).numbers = Scanned(y).numbers
        BY <2>2, <3>2, ScanAppend
      <4> QED
        BY <2>1, <4>1, <4>2
    <3> QED
      BY <3>1, <3>2
  <2> QED
    BY <2>2, <2>3, <2>6, <2>8
<1>7. N \in T
  <2> HIDE DEF T
  <2> QED
    BY <1>0, <1>5, <1>6, EveryIndex
<1> QED
  BY <1>2, <1>7 DEF ScanJoin

\* Once there is a fault, or a line too long, there is one for good; and the numbers stay.
Hopeless(s) == Scanned(s).bad \/ Len(Scanned(s).line) > MaxLine

\* What was scanned before stays scanned: a fault, a line too long, the numbers.
LEMMA ScanGrows ==
  ASSUME NEW s \in Seq(Byte), NEW t \in Seq(Byte)
  PROVE  /\ Scanned(s).bad => Scanned(s \o t).bad
         /\ Hopeless(s) => Hopeless(s \o t)
         /\ \E p \in Seq(Nat) : Scanned(s \o t).numbers = Scanned(s).numbers \o p
<1> DEFINE N == Len(t)
           u(n) == s \o SubSeq(t, 1, n)
           T == {n \in 0..N :
                   /\ Scanned(s).bad => Scanned(u(n)).bad
                   /\ Hopeless(s) => Hopeless(u(n))
                   /\ \E p \in Seq(Nat) : Scanned(u(n)).numbers = Scanned(s).numbers \o p}
<1>0. N \in Nat /\ 0 \in 0..N /\ N \in 0..N /\ \A n \in 1..N : n - 1 \in 0..N /\ n \in 0..N
  OBVIOUS
<1>1. Scanned(s).numbers \in Seq(Nat)
  BY ScanType
<1>2. u(0) = s /\ u(N) = s \o t
  BY Whole
<1>3. \A n \in 1..N : /\ u(n - 1) \in Seq(Byte) /\ t[n] \in Byte /\ u(n) = Append(u(n - 1), t[n])
  BY Longer, SMTT(60)
<1> HIDE DEF N, u
<1>5. 0 \in T
  <2>1. Scanned(s).numbers = Scanned(s).numbers \o <<>> /\ <<>> \in Seq(Nat)
    BY <1>1
  <2> QED
    BY <1>0, <1>2, <2>1
<1>6. \A n \in 1..N : n - 1 \in T => n \in T
  <2> SUFFICES ASSUME NEW n \in 1..N, n - 1 \in T PROVE n \in T
    OBVIOUS
  <2> DEFINE x == u(n - 1)
             b == t[n]
  <2>1. /\ Scanned(s).bad => Scanned(x).bad
        /\ Hopeless(s) => Hopeless(x)
        /\ \E p \in Seq(Nat) : Scanned(x).numbers = Scanned(s).numbers \o p
    OBVIOUS
  <2>2. x \in Seq(Byte) /\ b \in Byte /\ u(n) = Append(x, b) /\ n \in 0..N
    BY <1>0, <1>3
  <2> HIDE DEF x, b
  <2>3. Scanned(x).numbers \in Seq(Nat) /\ Scanned(x).line \in Seq(LineByte)
    BY <2>2, ScanType
  <2>4. Scanned(Append(x, b)).bad <=> Scanned(x).bad \/ FaultAt(Scanned(x).line, b)
    BY <2>2, ScanAppend
  <2>5. Hopeless(x) => Hopeless(Append(x, b))
    <3>1. CASE Scanned(x).bad
      BY <2>4, <3>1 DEF Hopeless
    <3>2. CASE Len(Scanned(x).line) > MaxLine /\ b = NL
      BY <2>4, <3>2 DEF Hopeless, FaultAt, NotANumber
    <3>3. CASE Len(Scanned(x).line) > MaxLine /\ b # NL
      <4>1. Scanned(Append(x, b)).line = Append(Scanned(x).line, b)
        BY <2>2, <3>3, ScanAppend DEF LineThen
      <4>2. Len(Append(Scanned(x).line, b)) = Len(Scanned(x).line) + 1 /\ Len(Scanned(x).line) \in Nat
        BY <2>3
      <4>3. Len(Scanned(Append(x, b)).line) > MaxLine
        BY <3>3, <4>1, <4>2, ServerConstants
      <4> QED
        BY <4>3 DEF Hopeless
    <3> QED
      BY <3>1, <3>2, <3>3 DEF Hopeless
  <2>6. \E p \in Seq(Nat) : Scanned(Append(x, b)).numbers = Scanned(s).numbers \o p
    <3>0. PICK q \in Seq(Nat) : Scanned(x).numbers = Scanned(s).numbers \o q
      BY <2>1
    <3>1. CASE b = NL /\ ~Scanned(Append(x, b)).bad
      <4>1. Scanned(Append(x, b)).numbers = Scanned(x).numbers \o <<Number(Scanned(x).line)>>
        BY <2>2, <3>1, ScanAppend
      <4> DEFINE e == <<Number(Scanned(x).line)>>
      <4>2. e \in Seq(Nat)
        <5>1. ~NotANumber(Scanned(x).line)
          BY <2>4, <3>1 DEF FaultAt
        <5> QED
          BY <2>3, <5>1, NumberOfLine
      <4> DEFINE p == Scanned(s).numbers
      <4>3. p \in Seq(Nat)
        BY <1>1
      <4> HIDE DEF e, p
      <4>4. (p \o q) \o e = p \o (q \o e)
        BY <4>2, <4>3, ConcatNats, ZenonT(60)
      <4>5. q \o e \in Seq(Nat)
        BY <4>2, ConcatNats, ZenonT(60)
      <4> QED
        BY <3>0, <4>1, <4>4, <4>5 DEF e, p
    <3>2. CASE b # NL \/ Scanned(Append(x, b)).bad
      <4>1. Scanned(Append(x, b)).numbers = Scanned(x).numbers
        BY <2>2, <3>2, ScanAppend
      <4> QED
        BY <3>0, <4>1
    <3> QED
      BY <3>1, <3>2
  <2> QED
    BY <2>1, <2>2, <2>4, <2>5, <2>6
<1>7. N \in T
  <2> HIDE DEF T
  <2> QED
    BY <1>0, <1>5, <1>6, EveryIndex
<1> QED
  BY <1>2, <1>7

-----------------------------------------------------------------------------
(* A buffer is parsed as its bytes are scanned.                            *)

\* The line that the first n bytes of a buffer have begun.
Begun(buf, n) ==
  LET upto == {k \in Newlines(buf) : k <= n}
  IN  SubSeq(buf, (IF upto = {} THEN 0 ELSE Max(upto)) + 1, n)

\* The line begun grows byte by byte, as the line of a scan does.
LEMMA BegunStep ==
  ASSUME NEW buf \in Seq(Byte), NEW n \in 1..Len(buf)
  PROVE  Begun(buf, n) = LineThen(Begun(buf, n - 1), buf[n])
<1> DEFINE upto(m) == {k \in Newlines(buf) : k <= m}
           last(m) == IF upto(m) = {} THEN 0 ELSE Max(upto(m))
<1>0. /\ Newlines(buf) \in SUBSET Nat /\ Len(buf) \in Nat /\ n - 1 \in 0..Len(buf)
      /\ n \in 0..Len(buf)
  BY Places
<1>1. \A m \in 0..Len(buf) : last(m) \in 0..m /\ \A k \in upto(m) : k <= last(m)
  <2> SUFFICES ASSUME NEW m \in 0..Len(buf) PROVE last(m) \in 0..m /\ \A k \in upto(m) : k <= last(m)
    OBVIOUS
  <2>1. CASE upto(m) = {}
    BY <2>1
  <2>2. CASE upto(m) # {}
    <3>1. upto(m) \in SUBSET Nat /\ \A k \in upto(m) : k <= m
      BY <1>0
    <3>2. Max(upto(m)) \in upto(m) /\ \A k \in upto(m) : k <= Max(upto(m))
      <4> DEFINE U == upto(m)
      <4>1. U \in SUBSET Nat /\ U # {} /\ m \in Nat /\ \A k \in U : k <= m
        BY <2>2, <3>1
      <4> HIDE DEF U
      <4>2. Max(U) \in U /\ \A k \in U : k <= Max(U)
        BY <4>1, MaxOfNats
      <4> QED
        BY <4>2 DEF U
    <3> HIDE DEF upto
    <3> QED
      BY <2>2, <3>1, <3>2
  <2> QED
    BY <2>1, <2>2
<1>2. Begun(buf, n) = SubSeq(buf, last(n) + 1, n) /\ Begun(buf, n - 1) = SubSeq(buf, last(n - 1) + 1, n - 1)
  BY DEF Begun
<1>3. CASE buf[n] = NL
  <2>1. n \in upto(n)
    BY <1>3 DEF Newlines
  <2> HIDE DEF upto, last
  <2>2. last(n) = n
    BY <1>0, <1>1, <2>1
  <2>3. SubSeq(buf, n + 1, n) = <<>>
    BY SubSeqEmpty
  <2> QED
    BY <1>2, <1>3, <2>2, <2>3 DEF LineThen
<1>4. CASE buf[n] # NL
  <2>1. upto(n) = upto(n - 1)
    <3>1. \A k \in Newlines(buf) : k \in Nat /\ k # n
      BY <1>0, <1>4 DEF Newlines
    <3> QED
      BY <3>1
  <2>2. last(n) = last(n - 1)
    BY <2>1
  <2> DEFINE a == last(n - 1) + 1
  <2>3. a \in 1..n
    <3> HIDE DEF last, upto
    <3> QED
      BY <1>0, <1>1
  <2>4. Begun(buf, n) = SubSeq(buf, a, n) /\ Begun(buf, n - 1) = SubSeq(buf, a, n - 1)
    BY <1>2, <2>2
  <2> HIDE DEF a
  <2>5. SubSeq(buf, a, n) = SubSeq(buf, a, n - 1) \o <<buf[n]>>
    <3>1. a \in 1..Len(buf) /\ n \in a..Len(buf)
      BY <2>3
    <3> QED
      BY <3>1, SubSeqRecursiveSecond
  <2>6. SubSeq(buf, a, n - 1) \in Seq(Byte) /\ buf[n] \in Byte
    BY <2>3
  <2>7. Append(SubSeq(buf, a, n - 1), buf[n]) = SubSeq(buf, a, n - 1) \o <<buf[n]>>
    BY <2>6, AppendIsConcat
  <2> QED
    BY <1>4, <2>4, <2>5, <2>7 DEF LineThen
<1> QED
  BY <1>3, <1>4

\* The lines of the parser are lines begun: that before a newline, and what is left over.
LEMMA BegunLines ==
  ASSUME NEW buf \in Seq(Byte)
  PROVE  /\ Begun(buf, 0) = <<>> /\ Begun(buf, Len(buf)) = Leftover(buf)
         /\ \A k \in Newlines(buf) : LineEndingAt(buf, k) = Begun(buf, k - 1)
<1>0. Newlines(buf) \in SUBSET (1..Len(buf)) /\ Len(buf) \in Nat
  BY Places
<1>1. Begun(buf, 0) = <<>>
  <2>1. {k \in Newlines(buf) : k <= 0} = {}
    BY <1>0
  <2> QED
    BY <2>1, SubSeqEmpty DEF Begun
<1>2. Begun(buf, Len(buf)) = Leftover(buf)
  <2>1. {k \in Newlines(buf) : k <= Len(buf)} = Newlines(buf)
    BY <1>0
  <2> QED
    BY <2>1 DEF Begun, Leftover
<1>3. ASSUME NEW k \in Newlines(buf) PROVE LineEndingAt(buf, k) = Begun(buf, k - 1)
  <2>1. {j \in Newlines(buf) : j <= k - 1} = {j \in Newlines(buf) : j < k}
    BY <1>0
  <2> QED
    BY <2>1 DEF Begun, LineEndingAt
<1> QED
  BY <1>1, <1>2, <1>3

\* What parse_and_queue_lines finds in a buffer and what is read off it byte by byte are the
\* same: the numbers, whether a line is rejected, and what is left.
LEMMA ParseIsScan ==
  ASSUME NEW buf \in Seq(Byte)
  PROVE  /\ Scanned(buf).line = Leftover(buf) /\ Scanned(buf).numbers = Parsed(buf)
         /\ Scanned(buf).bad <=> Rejected(buf) # {}
<1> DEFINE N == Len(buf)
<1>1. PICK line, bad, numbers :
        /\ Walks(buf, line, bad, numbers)
        /\ Scanned(buf) = [line |-> line[N], numbers |-> numbers[N], bad |-> bad[N]]
  BY ScanWalks
<1>w. /\ line[0] = <<>> /\ bad[0] = FALSE /\ numbers[0] = <<>> /\ numbers \in [0..N -> Seq(Nat)]
      /\ \A n \in 1..N :
           /\ line[n] = LineThen(line[n - 1], buf[n])
           /\ bad[n] = (bad[n - 1] \/ FaultAt(line[n - 1], buf[n]))
           /\ numbers[n] = numbers[n - 1] \o NumberAt(line[n - 1], bad[n], buf[n])
  BY <1>1 DEF Walks
<1>0. /\ N \in Nat /\ 0 \in 0..N /\ N \in 0..N /\ (\A n \in 1..N : n - 1 \in 0..N /\ n \in 0..N)
      /\ (\A n \in 0..N : n = 0 \/ n \in 1..N) /\ (\A n \in 1..N : n # 0)
      /\ Newlines(buf) \in SUBSET (1..N)
  BY Places
<1>n. \A n \in 1..N : n \in Newlines(buf) <=> buf[n] = NL
  BY DEF Newlines
<1>2. \A n \in 0..N : line[n] = Begun(buf, n)
  <2> DEFINE T == {n \in 0..N : line[n] = Begun(buf, n)}
  <2>1. 0 \in T
    BY <1>0, <1>w, BegunLines
  <2>2. \A n \in 1..N : n - 1 \in T => n \in T
    BY <1>0, <1>w, BegunStep
  <2>3. \A n \in 0..N : n \in T
    <3> HIDE DEF T, N
    <3> QED
      BY <1>0, <2>1, <2>2, EveryIndex
  <2> QED
    BY <2>3
<1>3. \A n \in 1..N : FaultAt(line[n - 1], buf[n]) <=> n \in Rejected(buf)
  <2>1. \A n \in Newlines(buf) : LineEndingAt(buf, n) = line[n - 1]
    BY <1>0, <1>2, BegunLines
  <2>2. \A x \in Seq(LineByte) : NotANumber(x) <=> ~WellFormed(x)
    <3>1. \A x \in Seq(LineByte) : Len(x) > MaxLine <=> ~(Len(x) <= MaxLine)
      BY ServerConstants
    <3> QED
      BY <3>1 DEF NotANumber, WellFormed
  <2>3. \A n \in 1..N : line[n - 1] \in Seq(LineByte)
    BY <1>0, <1>1 DEF Walks
  <2> QED
    BY <1>n, <2>1, <2>2, <2>3 DEF FaultAt, Rejected
<1> HIDE DEF N
<1>4. \A n \in 0..N : bad[n] <=> \E j \in Rejected(buf) : j <= n
  <2> DEFINE T == {n \in 0..N : bad[n] <=> \E j \in Rejected(buf) : j <= n}
  <2>0. \A j \in Rejected(buf) : j \in 1..N /\ j \in Nat
    BY <1>0 DEF Rejected
  <2>1. 0 \in T
    BY <1>0, <1>w, <2>0
  <2>2. \A n \in 1..N : n - 1 \in T => n \in T
    <3> SUFFICES ASSUME NEW n \in 1..N, n - 1 \in T PROVE n \in T
      OBVIOUS
    <3>1. \A j \in Rejected(buf) : j <= n <=> j <= n - 1 \/ j = n
      BY <1>0, <2>0
    <3>2. bad[n - 1] <=> \E j \in Rejected(buf) : j <= n - 1
      OBVIOUS
    <3>3. bad[n] <=> bad[n - 1] \/ n \in Rejected(buf)
      BY <1>3, <1>w
    <3>4. bad[n] <=> \E j \in Rejected(buf) : j <= n
      BY <3>1, <3>2, <3>3
    <3> QED
      BY <1>0, <3>4
  <2>3. \A n \in 0..N : n \in T
    <3> HIDE DEF T
    <3> QED
      BY <1>0, <2>1, <2>2, EveryIndex
  <2> QED
    BY <2>3
<1>5. Scanned(buf).bad <=> Rejected(buf) # {}
  <2>1. \A j \in Rejected(buf) : j <= N
    BY <1>0 DEF Rejected
  <2> QED
    BY <1>0, <1>1, <1>4, <2>1
<1> DEFINE piece(n) == IF n \in Taken(buf) THEN <<Number(LineEndingAt(buf, n))>> ELSE <<>>
<1>6. \A n \in 1..N : NumberAt(line[n - 1], bad[n], buf[n]) = piece(n)
  <2> SUFFICES ASSUME NEW n \in 1..N PROVE NumberAt(line[n - 1], bad[n], buf[n]) = piece(n)
    OBVIOUS
  <2>1. n \in Taken(buf) <=> buf[n] = NL /\ ~bad[n]
    <3>1. \A j \in Rejected(buf) : n < j <=> ~(j <= n)
      BY <1>0 DEF Rejected
    <3>2. ~bad[n] <=> \A j \in Rejected(buf) : n < j
      BY <1>0, <1>4, <3>1
    <3> QED
      BY <1>n, <3>2 DEF Taken
  <2>2. n \in Newlines(buf) => LineEndingAt(buf, n) = line[n - 1]
    BY <1>0, <1>2, BegunLines
  <2> QED
    BY <1>n, <2>1, <2>2 DEF NumberAt
<1> DEFINE joined(x, n) == x \o piece(n)
           Eq(f) == f = [k \in 0..N |-> IF k = 0 THEN <<>> ELSE joined(f[k - 1], k)]
           h == CHOOSE f : Eq(f)
<1>7. Parsed(buf) = h[N]
  BY DEF Parsed, N
<1>8. \A n \in 1..N : numbers[n] = joined(numbers[n - 1], n)
  <2> HIDE DEF piece
  <2> QED
    BY <1>6, <1>w
<1> HIDE DEF joined
<1>9. Eq(numbers)
  <2>1. \A k \in 0..N : numbers[k] = IF k = 0 THEN <<>> ELSE joined(numbers[k - 1], k)
    BY <1>0, <1>8, <1>w
  <2> QED
    BY <1>w, <2>1
<1>10. Eq(h)
  <2> HIDE DEF Eq
  <2> QED
    BY <1>9
<1>11. h[0] = <<>> /\ \A n \in 1..N : h[n] = joined(h[n - 1], n)
  <2> HIDE DEF h
  <2> QED
    BY <1>0, <1>10
<1> HIDE DEF h
<1>12. h[N] = numbers[N]
  <2> DEFINE T == {n \in 0..N : h[n] = numbers[n]}
  <2>1. 0 \in T
    BY <1>0, <1>11, <1>w
  <2>2. \A n \in 1..N : n - 1 \in T => n \in T
    BY <1>0, <1>8, <1>11
  <2>3. N \in T
    <3> HIDE DEF T
    <3> QED
      BY <1>0, <2>1, <2>2, EveryIndex
  <2> QED
    BY <2>3
<1>13. Scanned(buf).line = Leftover(buf)
  BY <1>0, <1>1, <1>2, BegunLines DEF N
<1> QED
  BY <1>1, <1>5, <1>7, <1>12, <1>13

-----------------------------------------------------------------------------
(* The totals.                                                             *)

\* The sum of the first n numbers on top of start.
SumTo(start, numbers, n) ==
  LET sum[k \in 0..n] == IF k = 0 THEN start ELSE sum[k - 1] + numbers[k] IN sum[n]

\* The sums of a call of parse_and_queue_lines, and the totals it queues, are one recurrence
\* (server.c 143-156).
LEMMA Sums ==
  ASSUME NEW start \in Nat, NEW numbers \in Seq(Nat)
  PROVE  \E f \in [0..Len(numbers) -> Nat] :
           /\ f[0] = start /\ \A n \in 1..Len(numbers) : f[n] = f[n - 1] + numbers[n]
           /\ \A n \in 0..Len(numbers) : SumTo(start, numbers, n) = f[n]
           /\ Totals(start, numbers) = [i \in 1..Len(numbers) |-> f[i]]
<1> DEFINE N == Len(numbers)
           g == [n \in 1..N |-> [x \in Nat |-> x + numbers[n]]]
<1>0. N \in Nat /\ \A n \in 1..N : numbers[n] \in Nat
  OBVIOUS
<1>1. g \in Steps(Nat, N)
  BY <1>0 DEF Steps
<1>2. PICK f : Takes(f, Nat, N, start, g)
  <2> HIDE DEF g, N
  <2> QED
    BY <1>0, <1>1, Recurrence
<1>3. f \in [0..N -> Nat] /\ f[0] = start /\ \A n \in 1..N : f[n] = g[n][f[n - 1]]
  BY <1>2 DEF Takes
<1>4. \A n \in 1..N : f[n] = f[n - 1] + numbers[n]
  <2>1. \A n \in 1..N : n - 1 \in 0..N /\ f[n - 1] \in Nat
    <3> HIDE DEF N
    <3> QED
      BY <1>0, <1>3
  <2> QED
    BY <1>3, <2>1
<1> DEFINE Eq(n, e) == e = [k \in 0..n |-> IF k = 0 THEN start ELSE e[k - 1] + numbers[k]]
           h(n) == CHOOSE e : Eq(n, e)
<1>5. \A n : SumTo(start, numbers, n) = h(n)[n]
  BY DEF SumTo
<1>6. Totals(start, numbers) = [i \in 1..N |-> h(N)[i]]
  BY <1>0 DEF Totals
<1> HIDE DEF N, g
<1>7. ASSUME NEW n \in 0..N PROVE \A k \in 0..n : h(n)[k] = f[k]
  <2>0. /\ n \in Nat /\ 0 \in 0..n /\ \A k \in 0..n : k = 0 \/ k \in 1..n
        /\ \A k \in 1..n : k \in 1..N /\ k \in 0..n /\ k - 1 \in 0..n /\ k # 0
    BY <1>0
  <2>1. Eq(n, [k \in 0..n |-> f[k]])
    <3> DEFINE e == [k \in 0..n |-> f[k]]
    <3>1. \A k \in 0..n : e[k] = IF k = 0 THEN start ELSE e[k - 1] + numbers[k]
      BY <1>3, <1>4, <2>0
    <3>2. e = [k \in 0..n |-> e[k]]
      OBVIOUS
    <3> HIDE DEF e
    <3>3. e = [k \in 0..n |-> IF k = 0 THEN start ELSE e[k - 1] + numbers[k]]
      BY <3>1, <3>2
    <3> QED
      BY <3>3 DEF e
  <2>2. Eq(n, h(n))
    <3> HIDE DEF Eq
    <3> QED
      BY <2>1
  <2> DEFINE e == h(n)
  <2> HIDE DEF h
  <2>3. e[0] = start /\ \A k \in 1..n : e[k] = e[k - 1] + numbers[k]
    <3>1. Eq(n, e)
      BY <2>2
    <3> HIDE DEF e
    <3> QED
      BY <2>0, <3>1
  <2> HIDE DEF e
  <2> DEFINE T == {k \in 0..n : e[k] = f[k]}
  <2>4. 0 \in T
    BY <1>3, <2>0, <2>3
  <2>5. \A k \in 1..n : k - 1 \in T => k \in T
    BY <1>4, <2>0, <2>3
  <2>6. \A k \in 0..n : k \in T
    <3> HIDE DEF T
    <3> QED
      BY <2>0, <2>4, <2>5, EveryIndex
  <2> QED
    BY <2>6 DEF e
<1> HIDE DEF h
<1>8. \A n \in 0..N : SumTo(start, numbers, n) = f[n]
  BY <1>0, <1>5, <1>7
<1>9. Totals(start, numbers) = [i \in 1..N |-> f[i]]
  <2>1. N \in 0..N /\ \A i \in 1..N : i \in 0..N
    BY <1>0
  <2>2. \A i \in 1..N : h(N)[i] = f[i]
    BY <1>7, <2>1
  <2> QED
    BY <1>6, <2>2
<1> QED
  BY <1>3, <1>4, <1>8, <1>9 DEF N

\* The service's sums are the server's totals, and its counter is the last of them.
LEMMA ServiceTotals ==
  ASSUME total \in Nat, NEW ns \in Seq(Nat)
  PROVE  /\ Service!Running(ns) = Totals(total, ns)
         /\ Service!After(ns, Len(ns)) =
              (IF Totals(total, ns) = <<>> THEN total ELSE Last(Totals(total, ns)))
         /\ ns = <<>> <=> Totals(total, ns) = <<>>
<1>1. PICK f \in [0..Len(ns) -> Nat] :
           /\ f[0] = total /\ \A n \in 1..Len(ns) : f[n] = f[n - 1] + ns[n]
           /\ \A n \in 0..Len(ns) : SumTo(total, ns, n) = f[n]
           /\ Totals(total, ns) = [i \in 1..Len(ns) |-> f[i]]
  BY Sums
<1>2. \A n : Service!After(ns, n) = SumTo(total, ns, n)
  BY DEF Service!After, SumTo
<1>3. Len(ns) \in Nat /\ DOMAIN ns = 1..Len(ns)
  OBVIOUS
<1>4. Service!Running(ns) = Totals(total, ns)
  BY <1>1, <1>2, <1>3 DEF Service!Running
<1>5. Totals(total, ns) \in Seq(Nat) /\ Len(Totals(total, ns)) = Len(ns)
  BY TotalsType
<1>6. CASE ns = <<>>
  <2>1. Len(ns) = 0 /\ Totals(total, ns) = <<>>
    BY <1>5, <1>6
  <2> QED
    BY <1>1, <1>2, <1>4, <1>6, <2>1
<1>7. CASE ns # <<>>
  <2>1. Len(ns) \in 1..Len(ns) /\ Len(ns) \in 0..Len(ns) /\ Totals(total, ns) # <<>>
    BY <1>3, <1>5, <1>7
  <2>2. Last(Totals(total, ns)) = f[Len(ns)]
    BY <1>1, <1>5, <2>1 DEF Last
  <2> QED
    BY <1>1, <1>2, <1>4, <1>7, <2>1, <2>2
<1> QED
  BY <1>6, <1>7

-----------------------------------------------------------------------------
(* The invariant.                                                          *)

\* What the server has consumed is what the client sent, but for what is on the way.
Streams(c) == Len(toServer[c]) <= Len(sent[c]) /\ sent[c] = Consumed(c) \o toServer[c]

\* inbuf holds the line that the bytes consumed have begun, and none before it was a fault.
Inbuf(c) ==
  \A i \in Slot : slots[i].conn = c =>
    ~Scanned(Consumed(c)).bad /\ Scanned(Consumed(c)).line = slots[i].inbuf

\* Nothing is consumed of a connection, or answered to it, before it has a slot.
Fresh(c) ==
  server[c] \in {"none", "queued"} => Consumed(c) = <<>> /\ got[c] = <<>> /\ toClient[c] = <<>>

\* While it is open it is owed an answer to each of its numbers, and never more than that.
Owed(c) ==
  /\ Len(Answers(c)) <= Len(Scanned(Consumed(c)).numbers)
  /\ server[c] = "open" => Len(Answers(c)) = Len(Scanned(Consumed(c)).numbers)

Applied == \A c \in Conn : Streams(c) /\ Inbuf(c) /\ Fresh(c) /\ Owed(c)

\* Where the entries match, the end of a stream is seen only when all of it is consumed.
AtEnd == ~accepted /\ Walking /\ eof => at = "finish" /\ toServer[Here] = <<>>

\* What is left when a part of the bytes sent is on the way is the other part.
LEMMA Cut ==
  ASSUME NEW p \in Seq(Byte), NEW q \in Seq(Byte)
  PROVE  /\ SubSeq(p \o q, 1, Len(p \o q) - Len(q)) = p /\ Len(q) <= Len(p \o q)
         /\ p \o q \in Seq(Byte)
<1> DEFINE u == SubSeq(p \o q, 1, Len(p \o q) - Len(q))
<1>1. Len(p \o q) - Len(q) = Len(p) /\ Len(p) \in Nat /\ Len(q) \in Nat /\ p \o q \in Seq(Byte)
      /\ Len(q) <= Len(p \o q)
  OBVIOUS
<1>2. u \in Seq(Byte) /\ Len(u) = Len(p) /\ \A i \in 1..Len(p) : u[i] = p[i]
  BY <1>1
<1> HIDE DEF u
<1>3. u = p
  BY <1>1, <1>2, SeqEqual
<1> QED
  BY <1>1, <1>3 DEF u

\* The output of a connection: that of its slot.
Out(table, c) ==
  IF \E i \in Slot : table[i].conn = c THEN table[CHOOSE i \in Slot : table[i].conn = c].out ELSE <<>>

\* The output of a connection that has one slot, and of one that has none.
LEMMA OutIs ==
  ASSUME NEW table, NEW c
  PROVE  /\ \A i \in Slot : table[i].conn = c /\ (\A j \in Slot : table[j].conn = c => j = i)
                              => Out(table, c) = table[i].out
         /\ (\A i \in Slot : table[i].conn # c) => Out(table, c) = <<>>
  BY DEF Out

\* One connection's entry stays what it is, though others change.
LEMMA OutStays ==
  ASSUME NEW old, NEW new, NEW c,
         \A i, j \in Slot : old[i].conn = c /\ old[j].conn = c => i = j,
         \A i \in Slot : /\ new[i].conn = c <=> old[i].conn = c
                         /\ old[i].conn = c => new[i].out = old[i].out
  PROVE  Out(new, c) = Out(old, c)
<1>1. CASE \E i \in Slot : old[i].conn = c
  <2>1. PICK i \in Slot : old[i].conn = c
    BY <1>1
  <2>2. \A j \in Slot : (old[j].conn = c => j = i) /\ (new[j].conn = c => j = i)
    BY <2>1
  <2>3. Out(old, c) = old[i].out
    BY <2>1, <2>2, OutIs
  <2>4. Out(new, c) = new[i].out
    BY <2>1, <2>2, OutIs
  <2> QED
    BY <2>1, <2>3, <2>4
<1>2. CASE ~\E i \in Slot : old[i].conn = c
  BY <1>2, OutIs
<1> QED
  BY <1>1, <1>2

\* What a connection was answered or is owed, by its slot's output.
LEMMA AnswersAre ==
  ASSUME NEW c
  PROVE  /\ Answers(c) = got[c] \o toClient[c] \o Out(slots, c)
         /\ Answers(c)' = got'[c] \o toClient'[c] \o Out(slots', c)
  BY DEF Answers, HasSlot, SlotOf, Out

\* Nothing happens to a connection, or nothing but to its socket.
SamePipes(c) ==
  /\ sent'[c] = sent[c] /\ toServer'[c] = toServer[c]
  /\ got'[c] = got[c] /\ toClient'[c] = toClient[c]
  /\ Out(slots', c) = Out(slots, c)
  /\ \A i \in Slot : slots'[i].conn = c => slots[i].conn = c /\ slots'[i].inbuf = slots[i].inbuf

Same(c) == SamePipes(c) /\ server'[c] = server[c]

\* A step that leaves a connection's bytes, answers and slot alone keeps what holds of it.
LEMMA Bystander ==
  ASSUME NEW c \in Conn
  PROVE  /\ SamePipes(c) => Consumed(c)' = Consumed(c) /\ Answers(c)' = Answers(c)
         /\ Streams(c) /\ Inbuf(c) /\ Fresh(c) /\ Owed(c) /\ SamePipes(c)
              /\ (server'[c] \in {"none", "queued"} => server[c] \in {"none", "queued"})
              /\ (server'[c] = "open" => server[c] = "open")
              => (Streams(c) /\ Inbuf(c) /\ Fresh(c) /\ Owed(c))'
<1>1. SamePipes(c) => Consumed(c)' = Consumed(c)
  BY DEF SamePipes, Consumed
<1>2. SamePipes(c) => Answers(c)' = Answers(c)
  BY AnswersAre DEF SamePipes
<1> QED
  BY <1>1, <1>2 DEF SamePipes, Streams, Inbuf, Fresh, Owed

-----------------------------------------------------------------------------
(* What the steps of the service are.                                      *)

Nums(c) == Scanned(Consumed(c)).numbers

SameService(c) == Nums(c)' = Nums(c) /\ Answers(c)' = Answers(c)
SameOpen(c) == server'[c] = "open" <=> server[c] = "open"

\* A sequence is a prefix of whatever continues it.
LEMMA PrefixParts ==
  ASSUME NEW p \in Seq(Nat), NEW q \in Seq(Nat)
  PROVE  /\ Service!IsPrefix(p, p \o q) /\ Service!IsPrefix(p, p)
         /\ SubSeq(p \o q, Len(p) + 1, Len(p \o q)) = q
<1>1. /\ p \o q \in Seq(Nat) /\ Len(p \o q) = Len(p) + Len(q) /\ Len(p) \in Nat /\ Len(q) \in Nat
      /\ \A i \in 1..Len(p) : (p \o q)[i] = p[i]
      /\ \A i \in 1..Len(q) : (p \o q)[Len(p) + i] = q[i]
  OBVIOUS
<1>2. SubSeq(p, 1, Len(p)) = p
  OBVIOUS
<1>3. SubSeq(p \o q, 1, Len(p)) = p
  <2> DEFINE u == SubSeq(p \o q, 1, Len(p))
  <2>1. u \in Seq(Nat) /\ Len(u) = Len(p) /\ \A i \in 1..Len(p) : u[i] = p[i]
    BY <1>1
  <2> HIDE DEF u
  <2>2. u = p
    BY <2>1, SeqEqual
  <2> QED
    BY <2>2 DEF u
<1>4. SubSeq(p \o q, Len(p) + 1, Len(p \o q)) = q
  <2> DEFINE u == SubSeq(p \o q, Len(p) + 1, Len(p \o q))
  <2>1. u \in Seq(Nat) /\ Len(u) = Len(q) /\ \A i \in 1..Len(q) : u[i] = q[i]
    BY <1>1
  <2> HIDE DEF u
  <2>2. u = q
    BY <2>1, SeqEqual
  <2> QED
    BY <2>2 DEF u
<1> QED
  BY <1>1, <1>2, <1>3, <1>4 DEF Service!IsPrefix

\* And of what continues that.
LEMMA PrefixAfter ==
  ASSUME NEW v \in Seq(Nat), NEW q \in Seq(Nat), NEW w \in Seq(Nat)
  PROVE  Service!IsPrefix(v, (v \o q) \o w)
<1>1. q \o w \in Seq(Nat) /\ (v \o q) \o w = v \o (q \o w)
  BY ConcatNats, ZenonT(60)
<1>2. PICK x \in Seq(Nat) : x = q \o w
  BY <1>1
<1> QED
  BY <1>1, <1>2, PrefixParts

\* A step that changes no number, no answer and no open connection is none of the service.
LEMMA ServiceStutters ==
  ASSUME total' = total, \A c \in Conn : SameService(c) /\ SameOpen(c)
  PROVE  UNCHANGED Service!serviceVars
<1>1. {c \in Conn : server[c] = "open"}' = {c \in Conn : server[c] = "open"}
  BY DEF SameOpen
<1>2. /\ [c \in Conn |-> Nums(c)]' = [c \in Conn |-> Nums(c)]
      /\ [c \in Conn |-> Answers(c)]' = [c \in Conn |-> Answers(c)]
  BY DEF SameService
<1> QED
  BY <1>1, <1>2 DEF Service!serviceVars, Nums

\* A connection that is given a slot is opened.
LEMMA ServiceOpens ==
  ASSUME NEW c \in Conn, total' = total, server[c] # "open", server'[c] = "open",
         \A d \in Conn : SameService(d), \A d \in Conn : d # c => SameOpen(d)
  PROVE  Service!ServiceNext
<1>1. /\ {d \in Conn : server[d] = "open"}' = {d \in Conn : server[d] = "open"} \cup {c}
      /\ c \notin {d \in Conn : server[d] = "open"}
  BY DEF SameOpen
<1>2. /\ [d \in Conn |-> Nums(d)]' = [d \in Conn |-> Nums(d)]
      /\ [d \in Conn |-> Answers(d)]' = [d \in Conn |-> Answers(d)]
  BY DEF SameService
<1>3. Service!Open(c)
  BY <1>1, <1>2 DEF Service!Open, Nums
<1> QED
  BY <1>3 DEF Service!ServiceNext

\* What is added for a connection: its new numbers, and nothing for the others.
LEMMA ServiceAdds ==
  ASSUME NEW c \in Conn, NEW ns \in Seq(Nat), Nums(c) \in Seq(Nat), server[c] = "open",
         Nums(c)' = Nums(c) \o ns, \A d \in Conn : d # c => SameService(d),
         total' = Service!After(ns, Len(ns))
  PROVE  Service!Add(c) /\ Service!New(c) = ns
<1>1. /\ c \in {d \in Conn : server[d] = "open"}
      /\ \A d \in Conn : [e \in Conn |-> Nums(e)]'[d] = Nums(d)' /\ [e \in Conn |-> Nums(e)][d] = Nums(d)
  OBVIOUS
<1>2. Service!New(c) = ns
  BY <1>1, PrefixParts DEF Service!New, Nums
<1>3. Service!IsPrefix(Nums(c), Nums(c)')
  BY PrefixParts
<1>4. \A d \in Conn \ {c} : Nums(d)' = Nums(d)
  BY DEF SameService
<1>5. Service!Add(c)
  BY <1>1, <1>2, <1>3, <1>4 DEF Service!Add, Nums
<1> QED
  BY <1>2, <1>5

\* Numbers that are added and answered are served.
LEMMA ServiceServes ==
  ASSUME NEW c \in Conn, NEW ns \in Seq(Nat), ns # <<>>, Nums(c) \in Seq(Nat), server[c] = "open",
         Nums(c)' = Nums(c) \o ns, \A d \in Conn : d # c => SameService(d),
         total' = Service!After(ns, Len(ns)), Answers(c)' = Answers(c) \o Service!Running(ns),
         \A d \in Conn : SameOpen(d)
  PROVE  Service!ServiceNext
<1>1. Service!Add(c) /\ Service!New(c) = ns
  BY ServiceAdds
<1>2. {d \in Conn : server[d] = "open"}' = {d \in Conn : server[d] = "open"}
  BY DEF SameOpen
<1>3. Nums(c)' # Nums(c)
  <2>1. PICK p \in Seq(Nat) : p = Nums(c)
    OBVIOUS
  <2>2. p \o ns # p
    OBVIOUS
  <2> QED
    BY <2>1, <2>2
<1>4. [d \in Conn |-> Answers(d)]' = [[d \in Conn |-> Answers(d)] EXCEPT ![c] = @ \o Service!Running(ns)]
  BY DEF SameService
<1>5. Service!Serve(c)
  BY <1>1, <1>2, <1>3, <1>4 DEF Service!Serve, Nums
<1> QED
  BY <1>5 DEF Service!ServiceNext

\* A connection may be closed with its last numbers added and answered in part.
LEMMA ServiceCloses ==
  ASSUME NEW c \in Conn, NEW ns \in Seq(Nat), Nums(c) \in Seq(Nat), server[c] = "open",
         Nums(c)' = Nums(c) \o ns, \A d \in Conn : d # c => SameService(d) /\ SameOpen(d),
         total' = Service!After(ns, Len(ns)), server'[c] # "open",
         Service!IsPrefix(Answers(c)', Answers(c) \o Service!Running(ns))
  PROVE  Service!ServiceNext
<1>1. Service!Add(c) /\ Service!New(c) = ns
  BY ServiceAdds
<1>2. {d \in Conn : server[d] = "open"}' = {d \in Conn : server[d] = "open"} \ {c}
  BY DEF SameOpen
<1>3. \A d \in Conn : [e \in Conn |-> Answers(e)]'[d] = Answers(d)'
                      /\ [e \in Conn |-> Answers(e)][d] = Answers(d)
  OBVIOUS
<1>4. \A d \in Conn \ {c} : Answers(d)' = Answers(d)
  BY DEF SameService
<1>5. Service!ServeAndClose(c)
  BY <1>1, <1>2, <1>3, <1>4 DEF Service!ServeAndClose
<1> QED
  BY <1>5 DEF Service!ServiceNext

\* A stop closes all connections and may drop what they are owed.
LEMMA ServiceClosesAll ==
  ASSUME total' = total, \E c \in Conn : server[c] = "open", \A c \in Conn : server'[c] # "open",
         \A c \in Conn :
           /\ Nums(c)' = Nums(c)
           /\ server[c] = "open" => Service!IsPrefix(Answers(c)', Answers(c))
           /\ server[c] # "open" => Answers(c)' = Answers(c)
  PROVE  Service!ServiceNext
<1>1. {d \in Conn : server[d] = "open"}' = {} /\ {d \in Conn : server[d] = "open"} # {}
  OBVIOUS
<1>2. [d \in Conn |-> Nums(d)]' = [d \in Conn |-> Nums(d)]
  OBVIOUS
<1>3. \A d \in Conn : [e \in Conn |-> Answers(e)]'[d] = Answers(d)'
                      /\ [e \in Conn |-> Answers(e)][d] = Answers(d)
  OBVIOUS
<1>4. Service!CloseAll
  BY <1>1, <1>2, <1>3 DEF Service!CloseAll, Nums
<1> QED
  BY <1>4 DEF Service!ServiceNext

-----------------------------------------------------------------------------
(* Steps that serve nobody.                                                *)

\* The types of what belongs to a connection.
LEMMA ConnTypes ==
  ASSUME TypeOK, NEW c \in Conn, Len(toServer[c]) <= Len(sent[c])
  PROVE  /\ Consumed(c) \in Seq(Byte) /\ toServer[c] \in Seq(Byte) /\ sent[c] \in Seq(Byte)
         /\ got[c] \in Seq(Nat) /\ toClient[c] \in Seq(Nat) /\ Out(slots, c) \in Seq(Nat)
         /\ Nums(c) \in Seq(Nat) /\ got[c] \o toClient[c] \in Seq(Nat) /\ Answers(c) \in Seq(Nat)
<1>1. /\ toServer[c] \in Seq(Byte) /\ sent[c] \in Seq(Byte)
      /\ got[c] \in Seq(Nat) /\ toClient[c] \in Seq(Nat)
  BY DEF TypeOK
<1>2. Consumed(c) \in Seq(Byte)
  BY <1>1 DEF Consumed
<1>3. Out(slots, c) \in Seq(Nat)
  <2>1. \A i \in Slot : slots[i].out \in Seq(Nat)
    BY DEF TypeOK
  <2>2. <<>> \in Seq(Nat)
    OBVIOUS
  <2>3. CASE \E i \in Slot : slots[i].conn = c
    BY <2>1, <2>3 DEF Out
  <2>4. CASE ~\E i \in Slot : slots[i].conn = c
    BY <2>2, <2>4 DEF Out
  <2> QED
    BY <2>3, <2>4
<1>4. Nums(c) \in Seq(Nat)
  BY <1>2, ScanType DEF Nums
<1>5. got[c] \o toClient[c] \in Seq(Nat)
  BY <1>1
<1>6. Answers(c) \in Seq(Nat)
  <2>1. PICK p \in Seq(Nat), o \in Seq(Nat) : p = got[c] \o toClient[c] /\ o = Out(slots, c)
    BY <1>3, <1>5
  <2>2. p \o o \in Seq(Nat)
    OBVIOUS
  <2> QED
    BY <2>1, <2>2, AnswersAre
<1> QED
  BY <1>1, <1>2, <1>3, <1>4, <1>5, <1>6

\* Nothing is received, sent or answered, and no connection is put into a slot or closed
\* that had one.
LEMMA QuietStep ==
  ASSUME Applied, UNCHANGED <<slots, pipeVars, total>>,
         \A c \in Conn : /\ SameOpen(c)
                         /\ server'[c] \in {"none", "queued"} => server[c] \in {"none", "queued"}
  PROVE  Applied' /\ UNCHANGED Service!serviceVars
<1>1. \A c \in Conn : SamePipes(c)
  BY DEF SamePipes, pipeVars
<1>2. \A c \in Conn : SameService(c)
  BY <1>1, Bystander DEF SameService, Nums
<1>3. Applied'
  BY <1>1, Bystander DEF Applied, SameOpen
<1> QED
  BY <1>2, <1>3, ServiceStutters

\* Bytes a client sends are behind those consumed.
LEMMA SendApplied ==
  ASSUME IInv, Applied, NEW c \in Conn, NEW bytes \in Seq(Byte), Send(c, bytes)
  PROVE  Applied' /\ UNCHANGED Service!serviceVars
<1>1. /\ sent' = [sent EXCEPT ![c] = @ \o bytes] /\ toServer' = [toServer EXCEPT ![c] = @ \o bytes]
      /\ UNCHANGED <<slots, total, server, client, toClient, got>>
  BY DEF Send, dataVars, connVars
<1>2. sent \in [Conn -> Seq(Byte)] /\ toServer \in [Conn -> Seq(Byte)]
  BY DEF IInv, TypeOK
<1>3. \A d \in Conn : d # c => Same(d)
  BY <1>1, <1>2 DEF Same, SamePipes
<1>4. sent'[c] = sent[c] \o bytes /\ toServer'[c] = toServer[c] \o bytes
  BY <1>1, <1>2
<1>5. Consumed(c)' = Consumed(c) /\ Streams(c)'
  <2>1. /\ Consumed(c) \in Seq(Byte) /\ toServer[c] \in Seq(Byte) /\ sent[c] = Consumed(c) \o toServer[c]
    BY ConnTypes DEF IInv, Applied, Streams
  <2>2. PICK p \in Seq(Byte), q \in Seq(Byte) : p = Consumed(c) /\ q = toServer[c]
    BY <2>1
  <2>3. q \o bytes \in Seq(Byte) /\ (p \o q) \o bytes = p \o (q \o bytes)
    BY ConcatBytes, ZenonT(60)
  <2>4. sent'[c] = p \o (q \o bytes) /\ toServer'[c] = q \o bytes
    BY <1>4, <2>1, <2>2, <2>3
  <2>5. PICK r \in Seq(Byte) : r = q \o bytes
    BY <2>3
  <2>6. sent'[c] = p \o r /\ toServer'[c] = r
    BY <2>4, <2>5
  <2>7. SubSeq(p \o r, 1, Len(p \o r) - Len(r)) = p /\ Len(r) <= Len(p \o r)
    BY Cut
  <2>8. Consumed(c)' = p
    BY <2>6, <2>7 DEF Consumed
  <2> QED
    BY <2>2, <2>6, <2>7, <2>8 DEF Streams
<1>6. Answers(c)' = Answers(c)
  BY <1>1, AnswersAre
<1>7. \A d \in Conn : SameService(d)
  <2>1. SameService(c)
    BY <1>5, <1>6 DEF SameService, Nums
  <2>2. \A d \in Conn : d # c => SameService(d)
    BY <1>3, Bystander DEF Same, SameService, Nums
  <2> QED
    BY <2>1, <2>2
<1>8. Applied'
  <2>1. \A d \in Conn : d # c => (Streams(d) /\ Inbuf(d) /\ Fresh(d) /\ Owed(d))'
    BY <1>3, Bystander DEF Same, Applied
  <2>2. (Inbuf(c) /\ Fresh(c) /\ Owed(c))'
    BY <1>1, <1>5, <1>6 DEF Applied, Inbuf, Fresh, Owed
  <2> QED
    BY <1>5, <2>1, <2>2 DEF Applied
<1> QED
  BY <1>1, <1>7, <1>8, ServiceStutters DEF SameOpen

\* A reply a client reads stays an answer.
LEMMA ReceiveApplied ==
  ASSUME IInv, Applied, NEW c \in Conn, Receive(c)
  PROVE  Applied' /\ UNCHANGED Service!serviceVars
<1>1. /\ toClient[c] # <<>> /\ got' = [got EXCEPT ![c] = Append(@, Head(toClient[c]))]
      /\ toClient' = [toClient EXCEPT ![c] = Tail(@)]
      /\ UNCHANGED <<slots, total, server, client, toServer, sent>>
  BY DEF Receive, dataVars, connVars
<1>2. got \in [Conn -> Seq(Nat)] /\ toClient \in [Conn -> Seq(Nat)]
  BY DEF IInv, TypeOK
<1>3. \A d \in Conn : d # c => Same(d)
  BY <1>1, <1>2 DEF Same, SamePipes
<1>4. got'[c] = Append(got[c], Head(toClient[c])) /\ toClient'[c] = Tail(toClient[c])
  BY <1>1, <1>2
<1>5. got'[c] \o toClient'[c] = got[c] \o toClient[c]
  <2>1. PICK p \in Seq(Nat), q \in Seq(Nat) : p = got[c] /\ q = toClient[c] /\ q # <<>>
    BY <1>1, <1>2
  <2>2. /\ <<Head(q)>> \in Seq(Nat) /\ Tail(q) \in Seq(Nat) /\ q = <<Head(q)>> \o Tail(q)
        /\ Append(p, Head(q)) = p \o <<Head(q)>>
    <3>1. /\ Head(q) \in Nat /\ Head(q) = q[1] /\ Tail(q) \in Seq(Nat) /\ Len(q) \in Nat /\ Len(q) > 0
          /\ Len(Tail(q)) = Len(q) - 1 /\ \A i \in 1..(Len(q) - 1) : Tail(q)[i] = q[i + 1]
      BY <2>1, HeadTailProperties
    <3>2. Append(p, Head(q)) = p \o <<Head(q)>>
      BY <3>1, AppendIsConcat
    <3>3. PICK h \in Nat, z \in Seq(Nat) : h = Head(q) /\ z = Tail(q)
      BY <3>1
    <3> DEFINE w == <<h>> \o z
    <3>4. w \in Seq(Nat) /\ Len(w) = Len(z) + 1 /\ w[1] = h /\ \A i \in 1..Len(z) : w[i + 1] = z[i]
      OBVIOUS
    <3> HIDE DEF w
    <3>5. \A i \in 1..Len(q) : w[i] = q[i]
      <4> SUFFICES ASSUME NEW i \in 1..Len(q) PROVE w[i] = q[i]
        OBVIOUS
      <4>1. i = 1 \/ (i - 1 \in 1..(Len(q) - 1) /\ i = (i - 1) + 1)
        BY <3>1
      <4> QED
        BY <3>1, <3>3, <3>4, <4>1
    <3>6. w = q
      BY <3>1, <3>3, <3>4, <3>5, SeqEqual
    <3> QED
      BY <3>1, <3>2, <3>3, <3>6 DEF w
  <2>3. (p \o <<Head(q)>>) \o Tail(q) = p \o (<<Head(q)>> \o Tail(q))
    <3>1. PICK a \in Seq(Nat), b \in Seq(Nat) : a = <<Head(q)>> /\ b = Tail(q)
      BY <2>2
    <3>2. (p \o a) \o b = p \o (a \o b)
      BY ConcatAssociative, SMTT(60)
    <3> QED
      BY <3>1, <3>2, Zenon
  <2> QED
    BY <1>4, <2>1, <2>2, <2>3
<1>6. Answers(c)' = Answers(c)
  BY <1>1, <1>5, AnswersAre
<1>7. Consumed(c)' = Consumed(c)
  BY <1>1 DEF Consumed
<1>8. \A d \in Conn : SameService(d)
  <2>1. SameService(c)
    BY <1>6, <1>7 DEF SameService, Nums
  <2>2. \A d \in Conn : d # c => SameService(d)
    BY <1>3, Bystander DEF Same, SameService, Nums
  <2> QED
    BY <2>1, <2>2
<1>9. Applied'
  <2>1. \A d \in Conn : d # c => (Streams(d) /\ Inbuf(d) /\ Fresh(d) /\ Owed(d))'
    BY <1>3, Bystander DEF Same, Applied
  <2>2. (Streams(c) /\ Inbuf(c) /\ Owed(c))'
    BY <1>1, <1>6, <1>7 DEF Applied, Streams, Inbuf, Owed
  <2>3. Fresh(c)'
    BY <1>1 DEF Applied, Fresh
  <2> QED
    BY <2>1, <2>2, <2>3 DEF Applied
<1> QED
  BY <1>1, <1>8, <1>9, ServiceStutters DEF SameOpen

\* A connection that gets a slot gets an empty inbuf and outbuf (server.c 331-351).
LEMMA AcceptApplied ==
  ASSUME IInv, Applied, AcceptOne
  PROVE  Applied' /\ [Service!ServiceNext]_(Service!serviceVars)
<1> DEFINE first == Head(backlog)
           free == Slot \ Occupied
<1>1. /\ backlog # <<>> /\ UNCHANGED <<total, client, pipeVars>>
      /\ \/ /\ free # {}
            /\ slots' = [slots EXCEPT ![Min(free)] = [FreeSlot EXCEPT !.conn = first]]
            /\ server' = [server EXCEPT ![first] = "open"]
         \/ /\ server' = [server EXCEPT ![first] = "closed"]
            /\ UNCHANGED slots
  BY DEF AcceptOne
<1>2. /\ backlog \in Seq(Conn) /\ server \in [Conn -> {"none", "queued", "open", "closed"}]
      /\ slots \in [Slot -> ClientSlot] /\ Sockets /\ TypeOK
  BY DEF IInv, TypeOK, ClientSlot
<1>3. PICK c \in Conn : c = first /\ server[c] = "queued"
  <2>1. first \in Conn /\ first = backlog[1] /\ 1 \in 1..Len(backlog)
    BY <1>1, <1>2, HeadTailProperties
  <2> QED
    BY <1>2, <2>1 DEF Sockets
<1> HIDE DEF first
<1>4. CASE server' = [server EXCEPT ![c] = "closed"] /\ UNCHANGED slots
  <2>1. \A d \in Conn : /\ SameOpen(d)
                        /\ server'[d] \in {"none", "queued"} => server[d] \in {"none", "queued"}
    BY <1>2, <1>3, <1>4 DEF SameOpen
  <2> QED
    BY <1>1, <1>4, <2>1, QuietStep
<1>5. CASE /\ free # {}
           /\ slots' = [slots EXCEPT ![Min(free)] = [FreeSlot EXCEPT !.conn = c]]
           /\ server' = [server EXCEPT ![c] = "open"]
  <2>1. PICK i \in Slot : i = Min(free) /\ slots[i].conn = None
    <3>1. free \in SUBSET Nat
      BY DEF Slot
    <3>2. Min(free) \in free
      BY <1>5, <3>1, MinOfNats
    <3> QED
      BY <3>2 DEF Occupied
  <2> HIDE DEF free
  <2>2. /\ \A j \in Slot : j # i => slots'[j] = slots[j]
        /\ slots'[i].conn = c /\ slots'[i].inbuf = <<>> /\ slots'[i].out = <<>>
    BY <1>2, <1>5, <2>1 DEF FreeSlot
  <2>3. \A j \in Slot : slots[j].conn # c
    BY <1>2, <1>3, ServerConstants DEF Sockets
  <2>4. \A d \in Conn : server'[d] = IF d = c THEN "open" ELSE server[d]
    BY <1>2, <1>5
  <2>5. \A d \in Conn : d # c => Same(d)
    <3> SUFFICES ASSUME NEW d \in Conn, d # c PROVE Same(d)
      OBVIOUS
    <3>1. d # None
      BY ServerConstants
    <3>2. \A j, k \in Slot : slots[j].conn = d /\ slots[k].conn = d => j = k
      BY <1>2, <3>1 DEF Sockets
    <3>3. \A j \in Slot : /\ slots'[j].conn = d <=> slots[j].conn = d
                          /\ slots[j].conn = d => slots'[j] = slots[j]
      BY <2>1, <2>2, <3>1
    <3>4. Out(slots', d) = Out(slots, d)
      BY <3>2, <3>3, OutStays
    <3> QED
      BY <1>1, <2>4, <3>3, <3>4 DEF Same, SamePipes, pipeVars
  <2>6. Out(slots, c) = <<>> /\ Out(slots', c) = <<>>
    <3>1. \A j \in Slot : slots'[j].conn = c => j = i
      BY <2>2, <2>3
    <3> QED
      BY <2>2, <2>3, <3>1, OutIs
  <2>7. Answers(c)' = Answers(c) /\ Consumed(c)' = Consumed(c)
    BY <1>1, <2>6, AnswersAre DEF pipeVars, Consumed
  <2>8. Consumed(c) = <<>> /\ got[c] = <<>> /\ toClient[c] = <<>>
    BY <1>3 DEF Applied, Fresh
  <2>9. Answers(c) = <<>>
    <3>1. <<>> \o <<>> \o <<>> = <<>>
      OBVIOUS
    <3> QED
      BY <2>6, <2>8, <3>1, AnswersAre
  <2>10. \A d \in Conn : SameService(d)
    BY <2>5, <2>7, Bystander DEF SameService, Nums, Same
  <2>11. Applied'
    <3>1. \A d \in Conn : d # c => (Streams(d) /\ Inbuf(d) /\ Fresh(d) /\ Owed(d))'
      BY <2>5, Bystander DEF Same, Applied
    <3>2. Streams(c)'
      BY <1>1, <2>7 DEF Applied, Streams, pipeVars
    <3>3. Inbuf(c)'
      BY <2>2, <2>3, <2>7, <2>8, ScanNil DEF Inbuf
    <3>4. Fresh(c)'
      BY <2>4, <1>3 DEF Fresh
    <3>5. Owed(c)'
      BY <2>7, <2>8, <2>9, ScanNil DEF Owed
    <3> QED
      BY <3>1, <3>2, <3>3, <3>4, <3>5 DEF Applied
  <2>12. \A d \in Conn : d # c => SameOpen(d)
    BY <2>4 DEF SameOpen
  <2> QED
    BY <1>1, <1>3, <2>4, <2>10, <2>11, <2>12, ServiceOpens
<1> QED
  BY <1>1, <1>3, <1>4, <1>5

\* A stop closes all connections that are open, and takes their output with it.
LEMMA StopApplied ==
  ASSUME IInv, Applied, Stop
  PROVE  Applied' /\ [Service!ServiceNext]_(Service!serviceVars)
<1>1. /\ slots' = [i \in Slot |-> FreeSlot] /\ UNCHANGED <<total, client, pipeVars>>
      /\ server' = [c \in Conn |-> IF server[c] = "none" THEN "none" ELSE "closed"]
  BY DEF Stop
<1>2. UNCHANGED <<toServer, toClient, sent, got>> /\ Sockets /\ TypeOK
  BY <1>1 DEF pipeVars, IInv
<1>3. \A c \in Conn : Consumed(c)' = Consumed(c)
  BY <1>2 DEF Consumed
<1>4. \A c \in Conn : \A i \in Slot : slots'[i].conn # c
  BY <1>1, ServerConstants DEF FreeSlot
<1>5. \A c \in Conn : Out(slots', c) = <<>> /\ (server[c] # "open" => Out(slots, c) = <<>>)
  <2> SUFFICES ASSUME NEW c \in Conn
               PROVE  Out(slots', c) = <<>> /\ (server[c] # "open" => Out(slots, c) = <<>>)
    OBVIOUS
  <2>1. Out(slots', c) = <<>>
    BY <1>4, OutIs
  <2>2. c # None
    BY ServerConstants
  <2>3. server[c] # "open" => \A i \in Slot : slots[i].conn # c
    BY <1>2, <2>2 DEF Sockets
  <2> QED
    BY <2>1, <2>3, OutIs
<1>6. \A c \in Conn : /\ Answers(c) \in Seq(Nat) /\ got[c] \o toClient[c] \in Seq(Nat)
                      /\ Out(slots, c) \in Seq(Nat) /\ Nums(c) \in Seq(Nat)
  BY <1>2, ConnTypes DEF Applied, Streams
<1>7. \A c \in Conn : /\ Service!IsPrefix(Answers(c)', Answers(c))
                      /\ server[c] # "open" => Answers(c)' = Answers(c)
                      /\ Len(Answers(c)') <= Len(Answers(c))
  <2> SUFFICES ASSUME NEW c \in Conn
               PROVE  /\ Service!IsPrefix(Answers(c)', Answers(c))
                      /\ server[c] # "open" => Answers(c)' = Answers(c)
                      /\ Len(Answers(c)') <= Len(Answers(c))
    OBVIOUS
  <2>1. PICK p \in Seq(Nat), o \in Seq(Nat) : p = got[c] \o toClient[c] /\ o = Out(slots, c)
    BY <1>6
  <2>2. p \o <<>> = p /\ Len(p) <= Len(p \o o)
    OBVIOUS
  <2>3. Answers(c) = p \o o
    BY <2>1, AnswersAre
  <2>4. Answers(c)' = p
    BY <1>2, <1>5, <2>1, <2>2, AnswersAre
  <2>5. Service!IsPrefix(p, p \o o)
    BY PrefixParts
  <2>6. server[c] # "open" => o = <<>>
    BY <1>5, <2>1
  <2> QED
    BY <2>2, <2>3, <2>4, <2>5, <2>6
<1>8. Applied'
  <2> SUFFICES ASSUME NEW c \in Conn PROVE (Streams(c) /\ Inbuf(c) /\ Fresh(c) /\ Owed(c))'
    BY DEF Applied
  <2>1. Streams(c)'
    BY <1>2, <1>3 DEF Applied, Streams
  <2>2. Inbuf(c)'
    BY <1>4 DEF Inbuf
  <2>3. Fresh(c)'
    BY <1>1, <1>2, <1>3 DEF Applied, Fresh
  <2>4. Owed(c)'
    <3>1. server'[c] # "open"
      BY <1>1
    <3>2. Len(Answers(c)) <= Len(Nums(c)) /\ Nums(c)' = Nums(c)
      BY <1>3 DEF Applied, Owed, Nums
    <3>3. /\ Len(Answers(c)) \in Nat /\ Len(Nums(c)) \in Nat /\ Len(Answers(c)') \in Nat
      <4>1. Answers(c)' \in Seq(Nat)
        <5>1. PICK p \in Seq(Nat) : p = got[c] \o toClient[c]
          BY <1>6
        <5>2. p \o <<>> = p
          OBVIOUS
        <5> QED
          BY <1>2, <1>5, <5>1, <5>2, AnswersAre
      <4> QED
        BY <1>6, <4>1
    <3>4. Len(Answers(c)') <= Len(Nums(c)')
      BY <1>7, <3>2, <3>3
    <3> QED
      BY <3>1, <3>4 DEF Owed, Nums
  <2> QED
    BY <2>1, <2>2, <2>3, <2>4
<1>9. \A c \in Conn : Nums(c)' = Nums(c)
  BY <1>3 DEF Nums
<1>10. \A c \in Conn : server'[c] # "open"
  BY <1>1
<1>11. CASE \E c \in Conn : server[c] = "open"
  BY <1>1, <1>7, <1>8, <1>9, <1>10, <1>11, ServiceClosesAll
<1>12. CASE \A c \in Conn : server[c] # "open"
  <2>1. \A c \in Conn : SameService(c) /\ SameOpen(c)
    BY <1>7, <1>9, <1>10, <1>12 DEF SameService, SameOpen
  <2> QED
    BY <1>1, <1>8, <2>1, ServiceStutters
<1> QED
  BY <1>11, <1>12

-----------------------------------------------------------------------------
(* Steps of the walk.                                                      *)

\* The slot the walk is at is that of an open connection, and of no other.
LEMMA Mine ==
  ASSUME IInv, Walking, NEW c \in Conn, c = Here
  PROVE  /\ slot \in Slot /\ slots[slot].conn = c /\ c # None /\ server[c] = "open"
         /\ slots[slot].out \in Seq(Nat) /\ slots[slot].inbuf \in Seq(Byte)
         /\ \A i, j \in Slot : slots[i].conn # None /\ slots[i].conn = slots[j].conn => i = j
         /\ \A j \in Slot : slots[j].conn = c => j = slot
         /\ Out(slots, c) = slots[slot].out
<1>1. slot \in Slot /\ slots[slot].conn = c /\ server[c] = "open"
  BY AtHere DEF Here
<1>2. c # None
  BY ServerConstants
<1>3. \A i, j \in Slot : slots[i].conn # None /\ slots[i].conn = slots[j].conn => i = j
  BY DEF IInv, Sockets
<1>4. \A j \in Slot : slots[j].conn = c => j = slot
  BY <1>1, <1>2, <1>3
<1>5. Out(slots, c) = slots[slot].out
  BY <1>1, <1>4, OutIs
<1>6. slots[slot].out \in Seq(Nat) /\ slots[slot].inbuf \in Seq(Byte)
  BY <1>1 DEF IInv, TypeOK
<1> QED
  BY <1>1, <1>2, <1>3, <1>4, <1>5, <1>6

\* What the walk does to its slot is nothing to the other connections.
LEMMA OthersKept ==
  ASSUME IInv, Walking, NEW c \in Conn, c = Here,
         \A j \in Slot : j # slot => slots'[j] = slots[j],
         slots'[slot].conn \in {c, None}
  PROVE  /\ \A d \in Conn : d # c =>
              /\ Out(slots', d) = Out(slots, d)
              /\ \A i \in Slot : slots'[i].conn = d => slots[i].conn = d /\ slots'[i].inbuf = slots[i].inbuf
         /\ slots'[slot].conn = c => Out(slots', c) = slots'[slot].out
         /\ slots'[slot].conn = None => Out(slots', c) = <<>> /\ \A i \in Slot : slots'[i].conn # c
         /\ \A i \in Slot : slots'[i].conn = c => i = slot
<1>1. /\ slot \in Slot /\ slots[slot].conn = c /\ c # None
      /\ \A i, j \in Slot : slots[i].conn # None /\ slots[i].conn = slots[j].conn => i = j
      /\ \A j \in Slot : slots[j].conn = c => j = slot
  BY Mine
<1>2. \A i \in Slot : slots'[i].conn = c => i = slot
  BY <1>1
<1>3. slots'[slot].conn = c => Out(slots', c) = slots'[slot].out
  BY <1>1, <1>2, OutIs
<1>4. slots'[slot].conn = None => Out(slots', c) = <<>> /\ \A i \in Slot : slots'[i].conn # c
  BY <1>1, <1>2, OutIs
<1>5. ASSUME NEW d \in Conn, d # c
      PROVE  /\ Out(slots', d) = Out(slots, d)
             /\ \A i \in Slot : slots'[i].conn = d => slots[i].conn = d /\ slots'[i].inbuf = slots[i].inbuf
  <2>1. d # None
    BY ServerConstants
  <2>2. \A j, k \in Slot : slots[j].conn = d /\ slots[k].conn = d => j = k
    BY <1>1, <2>1
  <2>3. \A j \in Slot : /\ slots'[j].conn = d <=> slots[j].conn = d
                        /\ slots[j].conn = d => slots'[j] = slots[j]
    BY <1>1, <1>5, <2>1
  <2>4. Out(slots', d) = Out(slots, d)
    BY <2>2, <2>3, OutStays
  <2> QED
    BY <2>3, <2>4
<1> QED
  BY <1>2, <1>3, <1>4, <1>5

\* What recv takes is consumed.
LEMMA Reading ==
  ASSUME TypeOK, NEW c \in Conn, Streams(c), NEW chunk \in Seq(Byte), NEW rest \in Seq(Byte),
         toServer[c] = chunk \o rest, toServer'[c] = rest, sent'[c] = sent[c]
  PROVE  Consumed(c)' = Consumed(c) \o chunk /\ Streams(c)'
<1>1. Consumed(c) \in Seq(Byte) /\ sent[c] = Consumed(c) \o (chunk \o rest)
  BY ConnTypes DEF Streams
<1>2. PICK p \in Seq(Byte) : p = Consumed(c)
  BY <1>1
<1>3. p \o chunk \in Seq(Byte) /\ (p \o chunk) \o rest = p \o (chunk \o rest)
  BY ConcatBytes, ZenonT(60)
<1>4. PICK u \in Seq(Byte) : u = p \o chunk
  BY <1>3
<1>5. sent'[c] = u \o rest /\ toServer'[c] = rest
  BY <1>1, <1>2, <1>3, <1>4
<1>6. SubSeq(u \o rest, 1, Len(u \o rest) - Len(rest)) = u /\ Len(rest) <= Len(u \o rest)
  BY Cut
<1>7. Consumed(c)' = u
  BY <1>5, <1>6 DEF Consumed
<1> QED
  BY <1>2, <1>4, <1>5, <1>6, <1>7 DEF Streams

\* Closing the connection the walk is at, its last chunk parsed and a part of its output gone.
LEMMA CloseApplied ==
  ASSUME IInv, Applied, Walking, NEW c \in Conn, c = Here, CloseHere, UNCHANGED <<sent, got>>,
         \A d \in Conn : d # c => toServer'[d] = toServer[d] /\ toClient'[d] = toClient[d],
         NEW chunk \in Seq(Byte), NEW rest \in Seq(Byte), NEW ns \in Seq(Nat),
         NEW p \in Seq(Nat), NEW q \in Seq(Nat),
         toServer[c] = chunk \o rest, toServer'[c] = rest,
         Scanned(Consumed(c) \o chunk).numbers = Nums(c) \o ns,
         total' = Service!After(ns, Len(ns)),
         slots[slot].out = p \o q, toClient'[c] = toClient[c] \o p
  PROVE  Applied' /\ Service!ServiceNext
<1>1. /\ slot \in Slot /\ slots[slot].conn = c /\ server[c] = "open" /\ Out(slots, c) = p \o q
  BY Mine
<1>2. /\ slots' = [slots EXCEPT ![slot] = FreeSlot] /\ server' = [server EXCEPT ![c] = "closed"]
      /\ slots \in [Slot -> ClientSlot] /\ server \in [Conn -> {"none", "queued", "open", "closed"}]
      /\ TypeOK /\ total \in Nat
  BY DEF CloseHere, IInv, TypeOK, ClientSlot
<1>3. /\ \A j \in Slot : j # slot => slots'[j] = slots[j]
      /\ slots'[slot].conn = None
      /\ \A d \in Conn : server'[d] = IF d = c THEN "closed" ELSE server[d]
  BY <1>1, <1>2 DEF FreeSlot
<1>4. /\ \A d \in Conn : d # c =>
           /\ Out(slots', d) = Out(slots, d)
           /\ \A i \in Slot : slots'[i].conn = d => slots[i].conn = d /\ slots'[i].inbuf = slots[i].inbuf
      /\ Out(slots', c) = <<>> /\ \A i \in Slot : slots'[i].conn # c
  BY <1>3, OthersKept
<1>5. \A d \in Conn : d # c => Same(d)
  BY <1>3, <1>4 DEF Same, SamePipes
<1>6. /\ got[c] \in Seq(Nat) /\ toClient[c] \in Seq(Nat) /\ Nums(c) \in Seq(Nat) /\ Answers(c) \in Seq(Nat)
  BY <1>2, ConnTypes DEF Applied, Streams
<1>7. Consumed(c)' = Consumed(c) \o chunk /\ Streams(c)'
  BY <1>2, Reading DEF Applied
<1>8. Nums(c)' = Nums(c) \o ns
  BY <1>7 DEF Nums
<1>9. PICK g \in Seq(Nat), t \in Seq(Nat), n \in Seq(Nat) : g = got[c] /\ t = toClient[c] /\ n = Nums(c)
  BY <1>6
<1>10. PICK v \in Seq(Nat) : PartOut(g, t, p, q, v)
  BY PartGoesOut
<1>12. Answers(c)' = v /\ Answers(c) = v \o q
  <2>1. Answers(c)' = (g \o (t \o p)) \o <<>>
    <3>1. got'[c] = g /\ toClient'[c] = t \o p
      BY <1>9
    <3>2. Out(slots', c) = <<>>
      BY <1>4
    <3>3. Answers(c)' = got'[c] \o toClient'[c] \o Out(slots', c)
      BY AnswersAre, ZenonT(60)
    <3> QED
      BY <3>1, <3>2, <3>3, Zenon
  <2>2. Answers(c) = (g \o t) \o (p \o q)
    BY <1>1, <1>9, AnswersAre, ZenonT(60)
  <2> QED
    BY <1>10, <2>1, <2>2, Zenon DEF PartOut
<1>13. Len(v) <= Len(v \o q)
  OBVIOUS
<1>14. Applied'
  <2>1. \A d \in Conn : d # c => (Streams(d) /\ Inbuf(d) /\ Fresh(d) /\ Owed(d))'
    BY <1>5, Bystander DEF Same, Applied
  <2>2. (Inbuf(c) /\ Fresh(c))'
    BY <1>3, <1>4 DEF Inbuf, Fresh
  <2>3. Owed(c)'
    <3>1. Len(v \o q) <= Len(n)
      BY <1>9, <1>12 DEF Applied, Owed, Nums
    <3>2. Len(v) <= Len(n \o ns)
      BY <3>1
    <3> QED
      BY <1>3, <1>8, <1>9, <1>12, <3>2 DEF Owed, Nums
  <2> QED
    BY <1>7, <2>1, <2>2, <2>3 DEF Applied
<1>15. \A d \in Conn : d # c => SameService(d) /\ SameOpen(d)
  BY <1>5, Bystander DEF Same, SameService, SameOpen, Nums
<1>16. Service!IsPrefix(Answers(c)', Answers(c) \o Service!Running(ns))
  <2>1. Service!Running(ns) \in Seq(Nat)
    BY <1>2, ServiceTotals, TotalsType
  <2>2. PICK w \in Seq(Nat) : w = Service!Running(ns)
    BY <2>1
  <2>3. Service!IsPrefix(v, (v \o q) \o w)
    BY PrefixAfter
  <2> QED
    BY <1>12, <2>2, <2>3
<1>17. server'[c] # "open"
  BY <1>3
<1> QED
  BY <1>1, <1>6, <1>8, <1>14, <1>15, <1>16, <1>17, ServiceCloses

\* A chunk is cut off what is on the way, and all of it is in inbuf then.
ChunkOf(c, r, buf, chunk, rest) ==
  /\ chunk = SubSeq(toServer[c], 1, r) /\ rest = SubSeq(toServer[c], r + 1, Len(toServer[c]))
  /\ toServer[c] = chunk \o rest
  /\ buf \in Seq(Byte) /\ Len(buf) <= InCap /\ Parsed(buf) \in Seq(Nat)
  /\ Scanned(Consumed(c) \o chunk).numbers = Nums(c) \o Parsed(buf)
  /\ Scanned(Consumed(c) \o chunk).line = Leftover(buf)
  /\ Scanned(Consumed(c) \o chunk).bad <=> Rejected(buf) # {}

\* What one recv leaves to parse, inbuf and the chunk, is scanned as the whole stream is.
LEMMA ChunkScanned ==
  ASSUME IInv, Applied, at = "recv", NEW c \in Conn, c = Here, toServer[c] # <<>>, NEW r, NEW buf,
         r = Min({Chunk, Len(toServer[c])}), buf = slots[slot].inbuf \o SubSeq(toServer[c], 1, r)
  PROVE  \E chunk, rest \in Seq(Byte) : ChunkOf(c, r, buf, chunk, rest)
<1>0. Walking /\ TypeOK
  BY DEF Walking, IInv
<1>1. r \in 1..Len(toServer[c]) /\ buf \in Seq(Byte) /\ Len(buf) <= InCap
  BY ChunkFits
<1>2. toServer[c] \in Seq(Byte) /\ Consumed(c) \in Seq(Byte) /\ slots[slot].conn = c /\ slot \in Slot
  BY <1>0, ConnTypes, Mine DEF Applied, Streams
<1>3. PICK bytes \in Seq(Byte) : bytes = toServer[c]
  BY <1>2
<1>4. /\ SubSeq(bytes, 1, r) \in Seq(Byte) /\ SubSeq(bytes, r + 1, Len(bytes)) \in Seq(Byte)
      /\ SubSeq(bytes, 1, r) \o SubSeq(bytes, r + 1, Len(bytes)) = bytes
  BY <1>1, <1>3, TwoParts
<1>5. PICK chunk \in Seq(Byte), rest \in Seq(Byte) :
        chunk = SubSeq(bytes, 1, r) /\ rest = SubSeq(bytes, r + 1, Len(bytes)) /\ chunk \o rest = bytes
  BY <1>4
<1>6. ~Scanned(Consumed(c)).bad /\ Scanned(Consumed(c)).line = slots[slot].inbuf
  BY <1>2 DEF Applied, Inbuf
<1>7. buf = slots[slot].inbuf \o chunk
  BY <1>3, <1>5
<1>8. /\ Scanned(Consumed(c) \o chunk).line = Scanned(buf).line
      /\ Scanned(Consumed(c) \o chunk).bad <=> Scanned(buf).bad
      /\ Scanned(Consumed(c) \o chunk).numbers = Nums(c) \o Scanned(buf).numbers
  <2>1. PICK s, l : s \in Seq(Byte) /\ s = Consumed(c) /\ l = slots[slot].inbuf
    BY <1>2
  <2>2. l = Scanned(s).line /\ ~Scanned(s).bad
    BY <1>6, <2>1
  <2>3. ScanJoin(s, chunk, l)
    BY <2>1, <2>2, ScanConcat, Zenon
  <2> QED
    BY <1>7, <2>1, <2>3, Zenon DEF Nums, ScanJoin
<1>9. /\ Scanned(buf).line = Leftover(buf) /\ Scanned(buf).numbers = Parsed(buf)
      /\ Scanned(buf).bad <=> Rejected(buf) # {}
  BY <1>1, ParseIsScan
<1>10. Parsed(buf) \in Seq(Nat)
  BY <1>1, ParsedType
<1>11. /\ Scanned(Consumed(c) \o chunk).line = Leftover(buf)
       /\ Scanned(Consumed(c) \o chunk).bad <=> Rejected(buf) # {}
       /\ Scanned(Consumed(c) \o chunk).numbers = Nums(c) \o Parsed(buf)
  BY <1>8, <1>9, ZenonT(30)
<1> QED
  BY <1>1, <1>3, <1>5, <1>10, <1>11, ZenonT(60) DEF ChunkOf

\* A chunk that is parsed is served, or served and the connection closed (server.c 379-404).
LEMMA ReadChunkApplied ==
  ASSUME IInv, Applied, ReadChunk
  PROVE  Applied' /\ [Service!ServiceNext]_(Service!serviceVars)
<1>1. at = "recv" /\ Walking /\ toServer[Here] # <<>>
      /\ UNCHANGED <<stopFlag, pfds, backlog, client, toClient, sent, got, accepted>>
  BY DEF ReadChunk, Walking
<1>2. PICK c \in Conn : c = Here
  BY <1>1, AtHere
<1>3. PICK r, buf : /\ r = Min({Chunk, Len(toServer[c])})
                    /\ buf = slots[slot].inbuf \o SubSeq(toServer[c], 1, r)
  OBVIOUS
<1>p. PICK chunk \in Seq(Byte), rest \in Seq(Byte) : ChunkOf(c, r, buf, chunk, rest)
  BY <1>1, <1>2, <1>3, ChunkScanned
<1>4. /\ chunk = SubSeq(toServer[c], 1, r) /\ rest = SubSeq(toServer[c], r + 1, Len(toServer[c]))
      /\ toServer[c] = chunk \o rest
      /\ buf \in Seq(Byte) /\ Len(buf) <= InCap /\ Parsed(buf) \in Seq(Nat)
      /\ Scanned(Consumed(c) \o chunk).numbers = Nums(c) \o Parsed(buf)
      /\ Scanned(Consumed(c) \o chunk).line = Leftover(buf)
      /\ Scanned(Consumed(c) \o chunk).bad <=> Rejected(buf) # {}
  BY <1>p DEF ChunkOf
<1>5. PICK new : new = Totals(total, Parsed(buf))
  OBVIOUS
<1>6. /\ toServer' = [toServer EXCEPT ![c] = rest]
      /\ total' = (IF new = <<>> THEN total ELSE Last(new))
      /\ \/ CloseHere
         \/ /\ ~ParseFails(buf)
            /\ slots' = [slots EXCEPT ![slot].inbuf = Leftover(buf), ![slot].out = @ \o new]
            /\ UNCHANGED server
  BY <1>2, <1>3, <1>4, <1>5 DEF ReadChunk
<1>7. /\ slot \in Slot /\ slots[slot].conn = c /\ server[c] = "open"
      /\ slots[slot].out \in Seq(Nat) /\ Out(slots, c) = slots[slot].out
  BY <1>1, <1>2, Mine
<1>8. TypeOK /\ total \in Nat /\ toServer \in [Conn -> Seq(Byte)] /\ slots \in [Slot -> ClientSlot]
  BY DEF IInv, TypeOK, ClientSlot
<1>9. /\ total' = Service!After(Parsed(buf), Len(Parsed(buf)))
      /\ Service!Running(Parsed(buf)) = new /\ new \in Seq(Nat)
      /\ Parsed(buf) = <<>> <=> new = <<>>
      /\ Len(new) = Len(Parsed(buf))
  BY <1>4, <1>5, <1>6, <1>8, ServiceTotals, TotalsType
<1>10. /\ toServer'[c] = rest
       /\ \A d \in Conn : d # c => toServer'[d] = toServer[d] /\ toClient'[d] = toClient[d]
  BY <1>1, <1>6, <1>8
<1>11. PICK out \in Seq(Nat) : out = slots[slot].out
  BY <1>7
<1>12. CASE CloseHere
  <2>1. toClient[c] \in Seq(Nat)
    BY <1>8 DEF TypeOK
  <2>2. PICK t \in Seq(Nat) : t = toClient[c]
    BY <2>1
  <2>3. <<>> \in Seq(Nat) /\ <<>> \o out = out /\ t \o <<>> = t
    OBVIOUS
  <2>4. PICK p \in Seq(Nat) : p \o out = out /\ t \o p = t
    BY <2>3
  <2>5. slots[slot].out = p \o out /\ toClient'[c] = toClient[c] \o p
    BY <1>1, <1>11, <2>2, <2>4
  <2> QED
    BY <1>1, <1>2, <1>4, <1>9, <1>10, <1>12, <2>5, CloseApplied
<1>13. CASE /\ ~ParseFails(buf)
            /\ slots' = [slots EXCEPT ![slot].inbuf = Leftover(buf), ![slot].out = @ \o new]
            /\ UNCHANGED server
  <2>1. /\ \A j \in Slot : j # slot => slots'[j] = slots[j]
        /\ slots'[slot].conn = c /\ slots'[slot].inbuf = Leftover(buf) /\ slots'[slot].out = out \o new
    BY <1>7, <1>8, <1>11, <1>13 DEF ClientSlot
  <2>2. /\ \A d \in Conn : d # c =>
             /\ Out(slots', d) = Out(slots, d)
             /\ \A i \in Slot : slots'[i].conn = d => slots[i].conn = d /\ slots'[i].inbuf = slots[i].inbuf
        /\ Out(slots', c) = out \o new /\ \A i \in Slot : slots'[i].conn = c => i = slot
    BY <1>1, <1>2, <2>1, OthersKept
  <2>3. \A d \in Conn : d # c => Same(d)
    BY <1>1, <1>10, <1>13, <2>2 DEF Same, SamePipes
  <2>4. Consumed(c)' = Consumed(c) \o chunk /\ Streams(c)'
    BY <1>1, <1>4, <1>8, <1>10, Reading DEF Applied
  <2>5. Nums(c)' = Nums(c) \o Parsed(buf)
    BY <1>4, <2>4 DEF Nums
  <2>6. got[c] \o toClient[c] \in Seq(Nat) /\ Nums(c) \in Seq(Nat) /\ Answers(c) \in Seq(Nat)
    BY <1>8, ConnTypes DEF Applied, Streams
  <2>7. PICK g \in Seq(Nat) : g = got[c] \o toClient[c]
    BY <2>6
  <2>8. PICK w \in Seq(Nat) : w = new
    BY <1>9
  <2>9. g \o (out \o w) = (g \o out) \o w
    BY ConcatNats, ZenonT(60)
  <2>10. Answers(c)' = Answers(c) \o new
    <3>1. got'[c] \o toClient'[c] = g
      BY <1>1, <2>7, Zenon
    <3>2. Answers(c)' = g \o (out \o w)
      BY <2>2, <2>8, <3>1, AnswersAre, ZenonT(60)
    <3>3. Answers(c) = g \o out
      BY <1>7, <1>11, <2>7, AnswersAre, ZenonT(60)
    <3> QED
      BY <2>8, <2>9, <3>2, <3>3, Zenon
  <2>11. \A d \in Conn : (d # c => SameService(d)) /\ SameOpen(d)
    BY <1>13, <2>3, Bystander DEF Same, SameService, SameOpen, Nums
  <2>12. Applied'
    <3>1. \A d \in Conn : d # c => (Streams(d) /\ Inbuf(d) /\ Fresh(d) /\ Owed(d))'
      BY <2>3, Bystander DEF Same, Applied
    <3>2. Inbuf(c)'
      BY <1>4, <1>13, <2>1, <2>2, <2>4 DEF Inbuf, ParseFails
    <3>3. Fresh(c)'
      BY <1>7, <1>13 DEF Fresh
    <3>4. Owed(c)'
      <4>1. Len(Answers(c)) = Len(Nums(c))
        BY <1>7 DEF Applied, Owed, Nums
      <4>2. PICK n \in Seq(Nat), a \in Seq(Nat), ns \in Seq(Nat) :
              n = Nums(c) /\ a = Answers(c) /\ ns = Parsed(buf)
        BY <1>4, <2>6
      <4>3. Len(a \o w) = Len(n \o ns) /\ Len(a \o w) <= Len(n \o ns)
        <5>1. Len(a) = Len(n) /\ Len(w) = Len(ns)
          BY <1>9, <2>8, <4>1, <4>2
        <5> QED
          BY <5>1, SameLength, Zenon
      <4>4. Answers(c)' = a \o w /\ Nums(c)' = n \o ns
        BY <2>5, <2>8, <2>10, <4>2, Zenon
      <4> QED
        BY <4>3, <4>4, Zenon DEF Owed, Nums
    <3> QED
      BY <2>4, <3>1, <3>2, <3>3, <3>4 DEF Applied
  <2>13. CASE Parsed(buf) = <<>>
    <3>1. new = <<>> /\ total' = total
      BY <1>6, <1>9, <2>13
    <3>2. \A x \in Seq(Nat) : x \o <<>> = x
      OBVIOUS
    <3>3. SameService(c)
      BY <2>5, <2>6, <2>10, <2>13, <3>1, <3>2 DEF SameService
    <3> QED
      BY <2>11, <2>12, <3>1, <3>3, ServiceStutters
  <2>14. CASE Parsed(buf) # <<>>
    BY <1>4, <1>7, <1>9, <2>5, <2>6, <2>10, <2>11, <2>12, <2>14, ServiceServes
  <2> QED
    BY <2>13, <2>14
<1> QED
  BY <1>6, <1>12, <1>13

\* A connection is closed without a look at what it has sent.
LEMMA DropApplied ==
  ASSUME IInv, Applied, Walking, NEW c \in Conn, c = Here, CloseHere, UNCHANGED <<sent, got, total, toServer>>,
         \A d \in Conn : d # c => toClient'[d] = toClient[d],
         NEW p \in Seq(Nat), NEW q \in Seq(Nat),
         slots[slot].out = p \o q, toClient'[c] = toClient[c] \o p
  PROVE  Applied' /\ Service!ServiceNext
<1>1. TypeOK /\ total \in Nat
  BY DEF IInv, TypeOK
<1>2. toServer[c] \in Seq(Byte) /\ Consumed(c) \in Seq(Byte) /\ Nums(c) \in Seq(Nat)
  BY <1>1, ConnTypes DEF Applied, Streams
<1>n. <<>> \in Seq(Byte) /\ <<>> \in Seq(Nat)
  OBVIOUS
<1>3. PICK chunk \in Seq(Byte), ns \in Seq(Nat) : chunk = <<>> /\ ns = <<>>
  BY <1>n
<1>4. toServer[c] = chunk \o toServer[c] /\ Consumed(c) \o chunk = Consumed(c)
  <2>1. \A x \in Seq(Byte) : <<>> \o x = x /\ x \o <<>> = x
    OBVIOUS
  <2> QED
    BY <1>2, <1>3, <2>1
<1>5. Scanned(Consumed(c) \o chunk).numbers = Nums(c) \o ns
  <2>1. \A x \in Seq(Nat) : x \o <<>> = x
    OBVIOUS
  <2> QED
    BY <1>2, <1>3, <1>4, <2>1 DEF Nums
<1>6. total' = Service!After(ns, Len(ns))
  BY <1>1, <1>3, ServiceTotals
<1>7. PICK rest \in Seq(Byte) : rest = toServer[c]
  BY <1>2
<1>8. toServer[c] = chunk \o rest /\ toServer'[c] = rest
  BY <1>4, <1>7
<1> QED
  BY <1>5, <1>6, <1>8, CloseApplied

\* A look at the entry, or a recv that returns nothing: the slot is given up or nothing changes.
LEMMA LookApplied ==
  ASSUME IInv, Applied, Walking, UNCHANGED <<total, client, toServer, toClient, sent, got>>,
         CloseHere \/ UNCHANGED <<slots, server>>
  PROVE  Applied' /\ [Service!ServiceNext]_(Service!serviceVars)
<1>1. CASE UNCHANGED <<slots, server>>
  BY <1>1, QuietStep DEF pipeVars, SameOpen
<1>2. CASE CloseHere
  <2>1. PICK c \in Conn : c = Here
    BY AtHere
  <2>2. slots[slot].out \in Seq(Nat) /\ toClient[c] \in Seq(Nat)
    BY <2>1, Mine DEF IInv, TypeOK
  <2>3. PICK q \in Seq(Nat), t \in Seq(Nat) : q = slots[slot].out /\ t = toClient[c]
    BY <2>2
  <2>4. <<>> \in Seq(Nat) /\ <<>> \o q = q /\ t \o <<>> = t
    OBVIOUS
  <2>5. PICK p \in Seq(Nat) : p \o q = q /\ t \o p = t
    BY <2>4
  <2>6. slots[slot].out = p \o q /\ toClient'[c] = toClient[c] \o p
    BY <2>3, <2>5
  <2> QED
    BY <1>2, <2>1, <2>6, DropApplied
<1> QED
  BY <1>1, <1>2

\* The output is cut in what goes out and what is left.
LEMMA Cuts ==
  ASSUME NEW out \in Seq(Nat), NEW k \in 0..Len(out)
  PROVE  /\ SubSeq(out, 1, k) \in Seq(Nat) /\ Unsent(out, k) \in Seq(Nat)
         /\ out = SubSeq(out, 1, k) \o Unsent(out, k)
<1>1. CASE k = 0
  <2>1. SubSeq(out, 1, 0) = <<>> /\ SubSeq(out, 0 + 1, Len(out)) = out
    OBVIOUS
  <2>2. <<>> \o out = out /\ <<>> \in Seq(Nat)
    OBVIOUS
  <2> QED
    BY <1>1, <2>1, <2>2 DEF Unsent
<1>2. CASE k # 0
  <2>1. k \in 1..Len(out)
    BY <1>2
  <2> QED
    BY <2>1, TwoParts DEF Unsent
<1> QED
  BY <1>1, <1>2

\* What goes out when the walk leaves a slot is a part of its output.
LEMMA Flushes ==
  ASSUME IInv, FinishSlot, NEW c \in Conn, c = Here, NEW out \in Seq(Nat), out = slots[slot].out
  PROVE  \E k \in 0..Len(out) :
           /\ toClient' = [toClient EXCEPT ![c] = @ \o SubSeq(out, 1, k)]
           /\ \/ CloseHere /\ (client[c] = "closed" \/ Complete(out, k))
              \/ slots' = [slots EXCEPT ![slot].out = Unsent(out, k)] /\ UNCHANGED server
<1>1. PICK k :
        /\ k = 0 \/ k = Min({SockCap - Len(toClient[c]), Len(out)})
        /\ toClient' = [toClient EXCEPT ![c] = @ \o SubSeq(out, 1, k)]
        /\ \/ CloseHere /\ (client[c] = "closed" \/ Complete(out, k))
           \/ slots' = [slots EXCEPT ![slot].out = Unsent(out, k)] /\ UNCHANGED server
  BY DEF FinishSlot
<1>2. SockCap - Len(toClient[c]) \in Nat
  <2>1. Len(toClient[c]) \in Nat /\ Len(toClient[c]) <= SockCap
    BY DEF IInv, TypeOK, Room
  <2> QED
    BY <2>1, ServerConstants
<1>3. PICK m \in Nat : m = SockCap - Len(toClient[c])
  BY <1>2
<1>4. Len(out) \in Nat
  OBVIOUS
<1>5. {m, Len(out)} \in SUBSET Nat /\ {m, Len(out)} # {}
  BY <1>4
<1>6. Min({m, Len(out)}) \in {m, Len(out)} /\ Min({m, Len(out)}) <= Len(out)
  BY <1>5, MinOfNats
<1>7. k = 0 \/ k = Min({m, Len(out)})
  BY <1>1, <1>3
<1>8. k \in 0..Len(out)
  BY <1>4, <1>6, <1>7
<1> QED
  BY <1>1, <1>8, Zenon

\* A flush moves replies from the slot to the socket; the end of a connection drops the rest
\* (server.c 168-190, 406-418).
LEMMA FinishSlotApplied ==
  ASSUME IInv, Applied, FinishSlot
  PROVE  Applied' /\ [Service!ServiceNext]_(Service!serviceVars)
<1>1. Walking /\ at = "finish" /\ UNCHANGED <<total, client, toServer, sent, got, accepted>>
  BY DEF FinishSlot, Walking
<1>2. PICK c \in Conn : c = Here
  BY <1>1, AtHere
<1>3. /\ slot \in Slot /\ slots[slot].conn = c /\ server[c] = "open"
      /\ slots[slot].out \in Seq(Nat) /\ Out(slots, c) = slots[slot].out
  BY <1>1, <1>2, Mine
<1>4. TypeOK /\ Room /\ toClient \in [Conn -> Seq(Nat)] /\ slots \in [Slot -> ClientSlot]
  BY DEF IInv, TypeOK, ClientSlot
<1>5. PICK out \in Seq(Nat) : out = slots[slot].out
  BY <1>3
<1>6. PICK k \in 0..Len(out) :
        /\ toClient' = [toClient EXCEPT ![c] = @ \o SubSeq(out, 1, k)]
        /\ \/ CloseHere /\ (client[c] = "closed" \/ Complete(out, k))
           \/ slots' = [slots EXCEPT ![slot].out = Unsent(out, k)] /\ UNCHANGED server
  BY <1>2, <1>5, Flushes
<1>8. PICK p \in Seq(Nat), q \in Seq(Nat) : p = SubSeq(out, 1, k) /\ q = Unsent(out, k) /\ out = p \o q
  BY Cuts
<1>9. /\ toClient'[c] = toClient[c] \o p
      /\ \A d \in Conn : d # c => toClient'[d] = toClient[d]
  BY <1>4, <1>6, <1>8
<1>10. CASE CloseHere
  BY <1>1, <1>2, <1>5, <1>8, <1>9, <1>10, DropApplied
<1>11. CASE slots' = [slots EXCEPT ![slot].out = Unsent(out, k)] /\ UNCHANGED server
  <2>1. /\ \A j \in Slot : j # slot => slots'[j] = slots[j]
        /\ slots'[slot].conn = c /\ slots'[slot].inbuf = slots[slot].inbuf /\ slots'[slot].out = q
    BY <1>3, <1>4, <1>8, <1>11 DEF ClientSlot
  <2>2. /\ \A d \in Conn : d # c =>
             /\ Out(slots', d) = Out(slots, d)
             /\ \A i \in Slot : slots'[i].conn = d => slots[i].conn = d /\ slots'[i].inbuf = slots[i].inbuf
        /\ Out(slots', c) = q /\ \A i \in Slot : slots'[i].conn = c => i = slot
    BY <1>1, <1>2, <2>1, OthersKept
  <2>3. \A d \in Conn : d # c => Same(d)
    BY <1>1, <1>9, <1>11, <2>2 DEF Same, SamePipes
  <2>4. Consumed(c)' = Consumed(c)
    BY <1>1 DEF Consumed
  <2>5. Answers(c)' = Answers(c)
    <3>1. got[c] \in Seq(Nat) /\ toClient[c] \in Seq(Nat)
      BY <1>4 DEF TypeOK
    <3>2. PICK g \in Seq(Nat), t \in Seq(Nat) : g = got[c] /\ t = toClient[c]
      BY <3>1
    <3>3. PICK v \in Seq(Nat) : PartOut(g, t, p, q, v)
      BY PartGoesOut
    <3>4. (g \o (t \o p)) \o q = (g \o t) \o (p \o q)
      <4>1. g \o (t \o p) \in Seq(Nat)
        OBVIOUS
      <4>2. \A x \in Seq(Nat) : x \o <<>> = x
        OBVIOUS
      <4> QED
        BY <3>3, <4>1, <4>2, Zenon DEF PartOut
    <3>5. Answers(c)' = (g \o (t \o p)) \o q
      BY <1>1, <1>9, <2>2, <3>2, AnswersAre, ZenonT(60)
    <3>6. Answers(c) = (g \o t) \o (p \o q)
      BY <1>3, <1>5, <1>8, <3>2, AnswersAre, ZenonT(60)
    <3> QED
      BY <3>4, <3>5, <3>6, Zenon
  <2>6. \A d \in Conn : SameService(d) /\ SameOpen(d)
    <3>1. \A d \in Conn : d # c => SameService(d) /\ SameOpen(d)
      BY <2>3, Bystander DEF Same, SameService, SameOpen, Nums
    <3> QED
      BY <1>11, <2>4, <2>5, <3>1 DEF SameService, SameOpen, Nums
  <2>7. Applied'
    <3>1. \A d \in Conn : d # c => (Streams(d) /\ Inbuf(d) /\ Fresh(d) /\ Owed(d))'
      BY <2>3, Bystander DEF Same, Applied
    <3>2. Streams(c)' /\ Owed(c)'
      BY <1>1, <1>11, <2>4, <2>5 DEF Applied, Streams, Owed
    <3>3. Inbuf(c)'
      BY <1>3, <2>1, <2>2, <2>4 DEF Applied, Inbuf
    <3>4. Fresh(c)'
      BY <1>3, <1>11 DEF Fresh
    <3> QED
      BY <3>1, <3>2, <3>3, <3>4 DEF Applied
  <2> QED
    BY <1>1, <2>6, <2>7, ServiceStutters
<1> QED
  BY <1>6, <1>10, <1>11

-----------------------------------------------------------------------------
(* Every step, whatever the clients send.                                  *)

AnyPeer(c) ==
  \/ Connect(c)
  \/ \E bytes \in Seq(Byte) : Send(c, bytes)
  \/ Receive(c)
  \/ Shutdown(c)
  \/ Close(c)

AnyNext == Server \/ AcceptError \/ Signal \/ \E c \in Conn : AnyPeer(c)

CInv == IInv /\ Applied /\ AtEnd

\* The steps of the specification are among them.
LEMMA NextIsAny == [Next]_vars => [AnyNext]_vars
<1> SUFFICES ASSUME Next PROVE AnyNext \/ UNCHANGED vars
  OBVIOUS
<1>1. ASSUME NEW c \in Conn, Peer(c) PROVE AnyPeer(c)
  <2>1. \A b \in Byte : <<b>> \in Seq(Byte)
    OBVIOUS
  <2> QED
    BY <1>1, <2>1, Zenon DEF Peer, AnyPeer
<1> QED
  BY <1>1, Zenon DEF Next, CalmNext, AnyNext, Ended

\* They keep the table and the sockets in step.
LEMMA AnyStepInv == IInv /\ [AnyNext]_vars => IInv'
<1>1. Server \/ AcceptError \/ Signal \/ UNCHANGED vars => [Next]_vars
  BY Zenon DEF Next, CalmNext
<1>2. ASSUME IInv, NEW c \in Conn, AnyPeer(c) PROVE IInv'
  BY <1>2, ConnectInv, SendInv, ReceiveInv, LeaveInv DEF AnyPeer
<1> QED
  BY <1>1, <1>2, StepInv DEF AnyNext

\* They keep what is applied to the counter, and are steps of the service.
LEMMA AnyStepApplied ==
  ASSUME IInv, Applied, [AnyNext]_vars
  PROVE  Applied' /\ [Service!ServiceNext]_(Service!serviceVars)
<1>1. CASE Poll \/ AcceptDone \/ AcceptError \/ Signal \/ UNCHANGED vars
  <2>1. UNCHANGED <<slots, total, server, pipeVars>>
    BY <1>1 DEF Poll, PollOnce, AcceptDone, AcceptError, Signal, vars, dataVars, connVars
  <2> QED
    BY <2>1, QuietStep DEF SameOpen
<1>2. ASSUME NEW c \in Conn, Connect(c)
      PROVE  Applied' /\ UNCHANGED Service!serviceVars
  <2>1. /\ client[c] = "none" /\ server' = [server EXCEPT ![c] = "queued"]
        /\ UNCHANGED <<slots, total, pipeVars>>
    BY <1>2 DEF Connect, dataVars
  <2>2. server[c] = "none" /\ server \in [Conn -> {"none", "queued", "open", "closed"}]
    BY <2>1 DEF IInv, Sockets, TypeOK
  <2>3. \A d \in Conn : /\ SameOpen(d)
                        /\ server'[d] \in {"none", "queued"} => server[d] \in {"none", "queued"}
    BY <2>1, <2>2 DEF SameOpen
  <2> QED
    BY <2>1, <2>3, QuietStep
<1>3. ASSUME NEW c \in Conn, Shutdown(c) \/ Close(c)
      PROVE  Applied' /\ UNCHANGED Service!serviceVars
  <2>1. UNCHANGED <<slots, total, server, pipeVars>>
    BY <1>3 DEF Shutdown, Close, dataVars
  <2> QED
    BY <2>1, QuietStep DEF SameOpen
<1>4. CASE AcceptOne \/ Stop \/ ReadChunk \/ FinishSlot
  BY <1>4, AcceptApplied, StopApplied, ReadChunkApplied, FinishSlotApplied
<1>5. CASE ReadEntry
  <2>1. /\ Walking /\ UNCHANGED <<total, client, toServer, toClient, sent, got>>
        /\ CloseHere \/ UNCHANGED <<slots, server>>
    BY <1>5 DEF ReadEntry, Walking, pipeVars
  <2> QED
    BY <2>1, LookApplied
<1>6. CASE ReadEnd
  <2>1. /\ Walking /\ UNCHANGED <<total, client, toServer, toClient, sent, got>>
        /\ CloseHere \/ UNCHANGED <<slots, server>>
    BY <1>6 DEF ReadEnd, Walking, pipeVars
  <2> QED
    BY <2>1, LookApplied
<1>7. ASSUME NEW c \in Conn, AnyPeer(c) PROVE Applied' /\ UNCHANGED Service!serviceVars
  BY <1>2, <1>3, <1>7, SendApplied, ReceiveApplied DEF AnyPeer
<1> QED
  BY <1>1, <1>4, <1>5, <1>6, <1>7 DEF AnyNext, Server

\* They see the end of a stream only where it is.
LEMMA AnyStepAtEnd ==
  ASSUME IInv, AtEnd, [AnyNext]_vars
  PROVE  AtEnd'
<1>1. CASE Poll \/ AcceptOne \/ AcceptDone \/ AcceptError \/ FinishSlot \/ Stop
  <2>1. eof' = FALSE \/ at' \in {"accept", "stopped"}
    BY <1>1 DEF Poll, PollOnce, AcceptOne, AcceptDone, AcceptError, FinishSlot, Stop, BeginWalk,
                Advance, GoOn, mainVars
  <2> QED
    BY <2>1 DEF AtEnd, Walking
<1>2. CASE ReadEntry
  <2>1. PICK ev \in Entry : eof' = FALSE \/ eof' = ("HUP" \in ev)
    BY <1>2 DEF ReadEntry, Advance, GoOn
  <2>2. Walking /\ accepted' = accepted
    BY <1>2 DEF ReadEntry, Walking
  <2>3. ~accepted => "HUP" \notin ev
    BY <2>2, OwnEntry DEF Justified
  <2> QED
    BY <2>1, <2>2, <2>3 DEF AtEnd
<1>3. CASE ReadChunk
  <2>1. at = "recv" /\ accepted' = accepted /\ (eof' = FALSE \/ eof' = eof)
    BY <1>3 DEF ReadChunk, Advance, GoOn
  <2>2. ~accepted => ~eof
    BY <2>1 DEF AtEnd, Walking
  <2> QED
    BY <2>1, <2>2 DEF AtEnd
<1>4. CASE ReadEnd
  <2>1. /\ toServer' = toServer /\ toServer[Here] = <<>>
        /\ eof' = FALSE \/ (at' = "finish" /\ UNCHANGED <<slots, slot>>)
    BY <1>4 DEF ReadEnd, Advance, GoOn, pipeVars
  <2> QED
    BY <2>1 DEF AtEnd, Here
<1>5. CASE UNCHANGED <<at, eof, slots, slot, accepted, toServer>>
  BY <1>5 DEF AtEnd, Walking, Here
<1>6. CASE Signal \/ UNCHANGED vars
  BY <1>5, <1>6 DEF Signal, vars, mainVars, dataVars, pipeVars
<1>7. ASSUME NEW c \in Conn, Connect(c) \/ Receive(c) \/ Shutdown(c) \/ Close(c) PROVE AtEnd'
  BY <1>5, <1>7 DEF Connect, Receive, Shutdown, Close, mainVars, dataVars, pipeVars
<1>8. ASSUME NEW c \in Conn, NEW bytes \in Seq(Byte), Send(c, bytes) PROVE AtEnd'
  <2>1. /\ client[c] = "open" /\ toServer' = [toServer EXCEPT ![c] = @ \o bytes]
        /\ UNCHANGED <<at, eof, slots, slot, accepted>>
    BY <1>8 DEF Send, mainVars, dataVars
  <2>2. ~accepted /\ Walking /\ eof => Here # c
    BY <2>1 DEF IInv, Match, Here
  <2>3. Here # c => toServer'[Here] = toServer[Here]
    BY <2>1 DEF IInv, TypeOK
  <2> QED
    BY <2>1, <2>2, <2>3 DEF AtEnd, Walking, Here
<1> QED
  BY <1>1, <1>2, <1>3, <1>4, <1>6, <1>7, <1>8 DEF AnyNext, AnyPeer, Server

\* The first states are first states of the service.
LEMMA CounterInit == Init => CInv /\ Service!ServiceInit
<1> SUFFICES ASSUME Init PROVE CInv /\ Service!ServiceInit
  OBVIOUS
<1>1. /\ slots = [i \in Slot |-> FreeSlot] /\ server = [c \in Conn |-> "none"] /\ total = 0
      /\ at = "poll" /\ eof = FALSE
      /\ sent = [c \in Conn |-> <<>>] /\ toServer = [c \in Conn |-> <<>>]
      /\ got = [c \in Conn |-> <<>>] /\ toClient = [c \in Conn |-> <<>>]
  BY DEF Init
<1>2. /\ Len(<<>>) = 0 /\ <<>> \o <<>> = <<>> /\ <<>> \o <<>> \o <<>> = <<>>
      /\ SubSeq(<<>>, 1, 0 - 0) = <<>>
  OBVIOUS
<1>3. \A c \in Conn : Consumed(c) = <<>>
  BY <1>1, <1>2 DEF Consumed
<1>4. \A c \in Conn : \A i \in Slot : slots[i].conn # c
  BY <1>1, ServerConstants DEF FreeSlot
<1>5. \A c \in Conn : Answers(c) = <<>>
  <2>1. \A c \in Conn : Out(slots, c) = <<>>
    BY <1>4, OutIs
  <2> QED
    BY <1>1, <1>2, <2>1, AnswersAre
<1>6. Applied
  <2> SUFFICES ASSUME NEW c \in Conn PROVE Streams(c) /\ Inbuf(c) /\ Fresh(c) /\ Owed(c)
    BY DEF Applied
  <2>1. Streams(c)
    BY <1>1, <1>2, <1>3 DEF Streams
  <2>2. Inbuf(c)
    BY <1>4 DEF Inbuf
  <2>3. Fresh(c)
    BY <1>1, <1>3 DEF Fresh
  <2>4. Owed(c)
    BY <1>2, <1>3, <1>5, ScanNil DEF Owed
  <2> QED
    BY <2>1, <2>2, <2>3, <2>4
<1>7. AtEnd
  BY <1>1 DEF AtEnd
<1>8. Service!ServiceInit
  <2>1. {c \in Conn : server[c] = "open"} = {}
    BY <1>1
  <2>2. [c \in Conn |-> Scanned(Consumed(c)).numbers] = [c \in Conn |-> <<>>]
    BY <1>3, ScanNil
  <2>3. [c \in Conn |-> Answers(c)] = [c \in Conn |-> <<>>]
    BY <1>5
  <2> QED
    BY <1>1, <2>1, <2>2, <2>3 DEF Service!ServiceInit
<1> QED
  BY <1>6, <1>7, <1>8, InitInv DEF CInv

\* The inductive step, and the step simulation.
LEMMA CounterStep == CInv /\ [AnyNext]_vars => CInv' /\ [Service!ServiceNext]_(Service!serviceVars)
<1> SUFFICES ASSUME CInv, [AnyNext]_vars
             PROVE  CInv' /\ [Service!ServiceNext]_(Service!serviceVars)
  OBVIOUS
<1> QED
  BY AnyStepInv, AnyStepApplied, AnyStepAtEnd DEF CInv

\* The counter's invariant holds at all times.
THEOREM CounterInvariance == Spec => []CInv
<1>1. CInv /\ [Next]_vars => CInv'
  BY NextIsAny, CounterStep
<1> QED
  BY <1>1, CounterInit, PTL DEF Spec

\* Whatever the clients send, of digits, newlines and other bytes, however recv and send cut it
\* up and however the connections interleave, the server is one counter: each number of each
\* line is added once, in order, and answered with the total after it (server.c 95-190, 379-404).
THEOREM ThImplementsCounter == Spec => ImplementsCounter
<1>1. CInv /\ [Next]_vars => [Service!ServiceNext]_(Service!serviceVars)
  BY NextIsAny, CounterStep
<1> QED
  BY <1>1, CounterInit, CounterInvariance, PTL DEF Spec, ImplementsCounter, Service!ServiceSpec

\* The server closes the connection the walk is at, or all of them when it stops.
LEMMA WhoCloses ==
  ASSUME IInv, NEW c \in Conn, ServerCloses(c), [AnyNext]_vars
  PROVE  \/ at = "poll" /\ stopFlag
         \/ /\ ReadEntry \/ ReadChunk \/ ReadEnd \/ FinishSlot
            /\ Walking /\ CloseHere /\ c = Here
<1>0. server[c] = "open" /\ server'[c] = "closed" /\ server' # server
  BY DEF ServerCloses
<1>t. server \in [Conn -> {"none", "queued", "open", "closed"}] /\ Sockets
  BY DEF IInv, TypeOK
<1>1. ~AcceptOne
  <2> SUFFICES ASSUME AcceptOne PROVE FALSE
    OBVIOUS
  <2>1. /\ backlog # <<>>
        /\ \/ server' = [server EXCEPT ![Head(backlog)] = "open"]
           \/ server' = [server EXCEPT ![Head(backlog)] = "closed"]
    BY DEF AcceptOne
  <2>2. server[Head(backlog)] = "queued" /\ Head(backlog) \in Conn
    <3>1. backlog \in Seq(Conn) /\ Len(backlog) \in Nat
      BY DEF IInv, TypeOK
    <3>2. 1 \in 1..Len(backlog) /\ Head(backlog) = backlog[1] /\ Head(backlog) \in Conn
      BY <2>1, <3>1
    <3> QED
      BY <3>2, <1>t DEF Sockets
  <2> QED
    BY <1>0, <1>t, <2>1, <2>2, ZenonT(60)
<1>2. ASSUME ReadEntry \/ ReadChunk \/ ReadEnd \/ FinishSlot
      PROVE  Walking /\ CloseHere /\ c = Here
  <2>1. Walking
    BY <1>2 DEF ReadEntry, ReadChunk, ReadEnd, FinishSlot, Walking
  <2>2. CloseHere
    <3>1. CASE ReadEntry
      BY <1>0, <3>1 DEF ReadEntry
    <3>2. CASE ReadChunk
      BY <1>0, <3>2 DEF ReadChunk
    <3>3. CASE ReadEnd
      BY <1>0, <3>3 DEF ReadEnd
    <3>4. CASE FinishSlot
      BY <1>0, <3>4 DEF FinishSlot
    <3> QED
      BY <1>2, <3>1, <3>2, <3>3, <3>4
  <2>3. c = Here
    BY <1>0, <1>t, <2>1, <2>2, AtHere, SMTT(60) DEF CloseHere
  <2> QED
    BY <2>1, <2>2, <2>3, ZenonT(60)
<1>3. Stop => at = "poll" /\ stopFlag
  BY DEF Stop
<1>4. ~(Poll \/ AcceptDone \/ AcceptError \/ Signal \/ UNCHANGED vars)
  BY <1>0 DEF Poll, PollOnce, AcceptDone, AcceptError, Signal, vars, connVars
<1>5. \A d \in Conn : ~AnyPeer(d)
  <2>1. \A d \in Conn : ~Connect(d)
    BY <1>0, <1>t DEF Connect
  <2> QED
    BY <1>0, <2>1 DEF AnyPeer, Receive, Shutdown, Close, Send, connVars
<1> QED
  BY <1>1, <1>2, <1>3, <1>4, <1>5 DEF AnyNext, Server

\* A connection closed after shutdown, for no fault of its bytes, has all its answers in the socket.
LEMMA ClosedWhenDrained ==
  ASSUME CInv, NEW c \in Conn, ServerCloses(c), client[c] = "shut", ~Scanned(sent[c]).bad,
         Len(Scanned(sent[c]).line) <= MaxLine, ~(at = "poll" /\ stopFlag), ~accepted, [AnyNext]_vars
  PROVE  Len(Delivered(c)') = Len(Scanned(sent[c]).numbers)
<1>1. /\ ReadEntry \/ ReadChunk \/ ReadEnd \/ FinishSlot
      /\ Walking /\ CloseHere /\ c = Here /\ IInv /\ Applied /\ AtEnd /\ TypeOK
  BY WhoCloses DEF CInv, IInv
<1>2. server' # server
  BY DEF ServerCloses
<1>3. /\ Consumed(c) \in Seq(Byte) /\ toServer[c] \in Seq(Byte) /\ sent[c] \in Seq(Byte)
      /\ sent[c] = Consumed(c) \o toServer[c]
      /\ got[c] \in Seq(Nat) /\ toClient[c] \in Seq(Nat)
  BY <1>1, ConnTypes DEF Applied, Streams
<1>4. ~ReadEntry
  <2> SUFFICES ASSUME ReadEntry PROVE FALSE
    OBVIOUS
  <2>1. PICK ev \in Entry : "ERR" \in ev
    BY <1>2 DEF ReadEntry
  <2> QED
    BY <1>1, <2>1, OwnEntry DEF Justified
<1>5. ~ReadEnd
  BY <1>1, <1>2 DEF ReadEnd, Reset
<1>6. ~ReadChunk
  <2> SUFFICES ASSUME ReadChunk PROVE FALSE
    OBVIOUS
  <2>1. at = "recv" /\ toServer[c] # <<>>
    BY <1>1 DEF ReadChunk
  <2>2. PICK r, buf : /\ r = Min({Chunk, Len(toServer[c])})
                      /\ buf = slots[slot].inbuf \o SubSeq(toServer[c], 1, r)
    OBVIOUS
  <2>3. PICK chunk \in Seq(Byte), rest \in Seq(Byte) : ChunkOf(c, r, buf, chunk, rest)
    BY <1>1, <2>1, <2>2, ChunkScanned
  <2>4. ParseFails(buf)
    BY <1>1, <1>2, <2>2, <2>3 DEF ReadChunk, ChunkOf
  <2>5. PICK s \in Seq(Byte) : s = Consumed(c)
    BY <1>3
  <2>6. Hopeless(s \o chunk)
    BY <2>3, <2>4, <2>5 DEF ChunkOf, ParseFails, Hopeless
  <2>7. sent[c] = (s \o chunk) \o rest /\ s \o chunk \in Seq(Byte)
    <3>1. sent[c] = s \o (chunk \o rest)
      BY <1>3, <2>3, <2>5, Zenon DEF ChunkOf
    <3>2. s \o chunk \in Seq(Byte) /\ (s \o chunk) \o rest = s \o (chunk \o rest)
      BY ConcatBytes, ZenonT(60)
    <3> QED
      BY <3>1, <3>2, Zenon
  <2>8. PICK u \in Seq(Byte) : u = s \o chunk
    BY <2>7
  <2>9. Hopeless(u \o rest)
    BY <2>6, <2>8, ScanGrows
  <2>10. Hopeless(sent[c])
    BY <2>7, <2>8, <2>9, Zenon
  <2>11. Len(Scanned(sent[c]).line) \in Nat
    BY <1>3, ScanType
  <2> QED
    BY <2>10, <2>11, ServerConstants, SMTT(30) DEF Hopeless
<1>7. CASE FinishSlot
  <2>0. at = "finish" /\ got' = got
    BY <1>7 DEF FinishSlot
  <2>1. /\ slot \in Slot /\ slots[slot].out \in Seq(Nat) /\ Out(slots, c) = slots[slot].out
        /\ server[c] = "open"
    BY <1>1, Mine
  <2>2. PICK out \in Seq(Nat) : out = slots[slot].out
    BY <2>1
  <2>3. PICK k \in 0..Len(out) :
          /\ toClient' = [toClient EXCEPT ![c] = @ \o SubSeq(out, 1, k)]
          /\ Complete(out, k)
    BY <1>1, <1>2, <1>7, <2>2, Flushes
  <2>4. eof /\ Unsent(out, k) = <<>>
    BY <2>3 DEF Complete
  <2>5. SubSeq(out, 1, k) = out
    <3>1. PICK p \in Seq(Nat) : p = SubSeq(out, 1, k) /\ out = p \o <<>>
      BY <2>4, Cuts
    <3>2. p \o <<>> = p
      OBVIOUS
    <3> QED
      BY <3>1, <3>2
  <2>6. toClient'[c] = toClient[c] \o out
    BY <1>1, <2>3, <2>5 DEF TypeOK
  <2>7. Delivered(c)' = Answers(c)
    <3>1. PICK g \in Seq(Nat), t \in Seq(Nat) : g = got[c] /\ t = toClient[c]
      BY <1>3
    <3>2. g \o (t \o out) = (g \o t) \o out
      BY ConcatNats, ZenonT(60)
    <3>3. Delivered(c)' = g \o (t \o out)
      BY <2>0, <2>6, <3>1, Zenon DEF Delivered
    <3>4. Answers(c) = (g \o t) \o out
      BY <2>1, <2>2, <3>1, AnswersAre, ZenonT(60)
    <3> QED
      BY <3>2, <3>3, <3>4, Zenon
  <2>8. sent[c] = Consumed(c)
    <3>1. toServer[c] = <<>>
      BY <1>1, <2>4 DEF AtEnd
    <3>2. \A x \in Seq(Byte) : x \o <<>> = x
      OBVIOUS
    <3> QED
      BY <1>3, <3>1, <3>2
  <2>9. Len(Answers(c)) = Len(Scanned(Consumed(c)).numbers)
    BY <1>1, <2>1 DEF Applied, Owed
  <2> QED
    BY <2>7, <2>8, <2>9
<1> QED
  BY <1>1, <1>4, <1>5, <1>6, <1>7

\* A client that shuts down its sending side is closed only when it has been given the answer to
\* every number it sent, unless the server stops or has accepted a connection in the same
\* iteration (server.c 411).
THEOREM ThDrainedBeforeClose == Spec => DrainedBeforeClose
<1>1. CInv /\ [Next]_vars =>
        [\A c \in Conn :
           ServerCloses(c) /\ client[c] = "shut" /\ ~Scanned(sent[c]).bad
             /\ Len(Scanned(sent[c]).line) <= MaxLine
             /\ ~(at = "poll" /\ stopFlag) /\ ~accepted
             => Len(Delivered(c)') = Len(Scanned(sent[c]).numbers)]_vars
  BY NextIsAny, ClosedWhenDrained
<1> QED
  BY <1>1, CounterInvariance, PTL DEF Spec, DrainedBeforeClose

=============================================================================
