------------------------- MODULE BrownianBotProofs -------------------------
(***************************************************************************)
(* The client programs and the server in step, and the final sum.          *)
(*                                                                         *)
(* BrownianBot's programs do what BrownianServer lets any client do, so    *)
(* that the invariant of CounterServiceProofs holds of it.  A client's     *)
(* program adds what it knows: a number is owed for each complete line, a  *)
(* line ends where its newline is sent, and a client sends no second line  *)
(* before the first is answered.  The sum follows from the counter: a step *)
(* adds to the state what it adds to the numbers consumed, and the numbers *)
(* of a client that ended well are those of its input.  FinalSum states    *)
(* the sum as a fold over the set of clients, whose value is given by a    *)
(* CHOOSE among recursive functions; that there is one, and that it does   *)
(* what a sum does, is proved here for finite sets.                        *)
(***************************************************************************)
EXTENDS BrownianBot, CounterServiceProofs

-----------------------------------------------------------------------------
(* Counting lines.                                                         *)

Ends(bytes) == {k \in DOMAIN bytes : bytes[k] = NL}

\* The lines of a sequence of bytes are the newlines in it: finitely many.
LEMMA LinesType ==
  ASSUME NEW s \in Seq(Byte)
  PROVE  /\ IsFiniteSet(Ends(s)) /\ LinesIn(s) = Cardinality(Ends(s)) /\ LinesIn(s) \in Nat
         /\ Ends(s) \in SUBSET (1..Len(s))
<1>1. Ends(s) \in SUBSET (1..Len(s))
  BY DEF Ends
<1>2. IsFiniteSet(1..Len(s))
  BY FS_Interval
<1>3. IsFiniteSet(Ends(s))
  BY <1>1, <1>2, FS_Subset
<1>4. LinesIn(s) = Cardinality(Ends(s))
  BY DEF LinesIn, Ends
<1> QED
  BY <1>1, <1>3, <1>4, FS_CardinalityType

\* Nothing has no line.
LEMMA LinesNil == LinesIn(<<>>) = 0
<1>1. Ends(<<>>) = {} /\ <<>> \in Seq(Byte)
  BY DEF Ends
<1> QED
  BY <1>1, LinesType, FS_EmptySet

\* A newline is one line more, another byte is none.
LEMMA LinesAppend ==
  ASSUME NEW s \in Seq(Byte), NEW b \in Byte
  PROVE  LinesIn(Append(s, b)) = IF b = NL THEN LinesIn(s) + 1 ELSE LinesIn(s)
<1> DEFINE t == Append(s, b)
           N == Len(s)
<1>1. /\ t \in Seq(Byte) /\ DOMAIN t = 1..(N + 1) /\ DOMAIN s = 1..N /\ t[N + 1] = b /\ N \in Nat
      /\ \A k \in 1..N : t[k] = s[k]
  OBVIOUS
<1>2. \A k : k \in 1..(N + 1) <=> k \in 1..N \/ k = N + 1
  BY <1>1
<1>3. N + 1 \notin 1..N
  BY <1>1
<1>4. LinesIn(t) = Cardinality(Ends(t)) /\ LinesIn(s) = Cardinality(Ends(s)) /\ IsFiniteSet(Ends(s))
  <2> HIDE DEF t
  <2> QED
    BY <1>1, LinesType
<1> HIDE DEF t, N
<1>5. CASE b = NL
  <2>1. Ends(t) = Ends(s) \cup {N + 1} /\ N + 1 \notin Ends(s)
    BY <1>1, <1>2, <1>3, <1>5 DEF Ends
  <2> QED
    BY <1>4, <1>5, <2>1, FS_AddElement DEF t
<1>6. CASE b # NL
  <2>1. Ends(t) = Ends(s)
    BY <1>1, <1>2, <1>3, <1>6 DEF Ends
  <2> QED
    BY <1>4, <1>6, <2>1 DEF t
<1> QED
  BY <1>5, <1>6

\* The lines of two parts are those of the one and those of the other.
LEMMA LinesConcat ==
  ASSUME NEW s \in Seq(Byte), NEW t \in Seq(Byte)
  PROVE  LinesIn(s \o t) = LinesIn(s) + LinesIn(t)
<1> DEFINE N == Len(t)
           u(n) == s \o SubSeq(t, 1, n)
           v(n) == SubSeq(t, 1, n)
           T == {n \in 0..N : LinesIn(u(n)) = LinesIn(s) + LinesIn(v(n))}
<1>0. N \in Nat /\ 0 \in 0..N /\ N \in 0..N /\ \A n \in 1..N : n - 1 \in 0..N /\ n \in 0..N
  OBVIOUS
<1>1. u(0) = s /\ v(0) = <<>> /\ u(N) = s \o t /\ v(N) = t
  BY Whole
<1>2. \A n \in 1..N : /\ u(n - 1) \in Seq(Byte) /\ v(n - 1) \in Seq(Byte) /\ t[n] \in Byte
                      /\ u(n) = Append(u(n - 1), t[n]) /\ v(n) = Append(v(n - 1), t[n])
  BY Longer
<1> HIDE DEF u, v, N
<1>3. 0 \in T
  <2>1. LinesIn(s) \in Nat
    BY LinesType
  <2> QED
    BY <1>0, <1>1, <2>1, LinesNil
<1>4. \A n \in 1..N : n - 1 \in T => n \in T
  <2> SUFFICES ASSUME NEW n \in 1..N, n - 1 \in T PROVE n \in T
    OBVIOUS
  <2>1. LinesIn(u(n - 1)) = LinesIn(s) + LinesIn(v(n - 1))
    OBVIOUS
  <2>2. PICK x \in Seq(Byte), y \in Seq(Byte), b \in Byte :
          x = u(n - 1) /\ y = v(n - 1) /\ b = t[n] /\ u(n) = Append(x, b) /\ v(n) = Append(y, b)
    BY <1>2
  <2>3. /\ LinesIn(u(n)) = IF b = NL THEN LinesIn(x) + 1 ELSE LinesIn(x)
        /\ LinesIn(v(n)) = IF b = NL THEN LinesIn(y) + 1 ELSE LinesIn(y)
    BY <2>2, LinesAppend
  <2>4. LinesIn(s) \in Nat /\ LinesIn(x) \in Nat /\ LinesIn(y) \in Nat
    BY LinesType
  <2>5. LinesIn(u(n)) = LinesIn(s) + LinesIn(v(n))
    BY <2>1, <2>2, <2>3, <2>4
  <2> QED
    BY <1>0, <2>5
<1>5. N \in T
  <2> HIDE DEF T
  <2> QED
    BY <1>0, <1>3, <1>4, EveryIndex
<1> QED
  BY <1>1, <1>5

\* A scan finds at most a number per line, and fewer where there is a fault.
LEMMA LinesScanned ==
  ASSUME NEW s \in Seq(Byte)
  PROVE  /\ Len(Scanned(s).numbers) <= LinesIn(s)
         /\ Scanned(s).bad => Len(Scanned(s).numbers) < LinesIn(s)
<1> DEFINE N == Len(s)
           u(n) == SubSeq(s, 1, n)
           P(x) == /\ Len(Scanned(x).numbers) <= LinesIn(x)
                   /\ Scanned(x).bad => Len(Scanned(x).numbers) < LinesIn(x)
           T == {n \in 0..N : P(u(n))}
<1>0. N \in Nat /\ 0 \in 0..N /\ N \in 0..N /\ \A n \in 1..N : n - 1 \in 0..N /\ n \in 0..N
  OBVIOUS
<1>1. u(0) = <<>> /\ u(N) = s
  BY Whole
<1>2. \A n \in 1..N : u(n - 1) \in Seq(Byte) /\ s[n] \in Byte /\ u(n) = Append(u(n - 1), s[n])
  BY Longer
<1> HIDE DEF u, N
<1>3. 0 \in T
  <2>1. Len(<<>>) = 0
    OBVIOUS
  <2> QED
    BY <1>0, <1>1, <2>1, LinesNil, ScanNil
<1>4. ASSUME NEW x \in Seq(Byte), NEW b \in Byte, P(x) PROVE P(Append(x, b))
  <2> DEFINE y == Append(x, b)
             ns == Scanned(x).numbers
             ms == Scanned(y).numbers
  <2>1. y \in Seq(Byte)
    OBVIOUS
  <2>2. LinesIn(y) = IF b = NL THEN LinesIn(x) + 1 ELSE LinesIn(x)
    BY LinesAppend
  <2>3. LinesIn(x) \in Nat /\ ns \in Seq(Nat)
    BY LinesType, ScanType
  <2>4. Len(ns) \in Nat
    BY <2>3
  <2>5. CASE b # NL
    <3>1. ms = ns /\ (Scanned(y).bad <=> Scanned(x).bad)
      BY <2>5, ScanAppend DEF FaultAt
    <3> QED
      BY <1>4, <2>2, <2>5, <3>1
  <2>6. CASE b = NL /\ Scanned(y).bad
    <3>1. ms = ns
      BY <2>6, ScanAppend
    <3> QED
      BY <1>4, <2>2, <2>3, <2>4, <2>6, <3>1
  <2>7. CASE b = NL /\ ~Scanned(y).bad
    <3>1. ms = ns \o <<Number(Scanned(x).line)>>
      BY <2>7, ScanAppend
    <3>2. \A e : Len(ns \o <<e>>) = Len(ns) + 1
      BY <2>3
    <3> HIDE DEF ns, ms
    <3>3. Len(ms) = Len(ns) + 1
      BY <3>1, <3>2
    <3> QED
      BY <1>4, <2>2, <2>3, <2>4, <2>7, <3>3 DEF ns, ms
  <2> QED
    BY <2>5, <2>6, <2>7
<1>5. \A n \in 1..N : n - 1 \in T => n \in T
  <2> HIDE DEF P
  <2> QED
    BY <1>0, <1>2, <1>4
<1>6. N \in T
  <2> HIDE DEF T
  <2> QED
    BY <1>0, <1>3, <1>5, EveryIndex
<1> QED
  BY <1>1, <1>6

-----------------------------------------------------------------------------
(* The clients make steps the server is ready for.                         *)

\* What a client sends next is a part of its input, and no more than one line.
Piece(c) == IF c \in LineClient THEN NextLine(c) ELSE <<Head(Rest(c))>>

\* What a client has sent is a beginning of its input.
Reads(c) == Len(sent[c]) <= Len(Input[c]) /\ sent[c] = SubSeq(Input[c], 1, Len(sent[c]))

\* A sequence that is not empty, cut off after its first newline or after some bytes.
LEMMA FirstLine ==
  ASSUME NEW r \in Seq(Byte), r # <<>>,
         NEW m, m = Min({k \in DOMAIN r : r[k] = NL} \cup {Len(r), FgetsMax})
  PROVE  m \in 1..Len(r) /\ \A k \in 1..(m - 1) : r[k] # NL
<1> DEFINE K == {k \in DOMAIN r : r[k] = NL} \cup {Len(r), FgetsMax}
<1>1. /\ DOMAIN r = 1..Len(r) /\ Len(r) \in Nat /\ Len(r) # 0
      /\ FgetsMax \in Nat /\ FgetsMax # 0
  BY BotConstants
<1>2. K \in SUBSET Nat /\ Len(r) \in K /\ \A n \in K : n # 0
  BY <1>1
<1>3. m \in K /\ \A n \in K : m <= n
  <2> HIDE DEF K
  <2>1. Min(K) \in K /\ \A n \in K : Min(K) <= n
    BY <1>2, MinOfNats
  <2> QED
    BY <2>1 DEF K
<1>4. m \in 1..Len(r) /\ m \in Nat
  <2> HIDE DEF K
  <2>1. m \in Nat /\ m # 0 /\ m <= Len(r)
    BY <1>2, <1>3, ZenonT(60)
  <2> QED
    BY <1>1, <2>1
<1>5. ASSUME NEW k \in 1..(m - 1) PROVE r[k] # NL
  <2>1. k \in 1..Len(r) /\ ~(m <= k)
    BY <1>1, <1>4
  <2>2. k \notin K
    BY <1>3, <2>1
  <2> QED
    BY <1>1, <2>1, <2>2
<1> QED
  BY <1>4, <1>5

\* It ends at most one line.
LEMMA OneLine ==
  ASSUME NEW r \in Seq(Byte), NEW m \in 1..Len(r), \A k \in 1..(m - 1) : r[k] # NL
  PROVE  SubSeq(r, 1, m) \in Seq(Byte) /\ LinesIn(SubSeq(r, 1, m)) \in {0, 1}
<1> DEFINE p == SubSeq(r, 1, m)
<1>1. p \in Seq(Byte) /\ Len(p) = m /\ \A k \in 1..m : p[k] = r[k]
  OBVIOUS
<1> HIDE DEF p
<1>2. Ends(p) \in SUBSET {m}
  BY <1>1 DEF Ends
<1>3. Ends(p) = {} \/ Ends(p) = {m}
  BY <1>2
<1>4. LinesIn(p) = Cardinality(Ends(p))
  BY <1>1, LinesType
<1>5. Cardinality({}) = 0 /\ Cardinality({m}) = 1
  BY FS_EmptySet, FS_Singleton, Zenon
<1> QED
  BY <1>1, <1>3, <1>4, <1>5 DEF p

\* A sequence that starts as u does and goes on as v does.
LEMMA JoinedIs ==
  ASSUME NEW S, NEW u \in Seq(S), NEW v \in Seq(S), NEW w \in Seq(S), Len(w) = Len(u) + Len(v),
         \A k \in 1..Len(u) : w[k] = u[k], \A k \in 1..Len(v) : w[Len(u) + k] = v[k]
  PROVE  u \o v = w
<1>1. Len(u) \in Nat /\ Len(v) \in Nat
  OBVIOUS
<1>2. /\ u \o v \in Seq(S) /\ Len(u \o v) = Len(u) + Len(v)
      /\ \A k \in 1..(Len(u) + Len(v)) : (u \o v)[k] = IF k <= Len(u) THEN u[k] ELSE v[k - Len(u)]
  BY ConcatProperties
<1>3. ASSUME NEW k \in 1..(Len(u) + Len(v)) PROVE (u \o v)[k] = w[k]
  <2>1. CASE k <= Len(u)
    BY <1>1, <1>2, <2>1
  <2>2. CASE ~(k <= Len(u))
    <3>1. k - Len(u) \in 1..Len(v) /\ Len(u) + (k - Len(u)) = k
      BY <1>1, <2>2
    <3>2. w[k] = v[k - Len(u)]
      BY <3>1
    <3> QED
      BY <1>2, <2>2, <3>2
  <2> QED
    BY <2>1, <2>2
<1> QED
  BY <1>2, <1>3, SeqEqual

\* What follows the first n bytes of a sequence, and the next m of it.
LEMMA NextPart ==
  ASSUME NEW a \in Seq(Byte), NEW n \in 0..Len(a), NEW r, r = SubSeq(a, n + 1, Len(a))
  PROVE  /\ r \in Seq(Byte) /\ (r = <<>> <=> n = Len(a)) /\ Len(r) = Len(a) - n
         /\ \A m \in 1..Len(r) : /\ SubSeq(a, 1, n) \o SubSeq(r, 1, m) = SubSeq(a, 1, n + m)
                                 /\ n + m \in 0..Len(a) /\ Len(SubSeq(a, 1, n + m)) = n + m
<1>1. r \in Seq(Byte) /\ Len(r) = Len(a) - n /\ \A k \in 1..Len(r) : r[k] = a[n + k]
  OBVIOUS
<1>2. r = <<>> <=> n = Len(a)
  <2>1. r = <<>> <=> Len(r) = 0
    BY <1>1, EmptySeq
  <2> QED
    BY <1>1, <2>1
<1>3. ASSUME NEW m \in 1..Len(r)
      PROVE  /\ SubSeq(a, 1, n) \o SubSeq(r, 1, m) = SubSeq(a, 1, n + m)
             /\ n + m \in 0..Len(a) /\ Len(SubSeq(a, 1, n + m)) = n + m
  <2> DEFINE u == SubSeq(a, 1, n)
             v == SubSeq(r, 1, m)
             w == SubSeq(a, 1, n + m)
  <2>1. n \in Nat /\ m \in Nat /\ n + m \in 0..Len(a) /\ Len(a) \in Nat
    BY <1>1
  <2>2. u \in Seq(Byte) /\ Len(u) = n /\ \A k \in 1..n : u[k] = a[k]
    BY <2>1
  <2>3. v \in Seq(Byte) /\ Len(v) = m /\ \A k \in 1..m : v[k] = r[k]
    BY <1>1, <2>1
  <2>4. w \in Seq(Byte) /\ Len(w) = n + m /\ \A k \in 1..(n + m) : w[k] = a[k]
    BY <2>1, SMTT(30)
  <2>5. \A k \in 1..m : k \in 1..Len(r) /\ n + k \in 1..(n + m)
    BY <1>1, <2>1
  <2>6. \A k \in 1..n : k \in 1..(n + m)
    BY <2>1
  <2> HIDE DEF u, v, w
  <2>7. u \o v = w
    <3>1. Len(w) = Len(u) + Len(v) /\ (\A k \in 1..Len(u) : w[k] = u[k])
      BY <2>2, <2>3, <2>4, <2>6
    <3>2. \A k \in 1..Len(v) : w[Len(u) + k] = v[k]
      BY <1>1, <2>2, <2>3, <2>4, <2>5
    <3> QED
      BY <2>2, <2>3, <2>4, <3>1, <3>2, JoinedIs
  <2> QED
    BY <2>1, <2>4, <2>7 DEF u, v, w
<1> QED
  BY <1>1, <1>2, <1>3

\* What a client has sent is a beginning of its input, and what it sends next continues it
\* (client.c 137-140, test_client.c 248-258).
LEMMA Pieces ==
  ASSUME NEW c \in Conn, Reads(c), sent[c] \in Seq(Byte)
  PROVE  /\ Rest(c) \in Seq(Byte) /\ (Rest(c) = <<>> => sent[c] = Input[c])
         /\ Rest(c) # <<>> =>
              /\ Piece(c) \in Seq(Byte) /\ Piece(c) # <<>> /\ LinesIn(Piece(c)) \in {0, 1}
              /\ Len(sent[c] \o Piece(c)) <= Len(Input[c])
              /\ sent[c] \o Piece(c) = SubSeq(Input[c], 1, Len(sent[c] \o Piece(c)))
              /\ c \notin LineClient => (LinesIn(Piece(c)) = 1 <=> Last(Piece(c)) = NL)
<1>1. Input[c] \in Seq(Byte)
  BY BotConstants DEF Byte
<1>2. PICK a \in Seq(Byte) : a = Input[c]
  BY <1>1
<1>3. PICK n \in 0..Len(a) : n = Len(sent[c])
  BY <1>2 DEF Reads
<1>4. PICK r : r = Rest(c) /\ r = SubSeq(a, n + 1, Len(a))
  BY <1>2, <1>3 DEF Rest
<1>5. /\ r \in Seq(Byte) /\ (r = <<>> <=> n = Len(a)) /\ Len(r) = Len(a) - n
      /\ \A m \in 1..Len(r) : /\ SubSeq(a, 1, n) \o SubSeq(r, 1, m) = SubSeq(a, 1, n + m)
                              /\ n + m \in 0..Len(a) /\ Len(SubSeq(a, 1, n + m)) = n + m
  BY <1>4, NextPart
<1>6. sent[c] = SubSeq(a, 1, n)
  BY <1>2, <1>3 DEF Reads
<1>7. Rest(c) = <<>> => sent[c] = Input[c]
  <2>1. SubSeq(a, 1, Len(a)) = a
    BY Whole
  <2> QED
    BY <1>2, <1>4, <1>5, <1>6, <2>1
<1>8. ASSUME r # <<>>
      PROVE  \E m \in 1..Len(r) :
               Piece(c) = SubSeq(r, 1, m) /\ \A k \in 1..(m - 1) : r[k] # NL
  <2>1. CASE c \in LineClient
    BY <1>4, <1>5, <1>8, <2>1, FirstLine DEF Piece, NextLine
  <2>2. CASE c \notin LineClient
    <3>1. 1 \in 1..Len(r) /\ \A k \in 1..(1 - 1) : r[k] # NL
      BY <1>5, <1>8
    <3>2. SubSeq(r, 1, 1) = <<Head(r)>>
      <4>1. r[1] \in Byte /\ Head(r) = r[1]
        BY <1>5, <1>8
      <4>2. SubSeq(r, 1, 1) \in Seq(Byte) /\ Len(SubSeq(r, 1, 1)) = 1 /\ SubSeq(r, 1, 1)[1] = r[1]
        BY <1>5, <3>1
      <4>3. \A b \in Byte : <<b>> \in Seq(Byte) /\ Len(<<b>>) = 1 /\ <<b>>[1] = b
        OBVIOUS
      <4>4. PICK b \in Byte, p \in Seq(Byte) :
              b = Head(r) /\ p = SubSeq(r, 1, 1) /\ Len(p) = 1 /\ p[1] = b
        BY <4>1, <4>2
      <4>5. PICK q \in Seq(Byte) : q = <<b>> /\ Len(q) = 1 /\ q[1] = b
        BY <4>3
      <4>6. \A i \in 1..Len(p) : p[i] = q[i]
        BY <4>4, <4>5
      <4>7. p = q
        BY <4>4, <4>5, <4>6, SeqEqual
      <4> QED
        BY <4>4, <4>5, <4>7
    <3> QED
      BY <1>4, <2>2, <3>1, <3>2 DEF Piece
  <2> QED
    BY <2>1, <2>2
<1>9. ASSUME r # <<>>
      PROVE  /\ Piece(c) \in Seq(Byte) /\ Piece(c) # <<>> /\ LinesIn(Piece(c)) \in {0, 1}
             /\ Len(sent[c] \o Piece(c)) <= Len(Input[c])
             /\ sent[c] \o Piece(c) = SubSeq(Input[c], 1, Len(sent[c] \o Piece(c)))
  <2>1. PICK m \in 1..Len(r) : Piece(c) = SubSeq(r, 1, m) /\ \A k \in 1..(m - 1) : r[k] # NL
    BY <1>8, <1>9
  <2>2. Piece(c) \in Seq(Byte) /\ LinesIn(Piece(c)) \in {0, 1}
    BY <1>5, <2>1, OneLine
  <2>3. Piece(c) # <<>>
    <3>1. Len(SubSeq(r, 1, m)) = m /\ m # 0
      BY <1>5
    <3> QED
      BY <2>1, <3>1
  <2>4. sent[c] \o Piece(c) = SubSeq(a, 1, n + m) /\ n + m \in 0..Len(a) /\ Len(SubSeq(a, 1, n + m)) = n + m
    BY <1>5, <1>6, <2>1
  <2> QED
    BY <1>2, <2>2, <2>3, <2>4
<1>10. ASSUME r # <<>>, c \notin LineClient
       PROVE  LinesIn(Piece(c)) = 1 <=> Last(Piece(c)) = NL
  <2>1. PICK b \in Byte : b = Head(r)
    BY <1>5, <1>10
  <2>2. Piece(c) = <<b>> /\ Last(<<b>>) = b
    BY <1>4, <1>10, <2>1 DEF Piece, Last
  <2>3. <<b>> = Append(<<>>, b) /\ <<>> \in Seq(Byte)
    OBVIOUS
  <2>4. LinesIn(<<b>>) = IF b = NL THEN 1 ELSE 0
    <3>1. LinesIn(Append(<<>>, b)) = IF b = NL THEN LinesIn(<<>>) + 1 ELSE LinesIn(<<>>)
      BY <2>3, LinesAppend
    <3> QED
      BY <2>3, <3>1, LinesNil
  <2> QED
    BY <2>2, <2>4
<1> QED
  BY <1>4, <1>5, <1>7, <1>9, <1>10

-----------------------------------------------------------------------------
(* The invariant: where a client's program is tells what its socket is and *)
(* how many answers it lacks.                                              *)

\* Where the program is tells what its socket is.
Knows(c) ==
  /\ prog[c] = "connect" => client[c] = "none"
  /\ prog[c] \in {"send", "await"} => client[c] = "open"
  /\ prog[c] \in ProgEnd => client[c] \in {"none", "closed"}
  /\ client[c] = "none" => sent[c] = <<>>

\* And how many of the lines it sent are not answered.
Counts(c) ==
  /\ prog[c] \in {"send", "ok"} => LinesIn(sent[c]) = Len(got[c])
  /\ prog[c] = "await" => LinesIn(sent[c]) \in {Len(got[c]), Len(got[c]) + 1}
  /\ prog[c] = "await" /\ LinesIn(sent[c]) = Len(got[c]) => c \in LineClient
  /\ prog[c] = "ok" => sent[c] = Input[c]

ProgTypeOK == prog \in [Conn -> ProgEnd \cup {"connect", "send", "await"}]

BotInv == CInv /\ ProgTypeOK /\ \A c \in Conn : Reads(c) /\ Knows(c) /\ Counts(c)

\* What belongs to a client's program.
SameClient(c) ==
  prog'[c] = prog[c] /\ client'[c] = client[c] /\ sent'[c] = sent[c] /\ got'[c] = got[c]

\* A step that leaves that alone keeps the invariant's parts.
LEMMA SameClientKept ==
  ASSUME NEW c \in Conn, Reads(c), Knows(c), Counts(c), SameClient(c)
  PROVE  (Reads(c) /\ Knows(c) /\ Counts(c))'
  BY DEF SameClient, Reads, Knows, Counts

\* The answers a client has or can read are answers to lines it sent.
LEMMA AnswersBounded ==
  ASSUME CInv, NEW c \in Conn
  PROVE  /\ sent[c] \in Seq(Byte) /\ Consumed(c) \in Seq(Byte)
         /\ Len(got[c]) \in Nat /\ Len(toClient[c]) \in Nat /\ Len(Nums(c)) \in Nat
         /\ Len(got[c]) + Len(toClient[c]) <= Len(Nums(c))
         /\ \E p \in Seq(Nat) : Scanned(sent[c]).numbers = Nums(c) \o p
         /\ Len(Nums(c)) <= Len(Scanned(sent[c]).numbers)
         /\ Len(Scanned(sent[c]).numbers) <= LinesIn(sent[c])
<1>1. TypeOK /\ Streams(c) /\ Owed(c)
  BY DEF CInv, IInv, Applied
<1>2. /\ Consumed(c) \in Seq(Byte) /\ toServer[c] \in Seq(Byte) /\ sent[c] \in Seq(Byte)
      /\ got[c] \in Seq(Nat) /\ toClient[c] \in Seq(Nat) /\ Out(slots, c) \in Seq(Nat)
      /\ Nums(c) \in Seq(Nat)
  BY <1>1, ConnTypes DEF Streams
<1>3. Len(got[c]) + Len(toClient[c]) <= Len(Nums(c))
  <2>1. PICK g \in Seq(Nat), t \in Seq(Nat), o \in Seq(Nat) :
          g = got[c] /\ t = toClient[c] /\ o = Out(slots, c)
    BY <1>2
  <2>2. Len((g \o t) \o o) = Len(g) + Len(t) + Len(o)
    <3>1. g \o t \in Seq(Nat) /\ Len(g \o t) = Len(g) + Len(t)
      BY ConcatProperties
    <3>2. Len((g \o t) \o o) = Len(g \o t) + Len(o)
      BY <3>1, ConcatProperties
    <3> QED
      BY <3>1, <3>2
  <2>3. Answers(c) = (g \o t) \o o
    BY <2>1, AnswersAre, Zenon
  <2>4. Len(g) \in Nat /\ Len(t) \in Nat /\ Len(o) \in Nat
    OBVIOUS
  <2>5. Len(Answers(c)) <= Len(Nums(c)) /\ Len(Nums(c)) \in Nat
    BY <1>1, <1>2 DEF Owed, Nums
  <2>6. Len(g) + Len(t) + Len(o) <= Len(Nums(c))
    BY <2>2, <2>3, <2>5, Zenon
  <2>7. Len(g) + Len(t) <= Len(Nums(c))
    BY <2>4, <2>5, <2>6
  <2> QED
    BY <2>1, <2>7
<1>4. PICK s \in Seq(Byte), t \in Seq(Byte) : s = Consumed(c) /\ t = toServer[c] /\ sent[c] = s \o t
  BY <1>1, <1>2 DEF Streams
<1>5. PICK p \in Seq(Nat) : Scanned(s \o t).numbers = Scanned(s).numbers \o p
  BY ScanGrows
<1>6. Scanned(sent[c]).numbers = Nums(c) \o p
  BY <1>4, <1>5 DEF Nums
<1>7. Len(Nums(c) \o p) = Len(Nums(c)) + Len(p) /\ Len(p) \in Nat /\ Len(Nums(c)) \in Nat
  BY <1>2
<1>8. Len(Nums(c)) <= Len(Scanned(sent[c]).numbers)
  BY <1>6, <1>7
<1>9. Len(Scanned(sent[c]).numbers) <= LinesIn(sent[c])
  BY <1>2, LinesScanned
<1>10. Len(got[c]) \in Nat /\ Len(toClient[c]) \in Nat
  BY <1>2
<1> QED
  BY <1>2, <1>3, <1>6, <1>7, <1>8, <1>9, <1>10

\* A step of a client's program is one of its socket's end, and moves its program only.
LEMMA ProgSteps ==
  ASSUME BotInv, NEW c \in Conn, Prog(c) \/ ProgKill(c)
  PROVE  [AnyNext]_vars
<1>1. CASE ProgConnect(c)
  BY <1>1 DEF ProgConnect, AnyNext, AnyPeer
<1>2. CASE ProgConnectError(c)
  BY <1>2 DEF ProgConnectError, ServerUnchanged
<1>3. CASE ProgSend(c)
  <2>1. Rest(c) # <<>> /\ Send(c, Piece(c))
    BY <1>3 DEF ProgSend, Piece
  <2>2. Piece(c) \in Seq(Byte)
    BY <2>1, Pieces, AnswersBounded DEF BotInv
  <2> QED
    BY <2>1, <2>2 DEF AnyNext, AnyPeer
<1>4. CASE Close(c)
  BY <1>4 DEF AnyNext, AnyPeer
<1>5. CASE ProgReceive(c)
  BY <1>5 DEF ProgReceive, AnyNext, AnyPeer
<1> QED
  BY <1>1, <1>2, <1>3, <1>4, <1>5
     DEF Prog, ProgKill, ProgSendError, ProgReceiveError, ProgEndOfInput

\* What the programs do is among what any clients may do, so that the server's invariants hold.
LEMMA BotIsAny ==
  ASSUME BotInv, [BotNext]_botVars
  PROVE  [AnyNext]_vars
<1>1. Server \/ AcceptError \/ Signal \/ UNCHANGED vars => [AnyNext]_vars
  BY ZenonT(60) DEF AnyNext
<1> QED
  BY <1>1, ProgSteps DEF BotNext, QuietBotNext, ServerStep, ServerFault, BotEnded, Ended, ProgStep, botVars

\* What a server's step leaves alone of the clients.
LEMMA ServerKeepsClients ==
  ASSUME Server \/ AcceptError \/ Signal \/ UNCHANGED vars
  PROVE  UNCHANGED <<client, sent, got>>
  BY DEF Server, Poll, PollOnce, AcceptOne, AcceptDone, AcceptError, ReadEntry, ReadChunk, ReadEnd,
         FinishSlot, Stop, Signal, vars, connVars, pipeVars

\* No client has started.
LEMMA BotInitInv == BotInit => BotInv
<1> SUFFICES ASSUME BotInit PROVE BotInv
  OBVIOUS
<1>1. CInv
  BY CounterInit DEF BotInit
<1>2. prog = [c \in Conn |-> "connect"] /\ client = [c \in Conn |-> "none"] /\ sent = [c \in Conn |-> <<>>]
  BY DEF BotInit, Init
<1>3. ASSUME NEW c \in Conn PROVE Reads(c)
  <2>1. Input[c] \in Seq(Byte)
    BY BotConstants DEF Byte
  <2>2. Len(<<>>) = 0 /\ Len(Input[c]) \in Nat /\ SubSeq(Input[c], 1, 0) = <<>>
    BY <2>1
  <2> QED
    BY <1>2, <2>2 DEF Reads
<1> QED
  BY <1>1, <1>2, <1>3 DEF BotInv, ProgTypeOK, Knows, Counts, ProgEnd

\* A client's step moves its own program only.
LEMMA OwnProg ==
  ASSUME BotInv, NEW c \in Conn, NEW from, NEW to \in ProgEnd \cup {"connect", "send", "await"},
         ProgGoto(c, from, to)
  PROVE  /\ ProgTypeOK' /\ prog[c] = from /\ prog'[c] = to
         /\ \A d \in Conn : d # c => prog'[d] = prog[d]
  BY DEF BotInv, ProgTypeOK, ProgGoto

\* A client that has connected has sent nothing and read nothing (client.c 120-135).
LEMMA ProgConnectInv ==
  ASSUME BotInv, NEW c \in Conn, ProgConnect(c)
  PROVE  ProgTypeOK' /\ \A d \in Conn : (Reads(d) /\ Knows(d) /\ Counts(d))'
<1>1. ProgGoto(c, "connect", "send") /\ Connect(c)
  BY DEF ProgConnect
<1>2. ProgTypeOK' /\ prog'[c] = "send" /\ \A d \in Conn : d # c => prog'[d] = prog[d]
  BY <1>1, OwnProg
<1>3. client[c] = "none" /\ client' = [client EXCEPT ![c] = "open"] /\ sent' = sent /\ got' = got
  BY <1>1 DEF Connect, pipeVars
<1>4. client \in [Conn -> {"none", "open", "shut", "closed"}] /\ got \in [Conn -> Seq(Nat)]
  BY DEF BotInv, CInv, IInv, TypeOK
<1>5. \A d \in Conn : d # c => SameClient(d)
  BY <1>2, <1>3, <1>4 DEF SameClient
<1>6. \A d \in Conn : d # c => (Reads(d) /\ Knows(d) /\ Counts(d))'
  BY <1>5, SameClientKept DEF BotInv
<1>7. got[c] = <<>> /\ sent[c] = <<>>
  <2>1. server[c] = "none"
    BY <1>3 DEF BotInv, CInv, IInv, Sockets
  <2> QED
    BY <1>3, <2>1 DEF BotInv, CInv, Applied, Fresh, Knows
<1>8. Reads(c)'
  BY <1>3 DEF BotInv, Reads
<1>9. Knows(c)'
  BY <1>2, <1>3, <1>4 DEF Knows, ProgEnd
<1>10. Counts(c)'
  <2>1. LinesIn(sent'[c]) = 0 /\ Len(got'[c]) = 0
    BY <1>3, <1>7, LinesNil
  <2> QED
    BY <1>2, <2>1 DEF Counts
<1> QED
  BY <1>2, <1>6, <1>8, <1>9, <1>10

\* A client that sends a line, or its last byte, is owed one answer more
\* (client.c 137-143, test_client.c 248-258).
LEMMA ProgSendInv ==
  ASSUME BotInv, NEW c \in Conn, ProgSend(c)
  PROVE  ProgTypeOK' /\ \A d \in Conn : (Reads(d) /\ Knows(d) /\ Counts(d))'
<1> DEFINE to == IF Awaits(c, Piece(c)) THEN "await" ELSE "send"
<1>1. Rest(c) # <<>> /\ Send(c, Piece(c)) /\ ProgGoto(c, "send", to)
  BY DEF ProgSend, Piece
<1>2. /\ ProgTypeOK' /\ prog[c] = "send" /\ prog'[c] = to
      /\ \A d \in Conn : d # c => prog'[d] = prog[d]
  BY <1>1, OwnProg
<1>3. client[c] = "open" /\ sent' = [sent EXCEPT ![c] = @ \o Piece(c)] /\ UNCHANGED <<client, got>>
  BY <1>1 DEF Send, connVars
<1>4. sent \in [Conn -> Seq(Byte)]
  BY DEF BotInv, CInv, IInv, TypeOK
<1>5. \A d \in Conn : d # c => SameClient(d)
  BY <1>2, <1>3, <1>4 DEF SameClient
<1>6. \A d \in Conn : d # c => (Reads(d) /\ Knows(d) /\ Counts(d))'
  BY <1>5, SameClientKept DEF BotInv
<1>7. /\ sent[c] \in Seq(Byte) /\ sent'[c] = sent[c] \o Piece(c)
      /\ Piece(c) \in Seq(Byte) /\ LinesIn(Piece(c)) \in {0, 1}
      /\ Len(sent'[c]) <= Len(Input[c]) /\ sent'[c] = SubSeq(Input[c], 1, Len(sent'[c]))
      /\ c \notin LineClient => (LinesIn(Piece(c)) = 1 <=> Last(Piece(c)) = NL)
  BY <1>1, <1>3, <1>4, Pieces DEF BotInv
<1>8. Reads(c)'
  BY <1>7 DEF Reads
<1>9. Knows(c)'
  BY <1>2, <1>3 DEF Knows, ProgEnd
<1>10. Counts(c)'
  <2>1. LinesIn(sent'[c]) = LinesIn(sent[c]) + LinesIn(Piece(c))
    BY <1>7, LinesConcat
  <2>2. LinesIn(sent[c]) = Len(got[c])
    BY <1>2 DEF BotInv, Counts
  <2>3. Len(got[c]) \in Nat
    BY AnswersBounded DEF BotInv
  <2>4. prog'[c] = "await" \/ prog'[c] = "send"
    BY <1>2
  <2>5. prog'[c] = "send" => LinesIn(Piece(c)) = 0
    BY <1>2, <1>7 DEF Awaits
  <2>6. prog'[c] = "await" /\ LinesIn(Piece(c)) = 0 => c \in LineClient
    BY <1>2, <1>7 DEF Awaits
  <2> HIDE DEF to
  <2> QED
    BY <1>3, <1>7, <2>1, <2>2, <2>3, <2>4, <2>5, <2>6 DEF Counts
<1> QED
  BY <1>2, <1>6, <1>8, <1>9, <1>10

\* An answer read is one owed less (client.c 144-147, test_client.c 258-265).
LEMMA ProgReceiveInv ==
  ASSUME BotInv, NEW c \in Conn, ProgReceive(c)
  PROVE  ProgTypeOK' /\ \A d \in Conn : (Reads(d) /\ Knows(d) /\ Counts(d))'
<1>1. ProgGoto(c, "await", "send") /\ Receive(c)
  BY DEF ProgReceive
<1>2. /\ ProgTypeOK' /\ prog[c] = "await" /\ prog'[c] = "send"
      /\ \A d \in Conn : d # c => prog'[d] = prog[d]
  BY <1>1, OwnProg
<1>3. /\ toClient[c] # <<>> /\ got' = [got EXCEPT ![c] = Append(@, Head(toClient[c]))]
      /\ UNCHANGED <<client, sent>>
  BY <1>1 DEF Receive, connVars
<1>4. got \in [Conn -> Seq(Nat)] /\ toClient[c] \in Seq(Nat)
  BY DEF BotInv, CInv, IInv, TypeOK
<1>5. \A d \in Conn : d # c => SameClient(d)
  BY <1>2, <1>3, <1>4 DEF SameClient
<1>6. \A d \in Conn : d # c => (Reads(d) /\ Knows(d) /\ Counts(d))'
  BY <1>5, SameClientKept DEF BotInv
<1>7. Reads(c)'
  BY <1>3 DEF BotInv, Reads
<1>8. Knows(c)'
  BY <1>2, <1>3 DEF BotInv, Knows, ProgEnd
<1>9. Counts(c)'
  <2>1. Len(toClient[c]) \in Nat /\ Len(toClient[c]) # 0
    BY <1>3, <1>4
  <2>2. Len(got'[c]) = Len(got[c]) + 1
    BY <1>3, <1>4
  <2>3. /\ Len(got[c]) \in Nat /\ Len(Nums(c)) \in Nat
        /\ Len(got[c]) + Len(toClient[c]) <= Len(Nums(c))
        /\ Len(Nums(c)) <= Len(Scanned(sent[c]).numbers)
        /\ Len(Scanned(sent[c]).numbers) <= LinesIn(sent[c]) /\ sent[c] \in Seq(Byte)
    BY AnswersBounded DEF BotInv
  <2>4. LinesIn(sent[c]) \in Nat /\ Len(Scanned(sent[c]).numbers) \in Nat
    BY <2>3, LinesType, ScanType
  <2>5. LinesIn(sent[c]) \in {Len(got[c]), Len(got[c]) + 1}
    BY <1>2 DEF BotInv, Counts
  <2>6. LinesIn(sent[c]) = Len(got[c]) + 1
    <3>1. \A g, t, n, m, l \in Nat : g + t <= n /\ n <= m /\ m <= l /\ t # 0 => l # g
      OBVIOUS
    <3>2. LinesIn(sent[c]) # Len(got[c])
      BY <2>1, <2>3, <2>4, <3>1
    <3> QED
      BY <2>5, <3>2
  <2> QED
    BY <1>2, <1>3, <2>2, <2>6 DEF Counts
<1> QED
  BY <1>2, <1>6, <1>7, <1>8, <1>9

\* A client that ends changes no count; it ends well only with all its input sent.
LEMMA ProgLeaveInv ==
  ASSUME BotInv, NEW c \in Conn, NEW from \in {"send", "await"}, NEW to \in ProgEnd,
         ProgGoto(c, from, to), Close(c), to = "ok" => from = "send" /\ Rest(c) = <<>>
  PROVE  ProgTypeOK' /\ \A d \in Conn : (Reads(d) /\ Knows(d) /\ Counts(d))'
<1>2. /\ ProgTypeOK' /\ prog[c] = from /\ prog'[c] = to
      /\ \A d \in Conn : d # c => prog'[d] = prog[d]
  BY OwnProg
<1>3. client[c] \in {"open", "shut"} /\ client' = [client EXCEPT ![c] = "closed"] /\ UNCHANGED <<sent, got>>
  BY DEF Close, pipeVars
<1>4. client \in [Conn -> {"none", "open", "shut", "closed"}] /\ sent[c] \in Seq(Byte)
  BY DEF BotInv, CInv, IInv, TypeOK
<1>5. \A d \in Conn : d # c => SameClient(d)
  BY <1>2, <1>3, <1>4 DEF SameClient
<1>6. \A d \in Conn : d # c => (Reads(d) /\ Knows(d) /\ Counts(d))'
  BY <1>5, SameClientKept DEF BotInv
<1>7. Reads(c)'
  BY <1>3 DEF BotInv, Reads
<1>8. Knows(c)'
  BY <1>2, <1>3, <1>4 DEF Knows, ProgEnd
<1>9. Counts(c)'
  <2>1. to = "ok" => sent[c] = Input[c] /\ LinesIn(sent[c]) = Len(got[c])
    BY <1>2, <1>4, Pieces DEF BotInv, Counts
  <2>2. prog'[c] \notin {"send", "await"}
    BY <1>2 DEF ProgEnd
  <2> QED
    BY <1>2, <1>3, <2>1, <2>2 DEF Counts
<1> QED
  BY <1>2, <1>6, <1>7, <1>8, <1>9

\* No server, and no more attempts.
LEMMA ProgConnectErrorInv ==
  ASSUME BotInv, NEW c \in Conn, ProgConnectError(c)
  PROVE  ProgTypeOK' /\ \A d \in Conn : (Reads(d) /\ Knows(d) /\ Counts(d))'
<1>1. ProgGoto(c, "connect", "error") /\ UNCHANGED <<client, sent, got>> /\ "error" \in ProgEnd
  BY DEF ProgConnectError, ServerUnchanged, vars, connVars, pipeVars, ProgEnd
<1>2. /\ ProgTypeOK' /\ prog[c] = "connect" /\ prog'[c] = "error"
      /\ \A d \in Conn : d # c => prog'[d] = prog[d]
  BY <1>1, OwnProg
<1>3. \A d \in Conn : d # c => (Reads(d) /\ Knows(d) /\ Counts(d))'
  <2>1. \A d \in Conn : d # c => SameClient(d)
    BY <1>1, <1>2 DEF SameClient
  <2> QED
    BY <2>1, SameClientKept DEF BotInv
<1>4. Reads(c)' /\ Knows(c)' /\ Counts(c)'
  BY <1>1, <1>2 DEF BotInv, Reads, Knows, Counts, ProgEnd
<1> QED
  BY <1>2, <1>3, <1>4

\* Every step of a client's program or of the server keeps the invariant.
LEMMA BotStepInv == BotInv /\ [BotNext]_botVars => BotInv'
<1> SUFFICES ASSUME BotInv, [BotNext]_botVars PROVE BotInv'
  OBVIOUS
<1> DEFINE Held == ProgTypeOK' /\ \A d \in Conn : (Reads(d) /\ Knows(d) /\ Counts(d))'
<1>1. CInv'
  BY BotIsAny, CounterStep DEF BotInv
<1>2. ASSUME Server \/ AcceptError \/ Signal \/ UNCHANGED vars, UNCHANGED prog PROVE Held
  <2>1. \A d \in Conn : SameClient(d)
    BY <1>2, ServerKeepsClients DEF SameClient
  <2> QED
    BY <1>2, <2>1, SameClientKept DEF BotInv, ProgTypeOK
<1>3. ASSUME NEW c \in Conn, Prog(c) PROVE Held
  <2>1. ASSUME NEW from \in {"send", "await"}, NEW to \in ProgEnd, ProgGoto(c, from, to), Close(c),
               to = "ok" => from = "send" /\ Rest(c) = <<>>
        PROVE  Held
    BY <2>1, ProgLeaveInv
  <2>2. ProgSendError(c) => Held
    BY <2>1 DEF ProgSendError, ProgEnd
  <2>3. ProgReceiveError(c) => Held
    BY <2>1 DEF ProgReceiveError, ProgEnd
  <2>4. ProgEndOfInput(c) => Held
    BY <2>1 DEF ProgEndOfInput, ProgEnd
  <2> HIDE DEF Held
  <2>5. ProgConnect(c) \/ ProgConnectError(c) \/ ProgSend(c) \/ ProgReceive(c) => Held
    BY ProgConnectInv, ProgConnectErrorInv, ProgSendInv, ProgReceiveInv DEF Held
  <2> QED
    BY <1>3, <2>2, <2>3, <2>4, <2>5 DEF Prog
<1>4. ASSUME NEW c \in Conn, ProgKill(c) PROVE Held
  <2>1. PICK from \in {"send", "await"} : from = prog[c]
    BY <1>4 DEF ProgKill
  <2>2. ProgGoto(c, from, "killed") /\ Close(c) /\ "killed" \in ProgEnd
    BY <1>4, <2>1 DEF ProgKill, ProgGoto, ProgEnd
  <2> QED
    BY <2>2, ProgLeaveInv
<1>5. Held
  BY <1>2, <1>3, <1>4 DEF BotNext, QuietBotNext, ServerStep, ServerFault, BotEnded, Ended, ProgStep, botVars
<1> QED
  BY <1>1, <1>5 DEF BotInv

\* The invariant: the server's own (CInv), what a client has sent is a beginning of its
\* input, its program's place tells what its socket is, and how many answers it lacks
\* (client.c 120-160, test_client.c 240-322, server.c 95-190, 379-404).
THEOREM BotInvariance == BotSpec => []BotInv
  BY BotInitInv, BotStepInv, PTL DEF BotSpec

\* The system's state is what its declarations say, on every reachable state: the server's
\* tables as well as the place of each client's main (client.c 120-160, test_client.c 240-322).
THEOREM ThBotTypeOK == BotSpec => []BotTypeOK
<1>1. BotInv => BotTypeOK
  BY DEF BotInv, CInv, IInv, ProgTypeOK, BotTypeOK
<1> QED
  BY <1>1, BotInvariance, PTL

\* Client and server never lose step, for any number of clients and all inputs made of digits,
\* newlines and other bytes: one that is not waiting has an answer to each line it sent, and one
\* that waits is owed one, or is client.c at an input without a last newline (client.c 137-147,
\* test_client.c 248-265).
THEOREM ThInStep == BotSpec => []InStep
<1>1. BotInv => InStep
  <2> SUFFICES ASSUME BotInv, NEW c \in Conn
               PROVE  LET owed == LinesIn(sent[c]) - Len(got[c])
                      IN  /\ prog[c] \in {"send", "ok"} => owed = 0
                          /\ prog[c] = "await" => owed \in {0, 1}
                          /\ prog[c] = "await" /\ owed = 0 => c \in LineClient
    BY DEF InStep
  <2>1. Counts(c) /\ Len(got[c]) \in Nat /\ LinesIn(sent[c]) \in Nat
    BY AnswersBounded, LinesType DEF BotInv
  <2>2. \A l, g \in Nat : (l = g => l - g = 0) /\ (l = g + 1 => l - g = 1) /\ (l - g = 0 => l = g)
    OBVIOUS
  <2> QED
    BY <2>1, <2>2 DEF Counts
<1> QED
  BY <1>1, BotInvariance, PTL

\* A client that ended well has sent all its input, and all its numbers were added.
LEMMA EndedWell ==
  ASSUME BotInv, NEW c \in Conn, prog[c] = "ok"
  PROVE  /\ Len(got[c]) = LinesIn(Input[c]) /\ ~Scanned(Input[c]).bad
         /\ Nums(c) = Asked(c)
<1>1. sent[c] = Input[c] /\ LinesIn(sent[c]) = Len(got[c])
  BY DEF BotInv, Counts
<1>2. PICK s \in Seq(Byte), ns \in Seq(Nat) : s = sent[c] /\ ns = Scanned(s).numbers
  BY AnswersBounded, ScanType DEF BotInv
<1>3. PICK u \in Seq(Nat), p \in Seq(Nat) : u = Nums(c) /\ ns = u \o p
  <2>1. Consumed(c) \in Seq(Byte)
    BY AnswersBounded DEF BotInv
  <2>2. Nums(c) \in Seq(Nat)
    BY <2>1, ScanType DEF Nums
  <2> QED
    BY <1>2, <2>2, AnswersBounded DEF BotInv
<1>4. Len(got[c]) <= Len(u) /\ Len(ns) <= LinesIn(s)
  <2>1. \A g, t, n \in Nat : g + t <= n => g <= n
    OBVIOUS
  <2> QED
    BY <1>2, <1>3, <2>1, AnswersBounded DEF BotInv
<1>5. Len(ns) = Len(u) + Len(p) /\ Len(u) \in Nat /\ Len(p) \in Nat
  BY <1>3
<1>6. Len(got[c]) \in Nat /\ LinesIn(s) \in Nat /\ Len(got[c]) = LinesIn(s)
  BY <1>1, <1>2, AnswersBounded, LinesType DEF BotInv
<1>7. Len(ns) = LinesIn(s) /\ Len(p) = 0
  BY <1>4, <1>5, <1>6
<1>8. u = ns
  <2>1. p = <<>> /\ u \o <<>> = u
    BY <1>7, EmptySeq
  <2> QED
    BY <1>3, <2>1
<1>9. ~Scanned(s).bad
  <2>1. Scanned(s).bad => Len(Scanned(s).numbers) < LinesIn(s)
    BY LinesScanned
  <2> QED
    BY <1>2, <1>6, <1>7, <2>1
<1> QED
  BY <1>1, <1>2, <1>3, <1>6, <1>8, <1>9 DEF Asked

\* A client that ended well was answered for every line of its input, and the server
\* rejected none of them (client.c 141-147, test_client.c 258-265, 287-288).
THEOREM ThOkMeansAnswered == BotSpec => []OkMeansAnswered
<1>1. BotInv => OkMeansAnswered
  BY EndedWell DEF OkMeansAnswered
<1> QED
  BY <1>1, BotInvariance, PTL

\* The server between its two client programs is the counter of CounterService, too, through
\* kills, failing accepts and signals (server.c 95-190, 379-404).
THEOREM ThBotImplementsCounter == BotSpec => ImplementsCounter
<1>1. BotInit => Service!ServiceInit
  BY CounterInit DEF BotInit
<1>2. BotInv /\ [BotNext]_botVars => [Service!ServiceNext]_(Service!serviceVars)
  BY BotIsAny, CounterStep DEF BotInv
<1> QED
  BY <1>1, <1>2, BotInvariance, PTL DEF BotSpec, ImplementsCounter, Service!ServiceSpec

-----------------------------------------------------------------------------
(* Sums over a set: the folds of FinalSum, element by element.             *)

\* What holds of the empty set, and of a set if it does without any one element, holds of all.
LEMMA EverySubset ==
  ASSUME NEW S, IsFiniteSet(S), NEW Q, {} \in Q,
         \A T \in SUBSET S : T # {} /\ (\A x \in T : T \ {x} \in Q) => T \in Q
  PROVE  \A T \in SUBSET S : T \in Q
<1> DEFINE N == Cardinality(S)
           P == {n \in 0..N : \A T \in SUBSET S : Cardinality(T) <= n => T \in Q}
<1>1. N \in Nat
  BY FS_CardinalityType
<1>2. \A T \in SUBSET S : IsFiniteSet(T) /\ Cardinality(T) \in Nat /\ Cardinality(T) <= N
  BY FS_Subset, FS_CardinalityType
<1> HIDE DEF N
<1>3. 0 \in P
  <2>1. \A T \in SUBSET S : Cardinality(T) <= 0 => T = {}
    BY <1>2, FS_EmptySet
  <2> QED
    BY <1>1, <2>1
<1>4. \A n \in 1..N : n - 1 \in P => n \in P
  <2> SUFFICES ASSUME NEW n \in 1..N, n - 1 \in P, NEW T \in SUBSET S, Cardinality(T) <= n
               PROVE  T \in Q
    BY <1>1
  <2>1. \A x \in T : T \ {x} \in SUBSET S /\ Cardinality(T \ {x}) = Cardinality(T) - 1
    BY <1>2, FS_RemoveElement
  <2>2. \A x \in T : T \ {x} \in Q
    BY <1>1, <1>2, <2>1
  <2> QED
    BY <2>2
<1>5. N \in P
  <2> HIDE DEF P
  <2> QED
    BY <1>1, <1>3, <1>4, EveryIndex
<1> QED
  BY <1>2, <1>5

\* A sum that takes the elements out of a set one at a time, first[T] telling which.
SumsUp(g, S, w, first) ==
  /\ g \in [SUBSET S -> Nat] /\ g[{}] = 0
  /\ \A T \in SUBSET S : T # {} => g[T] = w[first[T]] + g[T \ {first[T]}]

\* The ways to choose an element from each nonempty subset.
NonEmpty(S) == {T \in SUBSET S : T # {}}
Orders(S) == {first \in [NonEmpty(S) -> S] : \A T \in NonEmpty(S) : first[T] \in T}

\* There is a sum of any terms over a finite set, in any order.
LEMMA SumsExist ==
  ASSUME NEW S, IsFiniteSet(S), NEW w \in [S -> Nat], NEW first \in Orders(S)
  PROVE  \E g : SumsUp(g, S, w, first)
<1> DEFINE N == Cardinality(S)
           Upto(n) == {T \in SUBSET S : Cardinality(T) <= n}
           Part(n, g) == /\ g \in [Upto(n) -> Nat] /\ g[{}] = 0
                         /\ \A T \in Upto(n) : T # {} => g[T] = w[first[T]] + g[T \ {first[T]}]
           P == {n \in 0..N : \E g : Part(n, g)}
<1>1. N \in Nat
  BY FS_CardinalityType
<1>2. \A T \in SUBSET S : IsFiniteSet(T) /\ Cardinality(T) \in Nat /\ Cardinality(T) <= N
  BY FS_Subset, FS_CardinalityType
<1>3. Cardinality({}) = 0 /\ \A T \in SUBSET S : Cardinality(T) = 0 => T = {}
  BY <1>2, FS_EmptySet
<1>4. \A T \in SUBSET S : T # {} =>
        /\ first[T] \in T /\ w[first[T]] \in Nat
        /\ T \ {first[T]} \in SUBSET S /\ Cardinality(T \ {first[T]}) = Cardinality(T) - 1
  <2>1. \A T \in SUBSET S : T # {} => first[T] \in T
    BY DEF Orders, NonEmpty
  <2> QED
    BY <1>2, <2>1, FS_RemoveElement
<1> HIDE DEF N
<1>5. 0 \in P
  <2> DEFINE g == [T \in Upto(0) |-> 0]
  <2>1. {} \in Upto(0) /\ \A T \in Upto(0) : T = {}
    BY <1>2, <1>3
  <2>2. Part(0, g)
    BY <2>1
  <2> HIDE DEF Part
  <2> QED
    BY <1>1, <2>2
<1>x. ASSUME NEW n \in 1..N, NEW f, Part(n - 1, f) PROVE \E g : Part(n, g)
  <2>1. Part(n - 1, f)
    BY <1>x
  <2> DEFINE g == [T \in Upto(n) |-> IF T = {} THEN 0 ELSE w[first[T]] + f[T \ {first[T]}]]
  <2>2. {} \in Upto(n) /\ {} \in Upto(n - 1)
    BY <1>1, <1>3
  <2>3. \A T \in Upto(n) : T # {} => T \ {first[T]} \in Upto(n - 1) /\ T \ {first[T]} \in Upto(n)
    BY <1>1, <1>2, <1>4
  <2>4. g \in [Upto(n) -> Nat] /\ g[{}] = 0
    <3>1. \A T \in Upto(n) : T # {} => w[first[T]] \in Nat /\ f[T \ {first[T]}] \in Nat
      BY <1>4, <2>1, <2>3
    <3>2. \A T \in Upto(n) : (IF T = {} THEN 0 ELSE w[first[T]] + f[T \ {first[T]}]) \in Nat
      <4> HIDE DEF Upto
      <4>1. \A a, b \in Nat : a + b \in Nat
        OBVIOUS
      <4> QED
        BY <3>1, <4>1
    <3>3. g[{}] = 0
      BY <2>2
    <3>4. g \in [Upto(n) -> Nat]
      <4> HIDE DEF Upto
      <4> QED
        BY <3>2
    <3> QED
      BY <3>3, <3>4
  <2>5. \A T \in Upto(n - 1) : T \in Upto(n)
    BY <1>1, <1>2
  <2> HIDE DEF Upto
  <2>6. \A T \in Upto(n - 1) : g[T] = f[T]
    BY <2>1, <2>5
  <2>7. \A T \in Upto(n) : T # {} => g[T] = w[first[T]] + g[T \ {first[T]}]
    BY <2>3, <2>6
  <2> HIDE DEF g
  <2>8. Part(n, g)
    BY <2>4, <2>7
  <2> HIDE DEF Part
  <2> QED
    BY <2>8
<1>6. \A n \in 1..N : n - 1 \in P => n \in P
  <2> HIDE DEF Part
  <2> QED
    BY <1>1, <1>x
<1>7. N \in P
  <2> HIDE DEF P
  <2> QED
    BY <1>1, <1>5, <1>6, EveryIndex
<1>8. Upto(N) = SUBSET S
  BY <1>2
<1>9. PICK g : Part(N, g)
  BY <1>7
<1> HIDE DEF Upto
<1>10. SumsUp(g, S, w, first)
  BY <1>8, <1>9 DEF SumsUp
<1> QED
  BY <1>10

\* Two sums in the same order, whose terms differ at one element by d.
MoreAt(c, d, S, w, v) ==
  /\ w \in [S -> Nat] /\ v \in [S -> Nat] /\ c \in S /\ d \in Nat
  /\ v[c] = w[c] + d /\ \A x \in S : x # c => v[x] = w[x]

\* And so do the sums.
LEMMA SumsDiffer ==
  ASSUME NEW S, IsFiniteSet(S), NEW first \in Orders(S)
  PROVE  \A c, d, w, v, g, h : MoreAt(c, d, S, w, v) /\ SumsUp(g, S, w, first) /\ SumsUp(h, S, v, first)
                                  => h[S] = g[S] + d
<1> SUFFICES ASSUME NEW c, NEW d, NEW w, NEW v, NEW g, NEW h,
                    MoreAt(c, d, S, w, v), SumsUp(g, S, w, first), SumsUp(h, S, v, first)
             PROVE  h[S] = g[S] + d
  OBVIOUS
<1>0. /\ w \in [S -> Nat] /\ v \in [S -> Nat] /\ c \in S /\ d \in Nat
      /\ v[c] = w[c] + d /\ \A x \in S : x # c => v[x] = w[x]
  BY DEF MoreAt
<1> DEFINE Q == {T \in SUBSET S : h[T] = g[T] + (IF c \in T THEN d ELSE 0)}
<1>1. {} \in Q
  BY <1>0 DEF SumsUp
<1>2. ASSUME NEW T \in SUBSET S, T # {}, \A x \in T : T \ {x} \in Q PROVE T \in Q
  <2>1. PICK x \in T : x = first[T]
    BY <1>2 DEF Orders, NonEmpty
  <2>2. g[T] = w[x] + g[T \ {x}] /\ h[T] = v[x] + h[T \ {x}]
    BY <1>2, <2>1 DEF SumsUp
  <2>3. h[T \ {x}] = g[T \ {x}] + (IF c \in T \ {x} THEN d ELSE 0)
    BY <1>2
  <2>4. w[x] \in Nat /\ v[x] \in Nat /\ g[T \ {x}] \in Nat /\ d \in Nat
    BY <1>0 DEF SumsUp
  <2>5. CASE x = c
    BY <1>0, <2>2, <2>3, <2>4, <2>5
  <2>6. CASE x # c
    <3>1. v[x] = w[x] /\ (c \in T <=> c \in T \ {x})
      BY <1>0, <2>6
    <3> QED
      BY <2>2, <2>3, <2>4, <3>1
  <2> QED
    BY <2>5, <2>6
<1>3. \A T \in SUBSET S : T \in Q
  <2> HIDE DEF Q
  <2> QED
    BY <1>1, <1>2, EverySubset
<1> QED
  BY <1>0, <1>3

\* A sum of zeros.
LEMMA SumsOfZeros ==
  ASSUME NEW S, IsFiniteSet(S), NEW w \in [S -> Nat], NEW first \in Orders(S),
         \A x \in S : w[x] = 0, NEW g, SumsUp(g, S, w, first)
  PROVE  g[S] = 0
<1> DEFINE Q == {T \in SUBSET S : g[T] = 0}
<1>1. {} \in Q
  BY DEF SumsUp
<1>2. ASSUME NEW T \in SUBSET S, T # {}, \A x \in T : T \ {x} \in Q PROVE T \in Q
  <2>1. PICK x \in T : x = first[T]
    BY <1>2 DEF Orders, NonEmpty
  <2>2. g[T] = w[x] + g[T \ {x}] /\ g[T \ {x}] = 0 /\ w[x] = 0
    BY <1>2, <2>1 DEF SumsUp
  <2> QED
    BY <2>2
<1>3. \A T \in SUBSET S : T \in Q
  <2> HIDE DEF Q
  <2> QED
    BY <1>1, <1>2, EverySubset
<1> QED
  BY <1>3

\* Two sums of the same terms in the same order.
LEMMA SumsSame ==
  ASSUME NEW S, IsFiniteSet(S), NEW w \in [S -> Nat], NEW first \in Orders(S),
         NEW g, SumsUp(g, S, w, first), NEW h, SumsUp(h, S, w, first)
  PROVE  h[S] = g[S] /\ g[S] \in Nat
<1> DEFINE Q == {T \in SUBSET S : h[T] = g[T]}
<1>1. {} \in Q
  BY DEF SumsUp
<1>2. ASSUME NEW T \in SUBSET S, T # {}, \A x \in T : T \ {x} \in Q PROVE T \in Q
  <2>1. PICK x \in T : x = first[T]
    BY <1>2 DEF Orders, NonEmpty
  <2>2. g[T] = w[x] + g[T \ {x}] /\ h[T] = w[x] + h[T \ {x}] /\ h[T \ {x}] = g[T \ {x}]
    BY <1>2, <2>1 DEF SumsUp
  <2> QED
    BY <2>2
<1>3. \A T \in SUBSET S : T \in Q
  <2> HIDE DEF Q
  <2> QED
    BY <1>1, <1>2, EverySubset
<1>4. g[S] \in Nat
  BY DEF SumsUp
<1> QED
  BY <1>3, <1>4

\* The sum of a sequence, as a fold and from the first number to the last.
SumOf(ns) == SumTo(0, ns, Len(ns))

\* The fold of a sequence is the sum of its numbers one after the other.
LEMMA FoldIsSum ==
  ASSUME NEW s \in Seq(Nat)
  PROVE  FoldLeft(+, 0, s) = SumOf(s) /\ SumOf(s) \in Nat
<1> DEFINE N == Len(s)
           S == 1..N
           EqF(g) == g = [t \in SUBSET S |-> IF t = {} THEN 0 ELSE g[t \ {Max(t)}] + s[Max(t)]]
           iter == CHOOSE g : EqF(g)
           first == [T \in NonEmpty(S) |-> Max(T)]
<1>0. N \in Nat /\ 0 \in 0..N /\ N \in 0..N /\ DOMAIN s = S /\ s \in [S -> Nat] /\ IsFiniteSet(S)
  BY FS_Interval
<1>1. FoldLeft(+, 0, s) = iter[S]
  BY <1>0 DEF FoldLeft, MapThenFoldSet
<1>2. \A T \in SUBSET S : T # {} => Max(T) \in T /\ \A n \in T : n <= Max(T)
  <2> SUFFICES ASSUME NEW T \in SUBSET S, T # {} PROVE Max(T) \in T /\ \A n \in T : n <= Max(T)
    OBVIOUS
  <2>1. T \in SUBSET Nat /\ \A n \in T : n <= N
    BY <1>0
  <2> HIDE DEF N, S
  <2> QED
    BY <1>0, <2>1, MaxOfNats
<1>3. first \in Orders(S)
  <2>1. \A T \in NonEmpty(S) : Max(T) \in T /\ Max(T) \in S
    BY <1>2 DEF NonEmpty
  <2> HIDE DEF S
  <2> QED
    BY <2>1 DEF Orders
<1>4. PICK g : SumsUp(g, S, s, first)
  <2> HIDE DEF S, first
  <2> QED
    BY <1>0, <1>3, SumsExist
<1>5. EqF(g)
  <2>1. \A T \in SUBSET S : T # {} => g[T] = g[T \ {Max(T)}] + s[Max(T)]
    <3> SUFFICES ASSUME NEW T \in SUBSET S, T # {} PROVE g[T] = g[T \ {Max(T)}] + s[Max(T)]
      OBVIOUS
    <3>1. first[T] = Max(T) /\ T \ {Max(T)} \in SUBSET S /\ Max(T) \in S
      <4>1. T \in NonEmpty(S) /\ Max(T) \in T
        BY <1>2 DEF NonEmpty
      <4> HIDE DEF S
      <4> QED
        BY <4>1
    <3> HIDE DEF S, first
    <3>2. g[T] = s[Max(T)] + g[T \ {Max(T)}] /\ g[T \ {Max(T)}] \in Nat /\ s[Max(T)] \in Nat
      BY <1>0, <1>4, <3>1 DEF SumsUp
    <3> QED
      BY <3>2
  <2> HIDE DEF S
  <2> QED
    BY <1>4, <2>1 DEF SumsUp
<1>6. EqF(iter)
  <2> HIDE DEF EqF
  <2> QED
    BY <1>5
<1> HIDE DEF iter, S
<1>7. iter[{}] = 0 /\ \A T \in SUBSET S : T # {} => iter[T] = iter[T \ {Max(T)}] + s[Max(T)]
  BY <1>6
<1>8. PICK f \in [0..N -> Nat] :
        /\ f[0] = 0 /\ \A n \in 1..N : f[n] = f[n - 1] + s[n]
        /\ \A n \in 0..N : SumTo(0, s, n) = f[n]
  <2>1. 0 \in Nat
    OBVIOUS
  <2> QED
    BY <2>1, Sums
<1> DEFINE P == {n \in 0..N : iter[1..n] = f[n]}
<1>9. 0 \in P
  <2>1. 1..0 = {} /\ 0 \in 0..N
    BY <1>0
  <2> QED
    BY <1>7, <1>8, <2>1
<1>10. \A n \in 1..N : n - 1 \in P => n \in P
  <2> SUFFICES ASSUME NEW n \in 1..N, n - 1 \in P PROVE n \in P
    OBVIOUS
  <2>0. n \in Nat /\ n >= 1 /\ n <= N /\ n \in 0..N
    BY <1>0
  <2>1. 1..n \in SUBSET S /\ n \in 1..n /\ \A m \in 1..n : m <= n
    BY <1>0, <2>0 DEF S
  <2>2. Max(1..n) = n
    <3>1. Max(1..n) \in 1..n /\ n <= Max(1..n)
      BY <1>2, <2>1
    <3> QED
      BY <2>0, <3>1
  <2>3. (1..n) \ {n} = 1..(n - 1)
    BY <2>0
  <2>4. iter[1..n] = iter[1..(n - 1)] + s[n]
    BY <1>7, <2>1, <2>2, <2>3
  <2> QED
    BY <1>8, <2>0, <2>4
<1>11. N \in P
  <2> HIDE DEF P, N
  <2> QED
    BY <1>0, <1>9, <1>10, EveryIndex
<1>12. N \in 0..N
  BY <1>0
<1> QED
  BY <1>1, <1>8, <1>11, <1>12 DEF S, SumOf

\* What is added to another number is added once.
LEMMA SumFrom ==
  ASSUME NEW start \in Nat, NEW s \in Seq(Nat)
  PROVE  SumTo(start, s, Len(s)) = start + SumOf(s)
<1> DEFINE N == Len(s)
<1>1. PICK f \in [0..N -> Nat] :
        /\ f[0] = start /\ \A n \in 1..N : f[n] = f[n - 1] + s[n]
        /\ \A n \in 0..N : SumTo(start, s, n) = f[n]
  BY Sums
<1>2. PICK g \in [0..N -> Nat] :
        /\ g[0] = 0 /\ \A n \in 1..N : g[n] = g[n - 1] + s[n]
        /\ \A n \in 0..N : SumTo(0, s, n) = g[n]
  <2>1. 0 \in Nat
    OBVIOUS
  <2> QED
    BY <2>1, Sums
<1>3. N \in Nat /\ N \in 0..N /\ 0 \in 0..N /\ \A n \in 1..N : s[n] \in Nat
  OBVIOUS
<1> HIDE DEF N
<1> DEFINE P == {n \in 0..N : f[n] = start + g[n]}
<1>4. 0 \in P
  BY <1>1, <1>2, <1>3
<1>5. \A n \in 1..N : n - 1 \in P => n \in P
  <2> SUFFICES ASSUME NEW n \in 1..N, n - 1 \in P PROVE n \in P
    OBVIOUS
  <2>1. n \in 0..N /\ n - 1 \in 0..N /\ f[n - 1] = start + g[n - 1]
    BY <1>3
  <2>2. f[n] = f[n - 1] + s[n] /\ g[n] = g[n - 1] + s[n] /\ g[n - 1] \in Nat /\ s[n] \in Nat
    BY <1>1, <1>2, <1>3, <2>1
  <2> QED
    BY <2>1, <2>2
<1>6. N \in P
  <2> HIDE DEF P
  <2> QED
    BY <1>3, <1>4, <1>5, EveryIndex
<1> QED
  BY <1>1, <1>2, <1>3, <1>6 DEF N, SumOf

\* The sum of two parts.
LEMMA SumOfParts ==
  ASSUME NEW s \in Seq(Nat), NEW t \in Seq(Nat)
  PROVE  SumOf(s \o t) = SumOf(s) + SumOf(t)
<1> DEFINE u == s \o t
           M == Len(s)
           N == Len(t)
<1>0. /\ u \in Seq(Nat) /\ Len(u) = M + N /\ M \in Nat /\ N \in Nat
      /\ M \in 0..M /\ N \in 0..N
      /\ (\A n \in 1..M : u[n] = s[n] /\ s[n] \in Nat) /\ \A n \in 1..N : u[M + n] = t[n] /\ t[n] \in Nat
  BY ConcatProperties
<1>t. 0 \in Nat
  OBVIOUS
<1>1. PICK f \in [0..Len(s) -> Nat] :
        /\ f[0] = 0 /\ \A n \in 1..Len(s) : f[n] = f[n - 1] + s[n]
        /\ \A n \in 0..Len(s) : SumTo(0, s, n) = f[n]
  BY <1>t, Sums, ZenonT(60)
<1>2. PICK g \in [0..Len(t) -> Nat] :
        /\ g[0] = 0 /\ \A n \in 1..Len(t) : g[n] = g[n - 1] + t[n]
        /\ \A n \in 0..Len(t) : SumTo(0, t, n) = g[n]
  BY <1>t, Sums, ZenonT(60)
<1>3. PICK h \in [0..Len(u) -> Nat] :
        /\ h[0] = 0 /\ \A n \in 1..Len(u) : h[n] = h[n - 1] + u[n]
        /\ \A n \in 0..Len(u) : SumTo(0, u, n) = h[n]
  <2> HIDE DEF u
  <2> QED
    BY <1>0, <1>t, Sums, ZenonT(60)
<1> HIDE DEF u, M, N
<1>4. /\ f \in [0..M -> Nat] /\ f[0] = 0 /\ \A n \in 1..M : f[n] = f[n - 1] + s[n]
      /\ SumTo(0, s, M) = f[M]
  BY <1>0, <1>1 DEF M
<1>5. /\ g \in [0..N -> Nat] /\ g[0] = 0 /\ \A n \in 1..N : g[n] = g[n - 1] + t[n]
      /\ SumTo(0, t, N) = g[N]
  BY <1>0, <1>2 DEF N
<1>6. /\ h \in [0..(M + N) -> Nat] /\ h[0] = 0 /\ \A n \in 1..(M + N) : h[n] = h[n - 1] + u[n]
      /\ SumTo(0, u, M + N) = h[M + N]
  BY <1>0, <1>3
<1> DEFINE P == {n \in 0..M : h[n] = f[n]}
<1>7. M \in P
  <2>1. 0 \in P
    BY <1>0, <1>4, <1>6
  <2>2. \A n \in 1..M : n - 1 \in P => n \in P
    <3> SUFFICES ASSUME NEW n \in 1..M, n - 1 \in P PROVE n \in P
      OBVIOUS
    <3>1. n \in 1..(M + N) /\ n \in 0..M
      BY <1>0
    <3>2. h[n] = h[n - 1] + u[n] /\ u[n] = s[n] /\ f[n] = f[n - 1] + s[n]
      BY <1>0, <1>4, <1>6, <3>1
    <3> QED
      BY <3>1, <3>2
  <2> HIDE DEF P
  <2> QED
    BY <1>0, <2>1, <2>2, EveryIndex
<1> DEFINE R == {n \in 0..N : h[M + n] = f[M] + g[n]}
<1>8. N \in R
  <2>0. M \in 0..M /\ f[M] \in Nat
    BY <1>0, <1>4
  <2>1. 0 \in R
    BY <1>0, <1>5, <1>7, <2>0
  <2>2. \A n \in 1..N : n - 1 \in R => n \in R
    <3> SUFFICES ASSUME NEW n \in 1..N, n - 1 \in R PROVE n \in R
      OBVIOUS
    <3>1. /\ M + n \in 1..(M + N) /\ n \in 0..N /\ n - 1 \in 0..N /\ (M + n) - 1 = M + (n - 1)
      BY <1>0
    <3>2. h[M + n] = h[M + (n - 1)] + u[M + n] /\ u[M + n] = t[n] /\ t[n] \in Nat
      BY <1>0, <1>6, <3>1
    <3>3. h[M + (n - 1)] = f[M] + g[n - 1] /\ g[n] = g[n - 1] + t[n] /\ g[n - 1] \in Nat
      BY <1>5, <3>1
    <3>4. h[M + n] = f[M] + g[n]
      <4>1. PICK a \in Nat, b \in Nat, e \in Nat : a = f[M] /\ b = g[n - 1] /\ e = t[n]
        BY <2>0, <3>2, <3>3
      <4>2. (a + b) + e = a + (b + e)
        OBVIOUS
      <4> QED
        BY <3>2, <3>3, <4>1, <4>2, Zenon
    <3> QED
      BY <3>1, <3>4
  <2> HIDE DEF R
  <2> QED
    BY <1>0, <2>1, <2>2, EveryIndex
<1>9. SumTo(0, u, Len(u)) = SumTo(0, s, M) + SumTo(0, t, N)
  BY <1>0, <1>4, <1>5, <1>6, <1>7, <1>8
<1> QED
  BY <1>9 DEF SumOf, u, M, N

-----------------------------------------------------------------------------
(* The state is the sum of all numbers consumed.                           *)

\* The element that MapThenSumSet takes first.
AnyOne == [T \in NonEmpty(Conn) |-> CHOOSE x \in T : TRUE]

\* The fold over all connections, as FinalSum has it.
SumOver(w) == MapThenSumSet(LAMBDA c : w[c], Conn)

\* It is an element.
LEMMA AnyOneChooses == AnyOne \in Orders(Conn)
<1>1. \A T \in NonEmpty(Conn) : (CHOOSE x \in T : TRUE) \in T /\ (CHOOSE x \in T : TRUE) \in Conn
  BY DEF NonEmpty
<1> QED
  BY <1>1 DEF AnyOne, Orders

\* A function that takes the elements out as AnyOne does and adds their terms.
Iterates(g, w) ==
  g = [T \in SUBSET Conn |->
         IF T = {} THEN 0 ELSE w[CHOOSE x \in T : TRUE] + g[T \ {CHOOSE x \in T : TRUE}]]

\* There is such a function, and it is a sum.
LEMMA IteratesSum ==
  ASSUME NEW w \in [Conn -> Nat]
  PROVE  /\ \E g : Iterates(g, w)
         /\ \A g : Iterates(g, w) => SumsUp(g, Conn, w, AnyOne)
<1>1. \A T \in SUBSET Conn : T # {} =>
        /\ AnyOne[T] = (CHOOSE x \in T : TRUE) /\ AnyOne[T] \in Conn
        /\ T \ {AnyOne[T]} \in SUBSET Conn
  <2>1. \A T \in SUBSET Conn : T # {} => T \in NonEmpty(Conn)
    BY DEF NonEmpty
  <2>2. \A T \in NonEmpty(Conn) : AnyOne[T] = (CHOOSE x \in T : TRUE)
    BY DEF AnyOne
  <2>3. \A T \in NonEmpty(Conn) : AnyOne[T] \in Conn
    BY AnyOneChooses DEF Orders
  <2> QED
    BY <2>1, <2>2, <2>3
<1>2. PICK f : SumsUp(f, Conn, w, AnyOne)
  BY FiniteTest, AnyOneChooses, SumsExist
<1>3. Iterates(f, w)
  <2>1. \A T \in SUBSET Conn : T # {} =>
          f[T] = w[CHOOSE x \in T : TRUE] + f[T \ {CHOOSE x \in T : TRUE}]
    BY <1>1, <1>2 DEF SumsUp
  <2> QED
    BY <1>2, <2>1 DEF SumsUp, Iterates
<1>4. ASSUME NEW g, Iterates(g, w) PROVE SumsUp(g, Conn, w, AnyOne)
  <2>1. g[{}] = 0 /\ \A T \in SUBSET Conn : T # {} => g[T] = w[AnyOne[T]] + g[T \ {AnyOne[T]}]
    <3>1. \A T \in SUBSET Conn : T # {} =>
            g[T] = w[CHOOSE x \in T : TRUE] + g[T \ {CHOOSE x \in T : TRUE}]
      BY <1>4 DEF Iterates
    <3>2. g[{}] = 0
      BY <1>4 DEF Iterates
    <3> QED
      BY <1>1, <3>1, <3>2
  <2> DEFINE Q == {T \in SUBSET Conn : g[T] \in Nat}
  <2>2. {} \in Q
    BY <2>1
  <2>3. ASSUME NEW T \in SUBSET Conn, T # {}, \A x \in T : T \ {x} \in Q PROVE T \in Q
    <3>1. AnyOne[T] \in T /\ w[AnyOne[T]] \in Nat
      BY <2>3, AnyOneChooses DEF Orders, NonEmpty
    <3>2. g[T \ {AnyOne[T]}] \in Nat
      BY <2>3, <3>1
    <3> QED
      BY <2>1, <2>3, <3>1, <3>2
  <2>4. \A T \in SUBSET Conn : T \in Q
    <3> HIDE DEF Q
    <3> QED
      BY <2>2, <2>3, FiniteTest, EverySubset
  <2>5. g \in [SUBSET Conn -> Nat]
    <3>1. \A T \in SUBSET Conn : g[T] \in Nat
      BY <2>4
    <3>2. g = [T \in SUBSET Conn |-> g[T]]
      BY <1>4 DEF Iterates
    <3> QED
      BY <3>1, <3>2
  <2> QED
    BY <2>1, <2>5 DEF SumsUp
<1> QED
  BY <1>3, <1>4

\* The fold over all connections is the sum over them.
LEMMA SumOverIs ==
  ASSUME NEW w \in [Conn -> Nat]
  PROVE  \E g : SumsUp(g, Conn, w, AnyOne) /\ SumOver(w) = g[Conn]
<1> DEFINE iter == CHOOSE g : Iterates(g, w)
<1>1. SumOver(w) = iter[Conn]
  BY DEF SumOver, MapThenSumSet, MapThenFoldSet, Iterates
<1>2. Iterates(iter, w)
  BY IteratesSum
<1>3. SumsUp(iter, Conn, w, AnyOne)
  BY <1>2, IteratesSum
<1> QED
  BY <1>1, <1>3

\* More for one connection is as much more for all.
LEMMA SumOverMore ==
  ASSUME NEW w \in [Conn -> Nat], NEW v \in [Conn -> Nat], NEW c \in Conn, NEW d \in Nat,
         v[c] = w[c] + d, \A x \in Conn : x # c => v[x] = w[x]
  PROVE  SumOver(v) = SumOver(w) + d
<1>1. PICK g : SumsUp(g, Conn, w, AnyOne) /\ SumOver(w) = g[Conn]
  BY SumOverIs
<1>2. PICK h : SumsUp(h, Conn, v, AnyOne) /\ SumOver(v) = h[Conn]
  BY SumOverIs
<1>3. MoreAt(c, d, Conn, w, v)
  BY DEF MoreAt
<1>4. h[Conn] = g[Conn] + d
  BY <1>1, <1>2, <1>3, FiniteTest, AnyOneChooses, SumsDiffer
<1> QED
  BY <1>1, <1>2, <1>4

\* The fold that FinalSum states is such a sum.
LEMMA FoldsOver ==
  MapThenSumSet(LAMBDA c : FoldLeft(+, 0, Asked(c)), Conn) = SumOver([c \in Conn |-> SumOf(Asked(c))])
<1> DEFINE fold(s) == FoldLeft(+, 0, s)
           v == [c \in Conn |-> SumOf(Asked(c))]
           pick(T) == CHOOSE x \in T : TRUE
           Eq(g) == g = [T \in SUBSET Conn |->
                           IF T = {} THEN 0 ELSE fold(Asked(pick(T))) + g[T \ {pick(T)}]]
           iter == CHOOSE g : Eq(g)
<1>1. MapThenSumSet(LAMBDA c : FoldLeft(+, 0, Asked(c)), Conn) = iter[Conn]
  BY DEF MapThenSumSet, MapThenFoldSet
<1>2. v \in [Conn -> Nat] /\ \A c \in Conn : fold(Asked(c)) = v[c]
  <2>1. \A c \in Conn : Input[c] \in Seq(Byte)
    BY BotConstants DEF Byte
  <2>2. \A c \in Conn : Asked(c) \in Seq(Nat)
    BY <2>1, ScanType DEF Asked
  <2> QED
    BY <2>2, FoldIsSum
<1> HIDE DEF v, fold
<1>3. \A T \in SUBSET Conn : T # {} => fold(Asked(pick(T))) = v[pick(T)]
  <2>1. \A T \in SUBSET Conn : T # {} => pick(T) \in Conn
    OBVIOUS
  <2> HIDE DEF pick
  <2> QED
    BY <1>2, <2>1
<1>4. \A g : Eq(g) <=> Iterates(g, v)
  <2> SUFFICES ASSUME NEW g PROVE Eq(g) <=> Iterates(g, v)
    OBVIOUS
  <2>1. [T \in SUBSET Conn |-> IF T = {} THEN 0 ELSE fold(Asked(pick(T))) + g[T \ {pick(T)}]]
          = [T \in SUBSET Conn |-> IF T = {} THEN 0 ELSE v[pick(T)] + g[T \ {pick(T)}]]
    <3> HIDE DEF pick
    <3>1. \A T \in SUBSET Conn :
            (IF T = {} THEN 0 ELSE fold(Asked(pick(T))) + g[T \ {pick(T)}])
              = (IF T = {} THEN 0 ELSE v[pick(T)] + g[T \ {pick(T)}])
      BY <1>3, Zenon
    <3> QED
      BY <3>1
  <2> QED
    BY <2>1 DEF Iterates
<1>5. Iterates(iter, v)
  <2> HIDE DEF Eq
  <2>1. \E g : Eq(g)
    BY <1>2, <1>4, IteratesSum
  <2>2. Eq(iter)
    BY <2>1
  <2> QED
    BY <1>4, <2>2
<1> HIDE DEF iter, Eq, pick
<1>6. SumsUp(iter, Conn, v, AnyOne)
  BY <1>2, <1>5, IteratesSum
<1>7. PICK g : SumsUp(g, Conn, v, AnyOne) /\ SumOver(v) = g[Conn]
  BY <1>2, SumOverIs
<1>8. iter[Conn] = g[Conn]
  BY <1>2, <1>6, <1>7, FiniteTest, AnyOneChooses, SumsSame
<1> QED
  BY <1>1, <1>7, <1>8 DEF v

\* The server's state is the sum, over all connections, of the numbers it has consumed.
Summed == total = SumOver([c \in Conn |-> SumOf(Nums(c))])

\* What is summed: natural numbers.
LEMMA NumsTypes ==
  ASSUME CInv
  PROVE  /\ \A c \in Conn : Nums(c) \in Seq(Nat) /\ SumOf(Nums(c)) \in Nat
         /\ [c \in Conn |-> SumOf(Nums(c))] \in [Conn -> Nat]
         /\ total \in Nat
<1>1. \A c \in Conn : Nums(c) \in Seq(Nat)
  <2>1. \A c \in Conn : Consumed(c) \in Seq(Byte)
    BY AnswersBounded
  <2> QED
    BY <2>1, ScanType DEF Nums
<1>2. \A c \in Conn : SumOf(Nums(c)) \in Nat
  BY <1>1, FoldIsSum
<1>3. total \in Nat
  BY DEF CInv, IInv, TypeOK
<1> QED
  BY <1>1, <1>2, <1>3

\* Numbers that are added for one connection are added to the sum.
LEMMA AddedUp ==
  ASSUME CInv, CInv', Summed, NEW c \in Conn, Service!Add(c)
  PROVE  Summed'
<1> DEFINE w == [d \in Conn |-> SumOf(Nums(d))]
           v == [d \in Conn |-> SumOf(Nums(d)')]
<1>1. /\ \A d \in Conn : Nums(d) \in Seq(Nat) /\ SumOf(Nums(d)) \in Nat
      /\ w \in [Conn -> Nat] /\ total \in Nat
  BY NumsTypes
<1>2. \A d \in Conn : Nums(d)' \in Seq(Nat)
  <2>1. ASSUME NEW d \in Conn PROVE Consumed(d)' \in Seq(Byte)
    <3>1. (TypeOK /\ Len(toServer[d]) <= Len(sent[d]))'
      BY DEF CInv, IInv, Applied, Streams
    <3>2. /\ sent'[d] \in Seq(Byte) /\ Len(sent'[d]) - Len(toServer'[d]) \in 0..Len(sent'[d])
      <4>1. sent'[d] \in Seq(Byte) /\ toServer'[d] \in Seq(Byte)
        BY <3>1 DEF TypeOK
      <4>2. PICK s \in Seq(Byte), t \in Seq(Byte) : s = sent'[d] /\ t = toServer'[d]
        BY <4>1
      <4>3. Len(t) <= Len(s) /\ Len(t) \in Nat /\ Len(s) \in Nat
        BY <3>1, <4>2
      <4>4. Len(s) - Len(t) \in 0..Len(s)
        BY <4>3
      <4> QED
        BY <4>2, <4>4, Zenon
    <3> QED
      BY <3>2 DEF Consumed
  <2> QED
    BY <2>1, ScanType DEF Nums
<1>3. \A d \in Conn : SumOf(Nums(d)') \in Nat
  BY <1>2, FoldIsSum
<1>4. /\ Service!IsPrefix(Nums(c), Nums(c)') /\ \A d \in Conn : d # c => Nums(d)' = Nums(d)
      /\ total' = Service!After(SubSeq(Nums(c)', Len(Nums(c)) + 1, Len(Nums(c)')),
                                Len(SubSeq(Nums(c)', Len(Nums(c)) + 1, Len(Nums(c)'))))
  BY DEF Service!Add, Service!New, Nums
<1>5. PICK a \in Seq(Nat), b \in Seq(Nat) : a = Nums(c) /\ b = Nums(c)'
  BY <1>1, <1>2
<1>6. PICK ns \in Seq(Nat) : ns = SubSeq(b, Len(a) + 1, Len(b)) /\ b = a \o ns
  <2>1. Len(a) <= Len(b) /\ SubSeq(a, 1, Len(a)) = SubSeq(b, 1, Len(a)) /\ Len(a) \in Nat
    BY <1>4, <1>5 DEF Service!IsPrefix
  <2>2. SubSeq(a, 1, Len(a)) = a /\ SubSeq(b, 1, Len(b)) = b /\ <<>> \o b = b
    BY Whole
  <2>3. CASE Len(a) = 0
    <3>1. a = <<>> /\ SubSeq(b, Len(a) + 1, Len(b)) = b
      BY <2>2, <2>3, EmptySeq, SMTT(60)
    <3> QED
      BY <2>2, <3>1
  <2>4. CASE Len(a) # 0
    <3>1. Len(a) \in 1..Len(b)
      BY <2>1, <2>4
    <3>2. SubSeq(b, Len(a) + 1, Len(b)) \in Seq(Nat) /\ SubSeq(b, 1, Len(a)) \o SubSeq(b, Len(a) + 1, Len(b)) = b
      BY <3>1, TwoParts
    <3> QED
      BY <2>1, <2>2, <3>2
  <2> QED
    BY <2>3, <2>4
<1>7. total' = total + SumOf(ns)
  <2>1. total' = Service!After(ns, Len(ns))
    BY <1>4, <1>5, <1>6
  <2>2. Service!After(ns, Len(ns)) = SumTo(total, ns, Len(ns))
    BY DEF Service!After, SumTo
  <2> QED
    BY <1>1, <2>1, <2>2, SumFrom
<1>8. SumOf(b) = SumOf(a) + SumOf(ns) /\ SumOf(ns) \in Nat
  BY <1>6, SumOfParts, FoldIsSum
<1>9. /\ v \in [Conn -> Nat] /\ v[c] = w[c] + SumOf(ns)
      /\ \A d \in Conn : d # c => v[d] = w[d]
  BY <1>3, <1>4, <1>5, <1>8
<1>10. Summed' <=> total' = SumOver(v)
  BY DEF Summed
<1>11. total = SumOver(w)
  BY DEF Summed
<1> HIDE DEF w, v
<1>12. SumOver(v) = SumOver(w) + SumOf(ns)
  BY <1>1, <1>8, <1>9, SumOverMore
<1> QED
  BY <1>7, <1>10, <1>11, <1>12

\* Every step of the counter keeps the state the sum of what was consumed: only Add changes
\* either, and it changes both by as much (server.c 143-150).
LEMMA SummedStep == CInv /\ CInv' /\ Summed /\ [Service!ServiceNext]_(Service!serviceVars) => Summed'
<1> SUFFICES ASSUME CInv, CInv', Summed, [Service!ServiceNext]_(Service!serviceVars) PROVE Summed'
  OBVIOUS
<1>1. ASSUME NEW c \in Conn, Service!Serve(c) \/ Service!ServeAndClose(c) PROVE Summed'
  BY <1>1, AddedUp DEF Service!Serve, Service!ServeAndClose
<1>2. ASSUME total' = total, [c \in Conn |-> Nums(c)]' = [c \in Conn |-> Nums(c)] PROVE Summed'
  <2>1. \A c \in Conn : Nums(c)' = Nums(c)
    BY <1>2
  <2>2. [c \in Conn |-> SumOf(Nums(c))]' = [c \in Conn |-> SumOf(Nums(c))]
    BY <2>1
  <2> QED
    BY <1>2, <2>2 DEF Summed
<1>3. ASSUME NEW c \in Conn, Service!Open(c) PROVE Summed'
  BY <1>2, <1>3 DEF Service!Open, Nums
<1>4. CASE Service!CloseAll
  BY <1>2, <1>4 DEF Service!CloseAll, Nums
<1>5. CASE UNCHANGED Service!serviceVars
  BY <1>2, <1>5 DEF Service!serviceVars, Nums
<1> QED
  BY <1>1, <1>3, <1>4, <1>5 DEF Service!ServiceNext

\* At the start nothing was consumed and the state is zero (server.c 240-250).
LEMMA SummedInit == BotInit => Summed
<1> SUFFICES ASSUME BotInit PROVE Summed
  OBVIOUS
<1> DEFINE w == [c \in Conn |-> SumOf(Nums(c))]
<1>1. CInv /\ total = 0 /\ sent = [c \in Conn |-> <<>>] /\ toServer = [c \in Conn |-> <<>>]
  BY CounterInit DEF BotInit, Init
<1>2. \A c \in Conn : Nums(c) = <<>>
  <2>1. SubSeq(<<>>, 1, Len(<<>>) - Len(<<>>)) = <<>>
    OBVIOUS
  <2>2. \A c \in Conn : Consumed(c) = <<>>
    BY <1>1, <2>1 DEF Consumed
  <2> QED
    BY <2>2, ScanNil DEF Nums
<1>3. SumOf(<<>>) = 0
  <2>0. <<>> \in Seq(Nat) /\ Len(<<>>) = 0 /\ 0 \in Nat
    OBVIOUS
  <2>1. PICK s \in Seq(Nat), zero \in Nat : s = <<>> /\ Len(s) = 0 /\ zero = 0
    BY <2>0
  <2>2. PICK f \in [0..Len(s) -> Nat] :
          f[0] = zero /\ \A n \in 0..Len(s) : SumTo(zero, s, n) = f[n]
    BY Sums
  <2> QED
    BY <2>1, <2>2 DEF SumOf
<1>4. w \in [Conn -> Nat] /\ \A c \in Conn : w[c] = 0
  BY <1>2, <1>3
<1>5. Summed <=> total = SumOver(w)
  BY DEF Summed
<1> HIDE DEF w
<1>6. PICK g : SumsUp(g, Conn, w, AnyOne) /\ SumOver(w) = g[Conn]
  BY <1>4, SumOverIs
<1>7. g[Conn] = 0
  BY <1>4, <1>6, FiniteTest, AnyOneChooses, SumsOfZeros
<1> QED
  BY <1>1, <1>5, <1>6, <1>7

\* At every moment the state is the sum of the numbers of all the lines the server has taken
\* from its connections, those of closed ones included (server.c 143-150).
THEOREM ThSummed == BotSpec => []Summed
<1>1. BotInv /\ Summed /\ [BotNext]_botVars => Summed'
  BY BotStepInv, BotIsAny, CounterStep, SummedStep DEF BotInv
<1> QED
  BY <1>1, BotInvariance, SummedInit, PTL DEF BotSpec

\* Once every client has ended well, the state is the sum of all the numbers in their inputs,
\* for all inputs of the model, whose lines have no sign, and any finite number of clients
\* (runme.sh TEST 1 for such lines).
THEOREM ThFinalSum == BotSpec => []FinalSum
<1>1. BotInv /\ Summed => FinalSum
  <2> SUFFICES ASSUME BotInv, Summed, \A c \in Conn : prog[c] = "ok"
               PROVE  total = MapThenSumSet(LAMBDA c : FoldLeft(+, 0, Asked(c)), Conn)
    BY DEF FinalSum
  <2>1. \A c \in Conn : Nums(c) = Asked(c)
    BY EndedWell
  <2>2. [c \in Conn |-> SumOf(Asked(c))] = [c \in Conn |-> SumOf(Nums(c))]
    BY <2>1
  <2> QED
    BY <2>2, FoldsOver DEF Summed
<1> QED
  BY <1>1, BotInvariance, ThSummed, PTL

\* The same of the runs without signals, faults and kills, on which TLC checks it.
THEOREM ThQuietFinalSum == QuietBotSpec => []FinalSum
<1>1. [QuietBotNext]_botVars => [BotNext]_botVars
  BY DEF BotNext
<1> QED
  BY <1>1, ThFinalSum, PTL DEF BotSpec, QuietBotSpec

=============================================================================
