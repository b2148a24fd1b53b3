------------------------ MODULE BrownianServerProofs ------------------------
(***************************************************************************)
(* The server keeps its table of clients in step with its sockets, has     *)
(* room for every chunk, and closes nobody for what another did unless it  *)
(* has accepted a connection in the same iteration, for any number of      *)
(* connections and slots, all sizes of its buffers, and whatever the       *)
(* clients send.                                                           *)
(***************************************************************************)
EXTENDS BrownianServer, SequenceTheorems, FiniteSetTheorems, WellFoundedInduction, TLAPS

USE ServerConstants

-----------------------------------------------------------------------------
(* Numbers and sequences.                                                  *)

LEMMA LeastNat ==
  ASSUME NEW T \in SUBSET Nat, T # {}
  PROVE  \E m \in T : \A n \in T : m <= n
<1>1. PICK m \in T : \A n \in T : <<n, m>> \notin OpToRel(<, Nat)
  BY NatLessThanWellFounded, WFMin
<1>2. \A n \in T : ~(n < m)
  BY <1>1 DEF OpToRel
<1> QED
  BY <1>2

LEMMA MinOfNats ==
  ASSUME NEW T \in SUBSET Nat, T # {}
  PROVE  Min(T) \in T /\ \A n \in T : Min(T) <= n
  BY LeastNat DEF Min

LEMMA MaxOfNats ==
  ASSUME NEW T \in SUBSET Nat, T # {}, NEW bound \in Nat, \A n \in T : n <= bound
  PROVE  Max(T) \in T /\ \A n \in T : n <= Max(T)
<1> DEFINE U == {bound - n : n \in T}
<1>0. \A n \in T : bound - n \in Nat
  OBVIOUS
<1>1. U \in SUBSET Nat /\ U # {}
  BY <1>0
<1>2. PICK u \in U : \A v \in U : u <= v
  BY <1>1, LeastNat
<1>3. PICK m \in T : u = bound - m
  OBVIOUS
<1>4. \A n \in T : bound - m <= bound - n
  BY <1>2, <1>3
<1>5. \A n \in T : m >= n
  BY <1>4
<1> QED
  BY <1>5 DEF Max

\* What a function says at 0, and at every place if it does at the one before, it says everywhere.
LEMMA EveryPlace ==
  ASSUME NEW S, NEW N \in Nat, NEW h, h[0] \in S,
         \A n \in 1..N : h[n - 1] \in S => h[n] \in S
  PROVE  \A n \in 0..N : h[n] \in S
<1> DEFINE Bad == {n \in 0..N : h[n] \notin S}
<1>1. SUFFICES ASSUME Bad # {} PROVE FALSE
  OBVIOUS
<1>2. PICK m \in Bad : \A n \in Bad : m <= n
  <2>1. Bad \in SUBSET Nat
    OBVIOUS
  <2> QED
    BY <1>1, <2>1, LeastNat
<1>3. m \in 1..N /\ m - 1 \in 0..N /\ m - 1 \notin Bad
  BY <1>2
<1> QED
  BY <1>2, <1>3

\* There is a function that takes the steps g from base.
Steps(S, N) == [1..N -> [S -> S]]
Takes(f, S, N, base, g) ==
  f \in [0..N -> S] /\ f[0] = base /\ \A n \in 1..N : f[n] = g[n][f[n - 1]]

LEMMA Recurrence ==
  ASSUME NEW S, NEW N \in Nat, NEW base \in S, NEW g \in Steps(S, N)
  PROVE  \E f : Takes(f, S, N, base, g)
<1> USE DEF Steps, Takes
<1> DEFINE Upto(m, f) == /\ f \in [0..m -> S] /\ f[0] = base
                         /\ \A n \in 1..m : f[n] = g[n][f[n - 1]]
           Bad == {m \in 0..N : ~\E f : Upto(m, f)}
<1>1. SUFFICES ASSUME Bad # {} PROVE FALSE
  <2>1. N \notin Bad => \E f : Upto(N, f)
    OBVIOUS
  <2> QED
    BY <2>1
<1>2. PICK m \in Bad : \A n \in Bad : m <= n
  <2>1. Bad \in SUBSET Nat
    OBVIOUS
  <2> HIDE DEF Bad
  <2> QED
    BY <1>1, <2>1, LeastNat
<1>3. m \in 0..N /\ ~\E f : Upto(m, f)
  OBVIOUS
<1>4. CASE m = 0
  <2>1. Upto(0, [n \in 0..0 |-> base])
    OBVIOUS
  <2> HIDE DEF Upto
  <2> QED
    BY <1>3, <1>4, <2>1
<1>5. CASE m # 0
  <2>1. m \in 1..N /\ m - 1 \in 0..N /\ ~(m <= m - 1)
    BY <1>3, <1>5
  <2>0. m - 1 \notin Bad
    <3> HIDE DEF Bad
    <3> QED
      BY <1>2, <2>1
  <2>2. PICK f : Upto(m - 1, f)
    BY <2>0, <2>1
  <2>3. f[m - 1] \in S /\ g[m] \in [S -> S] /\ g[m][f[m - 1]] \in S
    BY <2>1, <2>2
  <2> DEFINE e == [n \in 0..m |-> IF n = m THEN g[m][f[m - 1]] ELSE f[n]]
  <2>4. e \in [0..m -> S]
    BY <2>1, <2>2, <2>3
  <2>5. e[0] = base /\ e[m] = g[m][e[m - 1]]
    BY <2>1, <2>2
  <2>6. \A n \in 1..m : e[n] = g[n][e[n - 1]]
    <3>1. SUFFICES ASSUME NEW n \in 1..m PROVE e[n] = g[n][e[n - 1]]
      OBVIOUS
    <3>2. CASE n = m
      BY <3>2, <2>5
    <3>3. CASE n # m
      <4>1. n \in 1..(m - 1) /\ n - 1 \in 0..m /\ n \in 0..m /\ n - 1 # m
        BY <2>1, <3>3
      <4>2. f[n] = g[n][f[n - 1]]
        BY <4>1, <2>2
      <4> QED
        BY <4>1, <4>2, <3>3
    <3> QED
      BY <3>2, <3>3
  <2>7. Upto(m, e)
    BY <2>4, <2>5, <2>6
  <2> HIDE DEF Upto, e
  <2> QED
    BY <1>3, <2>7
<1> QED
  BY <1>4, <1>5

\* A sequence made by walking from the front holds what each step adds.
LEMMA NumberType ==
  ASSUME NEW line, NEW N \in Nat, Len(line) = N, \A n \in 1..N : line[n] \in Nat
  PROVE  Number(line) \in Nat
<1> DEFINE Eq(f) == f = [n \in 0..N |-> IF n = 0 THEN 0 ELSE 10 * f[n - 1] + line[n]]
           h == CHOOSE f : Eq(f)
           g == [n \in 1..N |-> [x \in Nat |-> 10 * x + line[n]]]
<1>1. g \in Steps(Nat, N)
  BY DEF Steps
<1>2. PICK f : Takes(f, Nat, N, 0, g)
  <2>1. 0 \in Nat /\ N \in Nat
    OBVIOUS
  <2> HIDE DEF g
  <2> QED
    BY <1>1, <2>1, Recurrence
<1>f. f \in [0..N -> Nat] /\ f[0] = 0 /\ \A n \in 1..N : f[n] = g[n][f[n - 1]]
  BY <1>2 DEF Takes
<1>3. \A n \in 1..N : f[n] = 10 * f[n - 1] + line[n]
  <2>1. \A n \in 1..N : n - 1 \in 0..N /\ f[n - 1] \in Nat
    BY <1>f
  <2> QED
    BY <1>f, <2>1
<1>4. Eq(f)
  <2>1. \A n \in 0..N : f[n] = IF n = 0 THEN 0 ELSE 10 * f[n - 1] + line[n]
    BY <1>f, <1>3
  <2> QED
    BY <1>f, <2>1
<1>5. Eq(h)
  <2> HIDE DEF Eq
  <2> QED
    BY <1>4
<1>6. h[0] = 0 /\ \A n \in 1..N : h[n] = 10 * h[n - 1] + line[n]
  <2> HIDE DEF h
  <2> QED
    BY <1>5
<1> HIDE DEF h
<1>7. \A n \in 1..N : h[n - 1] \in Nat => h[n] \in Nat
  BY <1>6
<1>8. \A n \in 0..N : h[n] \in Nat
  <2>1. h[0] \in Nat
    BY <1>6
  <2> QED
    BY <1>7, <2>1, EveryPlace
<1>9. Number(line) = h[N]
  BY DEF Number, h
<1> QED
  BY <1>8, <1>9

LEMMA TotalsType ==
  ASSUME NEW start \in Nat, NEW numbers \in Seq(Nat)
  PROVE  Totals(start, numbers) \in Seq(Nat) /\ Len(Totals(start, numbers)) = Len(numbers)
<1> DEFINE N == Len(numbers)
           Eq(f) == f = [n \in 0..N |-> IF n = 0 THEN start ELSE f[n - 1] + numbers[n]]
           h == CHOOSE f : Eq(f)
           g == [n \in 1..N |-> [x \in Nat |-> x + numbers[n]]]
<1>0. N \in Nat /\ \A n \in 1..N : numbers[n] \in Nat
  OBVIOUS
<1>1. g \in Steps(Nat, N)
  BY <1>0 DEF Steps
<1>2. PICK f : Takes(f, Nat, N, start, g)
  <2> HIDE DEF g, N
  <2> QED
    BY <1>0, <1>1, Recurrence
<1>f. f \in [0..N -> Nat] /\ f[0] = start /\ \A n \in 1..N : f[n] = g[n][f[n - 1]]
  BY <1>2 DEF Takes
<1>3. \A n \in 1..N : f[n] = f[n - 1] + numbers[n]
  <2>1. \A n \in 1..N : n - 1 \in 0..N /\ f[n - 1] \in Nat
    <3> HIDE DEF N
    <3> QED
      BY <1>0, <1>f
  <2> QED
    BY <1>f, <2>1
<1>4. Eq(f)
  <2>1. \A n \in 0..N : f[n] = IF n = 0 THEN start ELSE f[n - 1] + numbers[n]
    BY <1>f, <1>3
  <2> QED
    BY <1>f, <2>1
<1>5. Eq(h)
  <2> HIDE DEF Eq
  <2> QED
    BY <1>4
<1>6. h[0] = start /\ \A n \in 1..N : h[n] = h[n - 1] + numbers[n]
  <2> HIDE DEF h
  <2> QED
    BY <1>0, <1>5
<1> HIDE DEF h
<1>7. \A n \in 1..N : h[n - 1] \in Nat => h[n] \in Nat
  BY <1>0, <1>6
<1>8. \A n \in 0..N : h[n] \in Nat
  <2> HIDE DEF N
  <2> QED
    BY <1>0, <1>6, <1>7, EveryPlace
<1>9. Totals(start, numbers) = [i \in 1..N |-> h[i]]
  BY DEF Totals, h
<1>10. [i \in 1..N |-> h[i]] \in Seq(Nat) /\ Len([i \in 1..N |-> h[i]]) = N
  BY <1>0, <1>8
<1> QED
  BY <1>9, <1>10

-----------------------------------------------------------------------------
(* Lines.                                                                  *)

LEMMA Places ==
  ASSUME NEW buf \in Seq(Byte)
  PROVE  /\ Len(buf) \in Nat /\ DOMAIN buf = 1..Len(buf)
         /\ Newlines(buf) \in SUBSET (1..Len(buf)) /\ Newlines(buf) \in SUBSET Nat
         /\ \A k \in 1..Len(buf) : buf[k] \in Byte
  BY DEF Newlines

\* A line is what stands between two newlines.
LEMMA LineBetween ==
  ASSUME NEW buf \in Seq(Byte), NEW k \in Newlines(buf)
  PROVE  \E a \in 1..k : /\ LineEndingAt(buf, k) = SubSeq(buf, a, k - 1)
                         /\ \A j \in a..(k - 1) : buf[j] # NL
<1> DEFINE earlier == {j \in Newlines(buf) : j < k}
           a == (IF earlier = {} THEN 0 ELSE Max(earlier)) + 1
<1>1. /\ Len(buf) \in Nat /\ DOMAIN buf = 1..Len(buf) /\ k \in 1..Len(buf)
      /\ earlier \in SUBSET Nat /\ \A j \in earlier : j <= k /\ j < k
  BY Places DEF Newlines
<1>2. a \in 1..k /\ \A j \in earlier : j < a
  <2>1. CASE earlier = {}
    BY <1>1, <2>1
  <2>2. CASE earlier # {}
    <3>1. Max(earlier) \in earlier /\ \A j \in earlier : j <= Max(earlier)
      <4>1. k \in Nat /\ \A j \in earlier : j <= k
        BY <1>1
      <4> HIDE DEF earlier
      <4> QED
        BY <1>1, <2>2, <4>1, MaxOfNats
    <3>2. a = Max(earlier) + 1
      BY <2>2
    <3> HIDE DEF a, earlier
    <3> DEFINE m == Max(earlier)
    <3>3. m \in Nat /\ m < k /\ \A j \in earlier : j \in Nat /\ j <= m
      BY <1>1, <3>1
    <3> HIDE DEF m
    <3>4. m + 1 \in 1..k /\ \A j \in earlier : j < m + 1
      BY <1>1, <3>3
    <3> QED
      BY <3>2, <3>4 DEF m
  <2> QED
    BY <2>1, <2>2
<1>3. \A j \in a..(k - 1) : buf[j] # NL
  <2> SUFFICES ASSUME NEW j \in a..(k - 1), buf[j] = NL PROVE FALSE
    OBVIOUS
  <2> HIDE DEF a
  <2>1. j \in 1..Len(buf) /\ j < k /\ ~(j < a)
    BY <1>1, <1>2
  <2>2. j \in earlier
    BY <1>1, <2>1 DEF Newlines
  <2> QED
    BY <1>2, <2>1, <2>2
<1>4. LineEndingAt(buf, k) = SubSeq(buf, a, k - 1)
  BY DEF LineEndingAt
<1> QED
  BY <1>2, <1>3, <1>4

\* A line that is well formed has digits only, so that it is a number.
LEMMA TakenNumber ==
  ASSUME NEW buf \in Seq(Byte), NEW k \in Taken(buf)
  PROVE  Number(LineEndingAt(buf, k)) \in Nat
<1> DEFINE line == LineEndingAt(buf, k)
<1>1. k \in Newlines(buf) /\ k \notin Rejected(buf) /\ k \in Nat
  BY Places DEF Taken
<1>2. WellFormed(line)
  BY <1>1 DEF Rejected
<1>3. PICK a \in 1..k : line = SubSeq(buf, a, k - 1) /\ \A j \in a..(k - 1) : buf[j] # NL
  BY <1>1, LineBetween
<1>4. \A j \in a..(k - 1) : buf[j] \in Byte
  BY <1>1, Places DEF Newlines
<1> HIDE DEF line
<1>5. /\ line \in Seq(Byte) /\ Len(line) = (IF a <= k - 1 THEN k - 1 - a + 1 ELSE 0)
      /\ \A j \in 1..(k - 1 - a + 1) : line[j] = buf[a + j - 1]
  <2>1. a \in Int /\ k - 1 \in Int
    BY <1>1
  <2> QED
    BY <1>3, <1>4, <2>1, SubSeqProperties
<1>6. \A j \in 1..Len(line) : line[j] \in Byte /\ line[j] # NL /\ line[j] # Other
  <2> SUFFICES ASSUME NEW j \in 1..Len(line) PROVE line[j] \in Byte /\ line[j] # NL /\ line[j] # Other
    OBVIOUS
  <2>1. j \in 1..(k - 1 - a + 1) /\ a + j - 1 \in a..(k - 1)
    BY <1>1, <1>5
  <2>2. line[j] # Other
    BY <1>2, <1>5 DEF WellFormed, ToSet
  <2> QED
    BY <1>3, <1>4, <1>5, <2>1, <2>2
<1>7. \A j \in 1..Len(line) : line[j] \in Nat
  <2>1. \A j \in 1..Len(line) : line[j] \in Digit
    BY <1>6 DEF Byte
  <2>2. \A x \in Digit : x \in Nat
    OBVIOUS
  <2> QED
    BY <2>1, <2>2
<1>8. Len(line) \in Nat
  BY <1>5
<1> QED
  BY <1>7, <1>8, NumberType DEF line

LEMMA ParsedType ==
  ASSUME NEW buf \in Seq(Byte)
  PROVE  Parsed(buf) \in Seq(Nat)
<1> DEFINE N == Len(buf)
           piece(k) == IF k \in Taken(buf) THEN <<Number(LineEndingAt(buf, k))>> ELSE <<>>
           joined(x, k) == x \o piece(k)
           Eq(f) == f = [k \in 0..N |-> IF k = 0 THEN <<>> ELSE joined(f[k - 1], k)]
           h == CHOOSE f : Eq(f)
           g == [k \in 1..N |-> [x \in Seq(Nat) |-> joined(x, k)]]
<1>0. N \in Nat /\ <<>> \in Seq(Nat)
  OBVIOUS
<1>p. \A k \in 1..N : \A x \in Seq(Nat) : joined(x, k) \in Seq(Nat)
  <2>1. \A k \in 1..N : piece(k) \in Seq(Nat)
    BY TakenNumber
  <2> HIDE DEF piece
  <2> QED
    BY <2>1
<1>9. Parsed(buf) = h[N]
  BY DEF Parsed
<1> HIDE DEF N, piece, joined
<1>1. g \in Steps(Seq(Nat), N)
  BY <1>p DEF Steps
<1>2. PICK f : Takes(f, Seq(Nat), N, <<>>, g)
  <2> HIDE DEF g
  <2> QED
    BY <1>0, <1>1, Recurrence
<1>f. f \in [0..N -> Seq(Nat)] /\ f[0] = <<>> /\ \A n \in 1..N : f[n] = g[n][f[n - 1]]
  BY <1>2 DEF Takes
<1>3. \A n \in 1..N : f[n] = joined(f[n - 1], n)
  <2>1. \A n \in 1..N : n - 1 \in 0..N /\ f[n - 1] \in Seq(Nat)
    BY <1>0, <1>f
  <2> QED
    BY <1>f, <2>1
<1>4. Eq(f)
  <2>1. \A n \in 0..N : f[n] = IF n = 0 THEN <<>> ELSE joined(f[n - 1], n)
    BY <1>0, <1>f, <1>3
  <2> QED
    BY <1>f, <2>1
<1>5. Eq(h)
  <2> HIDE DEF Eq
  <2> QED
    BY <1>4
<1>6. h[0] = <<>> /\ \A n \in 1..N : h[n] = joined(h[n - 1], n)
  <2> HIDE DEF h
  <2> QED
    BY <1>0, <1>5
<1> HIDE DEF h
<1>7. \A n \in 1..N : h[n - 1] \in Seq(Nat) => h[n] \in Seq(Nat)
  BY <1>6, <1>p
<1>8. \A n \in 0..N : h[n] \in Seq(Nat)
  <2>1. h[0] \in Seq(Nat)
    BY <1>0, <1>6
  <2> QED
    BY <1>0, <1>7, <2>1, EveryPlace
<1> QED
  BY <1>0, <1>8, <1>9

LEMMA LeftoverType ==
  ASSUME NEW buf \in Seq(Byte)
  PROVE  Leftover(buf) \in Seq(Byte)
<1> DEFINE a == (IF Newlines(buf) = {} THEN 0 ELSE Max(Newlines(buf))) + 1
<1>1. a \in Int /\ a >= 1
  <2>1. Len(buf) \in Nat /\ Newlines(buf) \in SUBSET Nat /\ \A n \in Newlines(buf) : n <= Len(buf)
    BY Places
  <2>2. Newlines(buf) # {} => Max(Newlines(buf)) \in Newlines(buf)
    BY <2>1, MaxOfNats
  <2> QED
    BY <2>2, Places
<1>2. Leftover(buf) = SubSeq(buf, a, Len(buf))
  BY DEF Leftover
<1> HIDE DEF a
<1>3. Len(buf) \in Int /\ \A k \in a..Len(buf) : buf[k] \in Byte
  BY <1>1, Places
<1> QED
  BY <1>1, <1>2, <1>3, SubSeqProperties

-----------------------------------------------------------------------------
(* The invariant.                                                          *)

Walking == at \in {"slot", "recv", "finish"}

\* A socket is open while it has a slot, which is its own; the backlog has others, each once.
Sockets ==
  /\ \A i \in Slot : slots[i].conn # None => server[slots[i].conn] = "open"
  /\ \A i, j \in Slot : slots[i].conn # None /\ slots[i].conn = slots[j].conn => i = j
  /\ \A c \in Conn : server[c] = "open" => \E i \in Slot : slots[i].conn = c
  /\ \A k \in 1..Len(backlog) : server[backlog[k]] = "queued"
  /\ \A j, k \in 1..Len(backlog) : backlog[j] = backlog[k] => j = k
  /\ \A c \in Conn : client[c] = "none" => server[c] = "none"

\* The walk is at an occupied slot, and its entry is no further than its slot.
Place == Walking => slot \in Occupied /\ nfds <= slot

\* A socket holds no more replies than it has room for.
Room == \A c \in Conn : Len(toClient[c]) <= SockCap

\* What an entry that poll has filled in may say of a connection.
Justified(ev, c) ==
  /\ ev \in Events /\ "HUP" \notin ev
  /\ "ERR" \in ev => client[c] = "closed"

\* After poll the entry of each occupied slot is filled in for its connection.
Polled ==
  \A j \in Occupied : EntryOf(j) \in Slot /\ Justified(pfds[EntryOf(j)], slots[j].conn)

\* In the walk it is the one that is as many entries ahead as there are occupied slots.
Between(i, j) == Cardinality({k \in Occupied : i <= k /\ k < j})
Matched ==
  \A j \in Occupied : j >= slot =>
    nfds + Between(slot, j) \in Slot /\ Justified(pfds[nfds + Between(slot, j)], slots[j].conn)

Match ==
  ~accepted =>
    /\ at = "accept" => Polled
    /\ Walking => Matched /\ (eof => client[slots[slot].conn] \in {"shut", "closed"})

IInv == TypeOK /\ Sockets /\ Place /\ Room /\ LeftoverFits /\ Match

-----------------------------------------------------------------------------
(* Counting slots.                                                         *)

LEMMA SlotSets ==
  ASSUME NEW T \in SUBSET Slot
  PROVE  IsFiniteSet(T) /\ Cardinality(T) \in 0..MaxClients
<1>1. IsFiniteSet(Slot) /\ Cardinality(Slot) = MaxClients
  BY FS_Interval DEF Slot
<1>2. IsFiniteSet(T) /\ Cardinality(T) <= MaxClients
  BY <1>1, FS_Subset
<1>3. Cardinality(T) \in Nat
  BY <1>2, FS_CardinalityType
<1> QED
  BY <1>2, <1>3

LEMMA Occupieds ==
  /\ Occupied \in SUBSET Slot /\ Occupied \in SUBSET Nat
  /\ \A k \in Occupied : k \in Slot /\ k \in Nat /\ k > 0
  BY DEF Occupied, Slot

\* Counting the members of a set up to one of them tells it from the others.
LEMMA CountsApart ==
  ASSUME NEW O \in SUBSET Slot, NEW i \in O, NEW j \in O
  PROVE  /\ Cardinality({k \in O : k <= i}) \in Slot
         /\ Cardinality({k \in O : k <= i}) = Cardinality({k \in O : k <= j}) => i = j
<1> DEFINE Upto(n) == {k \in O : k <= n}
<1>0. \A k \in O : k \in Slot /\ k \in Nat
  BY DEF Slot
<1>1. ASSUME NEW m \in O
      PROVE  Upto(m) \in SUBSET Slot /\ m \in Upto(m) /\ Cardinality(Upto(m)) \in 1..MaxClients
  <2>1. Upto(m) \in SUBSET Slot /\ m \in Upto(m)
    BY <1>0
  <2>2. IsFiniteSet(Upto(m)) /\ Cardinality(Upto(m)) \in 0..MaxClients
    BY <2>1, SlotSets
  <2>3. Cardinality(Upto(m)) # 0
    BY <2>1, <2>2, FS_EmptySet
  <2> HIDE DEF Upto
  <2> QED
    BY <2>1, <2>2, <2>3
<1>2. ASSUME NEW m \in O, NEW n \in O, m < n
      PROVE  Cardinality(Upto(m)) # Cardinality(Upto(n))
  <2>1. Upto(m) \in SUBSET Upto(n) /\ n \in Upto(n) /\ n \notin Upto(m)
    BY <1>0, <1>2
  <2>2. IsFiniteSet(Upto(n))
    BY <1>1, SlotSets
  <2> HIDE DEF Upto
  <2> QED
    BY <2>1, <2>2, FS_Subset
<1>3. i < j \/ j < i \/ i = j
  BY <1>0
<1> HIDE DEF Upto
<1>4. Cardinality(Upto(i)) \in Slot
  BY <1>1 DEF Slot
<1>5. Cardinality(Upto(i)) = Cardinality(Upto(j)) => i = j
  BY <1>2, <1>3
<1> QED
  BY <1>4, <1>5 DEF Upto

\* The entry of an occupied slot is an entry of pfds, and no other slot has it.
LEMMA EntriesApart ==
  ASSUME NEW i \in Occupied, NEW j \in Occupied
  PROVE  EntryOf(i) \in Slot /\ (EntryOf(i) = EntryOf(j) => i = j)
<1>1. Occupied \in SUBSET Slot
  BY Occupieds
<1> QED
  BY <1>1, CountsApart DEF EntryOf

\* Between a slot and the next occupied one there is the first of the two.
LEMMA OneStep ==
  ASSUME NEW O \in SUBSET Slot, NEW a \in O, NEW b \in O, NEW j \in O,
         a < b, b <= j, \A k \in O : k > a => k >= b
  PROVE  /\ Cardinality({k \in O : a <= k /\ k < j}) = Cardinality({k \in O : b <= k /\ k < j}) + 1
         /\ Cardinality({k \in O : b <= k /\ k < j}) \in 0..MaxClients
<1> DEFINE T == {k \in O : b <= k /\ k < j}
<1>0. \A k \in O : k \in Slot /\ k \in Nat
  BY DEF Slot
<1>1. T \in SUBSET Slot /\ a \notin T
  BY <1>0
<1>2. {k \in O : a <= k /\ k < j} = T \cup {a}
  BY <1>0
<1>3. IsFiniteSet(T) /\ Cardinality(T) \in 0..MaxClients
  BY <1>1, SlotSets
<1> HIDE DEF T
<1>4. Cardinality(T \cup {a}) = Cardinality(T) + 1
  BY <1>1, <1>3, FS_AddElement
<1> QED
  BY <1>2, <1>3, <1>4 DEF T

\* The members up to j are the first, those after it before j, and j.
LEMMA CountFromFirst ==
  ASSUME NEW O \in SUBSET Slot, NEW first \in O, NEW j \in O, \A k \in O : k >= first
  PROVE  Cardinality({k \in O : k <= j}) = 1 + Cardinality({k \in O : first <= k /\ k < j})
<1> DEFINE T == {k \in O : first <= k /\ k < j}
<1>0. \A k \in O : k \in Slot /\ k \in Nat
  BY DEF Slot
<1>1. T \in SUBSET Slot /\ j \notin T
  BY <1>0
<1>2. {k \in O : k <= j} = T \cup {j}
  BY <1>0
<1>3. IsFiniteSet(T) /\ Cardinality(T) \in 0..MaxClients
  BY <1>1, SlotSets
<1> HIDE DEF T
<1>4. Cardinality(T \cup {j}) = Cardinality(T) + 1
  BY <1>1, <1>3, FS_AddElement
<1>5. Cardinality(T) + 1 = 1 + Cardinality(T)
  BY <1>3
<1>6. Cardinality({k \in O : k <= j}) = 1 + Cardinality(T)
  BY <1>2, <1>4, <1>5
<1> QED
  BY <1>6 DEF T

LEMMA FromTheFirst ==
  ASSUME NEW first \in Occupied, NEW j \in Occupied, \A k \in Occupied : k >= first
  PROVE  EntryOf(j) = 1 + Between(first, j)
<1>1. Occupied \in SUBSET Slot
  BY Occupieds
<1> QED
  BY <1>1, CountFromFirst DEF EntryOf, Between

LEMMA NoneBetween ==
  ASSUME NEW O \in SUBSET Slot, NEW i \in O
  PROVE  Cardinality({k \in O : i <= k /\ k < i}) = 0
<1>0. \A k \in O : k \in Nat
  BY DEF Slot
<1>1. {k \in O : i <= k /\ k < i} = {}
  BY <1>0
<1> QED
  BY <1>1, FS_EmptySet

-----------------------------------------------------------------------------
(* The walk.                                                               *)

LEMMA GoesOn ==
  ASSUME NEW from \in 0..MaxClients, NEW entry \in 1..(from + 1), GoOn(from, entry)
  PROVE  /\ eof' = FALSE
         /\ at' \in {"poll", "slot"} /\ slot' \in 0..MaxClients /\ nfds' \in 1..(MaxClients + 1)
         /\ at' = "slot" =>
              /\ slot' \in Occupied /\ slot' > from /\ nfds' = entry /\ nfds' <= slot'
              /\ \A j \in Occupied : j > from => j >= slot'
<1> DEFINE later == {j \in Occupied : j > from}
<1>1. later \in SUBSET Slot /\ later \in SUBSET Nat
  BY Occupieds
<1>2. eof' = FALSE
  BY DEF GoOn
<1>3. CASE later = {}
  <2>1. NextSlot(from) = 0
    BY <1>3 DEF NextSlot
  <2> QED
    BY <2>1 DEF GoOn
<1>4. CASE later # {}
  <2>1. Min(later) \in later /\ \A j \in later : Min(later) <= j
    <3> HIDE DEF later
    <3> QED
      BY <1>1, <1>4, MinOfNats
  <2>2. NextSlot(from) = Min(later)
    BY <1>4 DEF NextSlot
  <2> DEFINE n == Min(later)
  <2>3. n \in Occupied /\ n > from /\ n \in 1..MaxClients
    BY <2>1, Occupieds DEF Slot
  <2>4. \A j \in Occupied : j > from => j >= n
    <3>1. \A j \in Occupied : j > from => j \in later /\ j \in Nat
      BY Occupieds
    <3> HIDE DEF later, n
    <3> QED
      BY <2>1, <2>3, <3>1 DEF n
  <2> HIDE DEF n, later
  <2>5. slot' = n /\ nfds' = entry /\ at' = "slot"
    BY <2>2, <2>3 DEF GoOn, n
  <2> QED
    BY <1>2, <2>3, <2>4, <2>5
<1> QED
  BY <1>3, <1>4

\* A walk that begins after poll finds the entries matched.
LEMMA BeginsMatched ==
  ASSUME BeginWalk, UNCHANGED <<slots, client>>,
         \A j \in Occupied : EntryOf(j) \in Slot /\ Justified(pfds'[EntryOf(j)], slots[j].conn)
  PROVE  Walking' => Matched'
<1>1. /\ at' = "slot" => /\ slot' \in Occupied /\ slot' > 0 /\ nfds' = 1
                         /\ \A j \in Occupied : j > 0 => j >= slot'
      /\ at' \in {"poll", "slot"}
  <2>1. 0 \in 0..MaxClients /\ 1 \in 1..(0 + 1) /\ GoOn(0, 1)
    BY DEF BeginWalk
  <2> QED
    BY <2>1, GoesOn
<1>2. SUFFICES ASSUME at' = "slot", NEW j \in Occupied
               PROVE  nfds' + Between(slot', j) \in Slot
                      /\ Justified(pfds'[nfds' + Between(slot', j)], slots[j].conn)
  <2>1. Occupied' = Occupied
    BY DEF Occupied
  <2>2. Walking' => at' = "slot"
    BY <1>1 DEF Walking
  <2> QED
    BY <2>1, <2>2 DEF Matched, Between, Justified
<1>3. slot' \in Occupied /\ \A k \in Occupied : k >= slot'
  BY <1>1, <1>2, Occupieds
<1>4. EntryOf(j) = nfds' + Between(slot', j)
  BY <1>1, <1>2, <1>3, FromTheFirst
<1> QED
  BY <1>4

\* One slot and one entry further they still are, whether or not the slot was given up.
LEMMA AdvanceMatched ==
  ASSUME TypeOK, Walking, Place, Matched, Advance, UNCHANGED <<pfds, client>>,
         \A j \in Slot : j # slot => slots'[j].conn = slots[j].conn
  PROVE  Walking' => Matched'
<1>1. slot \in Occupied /\ nfds <= slot /\ slot \in 0..MaxClients /\ nfds \in 1..(MaxClients + 1)
  BY DEF TypeOK, Place
<1>2. nfds + 1 \in 1..(slot + 1) /\ slot \in Nat /\ nfds \in Nat
  BY <1>1
<1>3. /\ at' = "slot" => /\ slot' \in Occupied /\ slot' > slot /\ nfds' = nfds + 1
                         /\ \A j \in Occupied : j > slot => j >= slot'
      /\ at' \in {"poll", "slot"}
  BY <1>1, <1>2, GoesOn DEF Advance
<1>4. SUFFICES ASSUME at' = "slot", NEW j \in Occupied', j >= slot'
               PROVE  LET n == nfds' + Cardinality({k \in Occupied' : slot' <= k /\ k < j})
                      IN  n \in Slot /\ Justified(pfds[n], slots[j].conn)
  <2>1. Walking' => at' = "slot"
    BY <1>3 DEF Walking
  <2>2. at' = "slot" => \A k \in Slot : k >= slot' => k # slot
    <3>1. at' = "slot" => slot' \in Nat /\ slot \in Nat /\ slot' > slot
      BY <1>2, <1>3, Occupieds
    <3>2. at' = "slot" => ~(slot >= slot')
      BY <3>1
    <3> QED
      BY <3>2
  <2>3. \A k \in Occupied' : k \in Slot
    BY DEF Occupied
  <2> QED
    BY <2>1, <2>2, <2>3 DEF Matched, Between, Justified
<1>5. /\ slot \in Nat /\ slot' \in Nat /\ slot' \in Occupied /\ slot < slot' /\ nfds' = nfds + 1
      /\ \A k \in Occupied : k > slot => k >= slot'
  BY <1>2, <1>3, <1>4, Occupieds
<1>6. j \in Slot /\ j \in Nat /\ j > slot
  BY <1>4, <1>5 DEF Occupied, Slot
<1>7. \A k \in Slot : k > slot => (k \in Occupied' <=> k \in Occupied)
  BY <1>5 DEF Occupied, Slot
<1>8. {k \in Occupied' : slot' <= k /\ k < j} = {k \in Occupied : slot' <= k /\ k < j}
  <2>1. \A k \in Slot : slot' <= k => k > slot
    BY <1>5 DEF Slot
  <2>2. \A k : (k \in Occupied => k \in Slot) /\ (k \in Occupied' => k \in Slot)
    BY DEF Occupied
  <2> QED
    BY <1>7, <2>1, <2>2
<1> DEFINE n == Cardinality({k \in Occupied : slot' <= k /\ k < j})
<1>9. Between(slot, j) = n + 1 /\ n \in 0..MaxClients
  <2>1. Occupied \in SUBSET Slot /\ j \in Occupied
    BY <1>6, <1>7, Occupieds
  <2> QED
    BY <1>1, <1>4, <1>5, <2>1, OneStep DEF Between
<1>10. nfds + Between(slot, j) \in Slot /\ Justified(pfds[nfds + Between(slot, j)], slots[j].conn)
  <2>1. j \in Occupied /\ j >= slot
    BY <1>4, <1>5, <1>6, <1>7
  <2> QED
    BY <2>1 DEF Matched
<1> HIDE DEF n
<1>11. nfds' + n = nfds + Between(slot, j)
  BY <1>2, <1>5, <1>9
<1> QED
  BY <1>8, <1>10, <1>11 DEF n

-----------------------------------------------------------------------------
(* The steps.                                                              *)

ClientSlot == [conn : Conn \cup {None}, inbuf : Seq(Byte), out : Seq(Nat)]

LEMMA InitInv == Init => IInv
<1> SUFFICES ASSUME Init PROVE IInv
  OBVIOUS
<1>1. TypeOK
  <2>1. FreeSlot \in ClientSlot
    BY DEF FreeSlot, ClientSlot
  <2>2. slots \in [Slot -> ClientSlot]
    BY <2>1 DEF Init
  <2>3. nfds \in 1..(MaxClients + 1) /\ slot \in 0..MaxClients
    BY DEF Init
  <2>4. /\ pfds \in [Slot -> Events \cup {None}] /\ total \in Nat
        /\ at \in {"poll", "accept", "slot", "recv", "finish", "stopped"}
        /\ stopFlag \in BOOLEAN /\ eof \in BOOLEAN /\ accepted \in BOOLEAN
    BY DEF Init
  <2>5. backlog \in Seq(Conn)
    BY DEF Init
  <2>6. client \in [Conn -> {"none", "open", "shut", "closed"}]
        /\ server \in [Conn -> {"none", "queued", "open", "closed"}]
    BY DEF Init
  <2>7. /\ toServer \in [Conn -> Seq(Byte)] /\ toClient \in [Conn -> Seq(Nat)]
        /\ sent \in [Conn -> Seq(Byte)] /\ got \in [Conn -> Seq(Nat)]
    BY DEF Init
  <2> QED
    BY <2>2, <2>3, <2>4, <2>5, <2>6, <2>7 DEF TypeOK, ClientSlot
<1>2. \A i \in Slot : slots[i].conn = None /\ slots[i].inbuf = <<>>
  BY DEF Init, FreeSlot
<1>3. Sockets
  BY <1>2 DEF Init, Sockets
<1>4. Place /\ Room /\ Match
  BY DEF Init, Place, Walking, Room, Match
<1>5. LeftoverFits
  BY <1>2 DEF LeftoverFits
<1> QED
  BY <1>1, <1>3, <1>4, <1>5 DEF IInv

\* Whoever has a slot is a connection.
LEMMA Occupant ==
  ASSUME TypeOK, NEW i \in Occupied
  PROVE  i \in Slot /\ slots[i].conn \in Conn
  BY DEF TypeOK, Occupied

\* What the clients do leaves the match alone: one that has shut down or closed stays so.
LEMMA KeepsMatch ==
  ASSUME TypeOK, Match, Place,
         UNCHANGED <<at, slot, nfds, eof, pfds, slots, accepted>>,
         \A c \in Conn : /\ client[c] = "closed" => client'[c] = "closed"
                         /\ client[c] = "shut" => client'[c] \in {"shut", "closed"}
  PROVE  Match' /\ Place'
<1>1. Occupied' = Occupied /\ Walking' = Walking
  BY DEF Occupied, Walking
<1>2. Place'
  BY <1>1 DEF Place
<1>3. \A j \in Occupied : slots[j].conn \in Conn
  BY Occupant
<1>4. \A c \in Conn : \A ev : Justified(ev, c) => Justified(ev, c)'
  BY DEF Justified
<1>5. Polled => Polled'
  BY <1>1, <1>3, <1>4 DEF Polled, EntryOf
<1>6. Matched => Matched'
  BY <1>1, <1>3, <1>4 DEF Matched, Between
<1>7. Walking => slots[slot].conn \in Conn
  BY <1>3 DEF Place
<1>8. Match'
  BY <1>1, <1>5, <1>6, <1>7 DEF Match
<1> QED
  BY <1>2, <1>8

\* A step of a client, but for what it does to the pipes and the backlog.
LEMMA PeerInv ==
  ASSUME IInv, UNCHANGED <<mainVars, dataVars, accepted>>,
         backlog' \in Seq(Conn), client' \in [Conn -> {"none", "open", "shut", "closed"}],
         server' \in [Conn -> {"none", "queued", "open", "closed"}],
         toServer' \in [Conn -> Seq(Byte)], toClient' \in [Conn -> Seq(Nat)],
         sent' \in [Conn -> Seq(Byte)], got' \in [Conn -> Seq(Nat)],
         Sockets', Room',
         \A c \in Conn : /\ client[c] = "closed" => client'[c] = "closed"
                         /\ client[c] = "shut" => client'[c] \in {"shut", "closed"}
  PROVE  IInv'
<1>1. TypeOK'
  BY DEF IInv, TypeOK, mainVars, dataVars
<1>2. Match' /\ Place'
  BY KeepsMatch DEF IInv, mainVars, dataVars
<1>3. LeftoverFits'
  BY DEF IInv, LeftoverFits, dataVars
<1> QED
  BY <1>1, <1>2, <1>3 DEF IInv

\* Without a new connection or a server's step the sockets stay what they are.
LEMMA SameSockets ==
  ASSUME Sockets, UNCHANGED <<slots, backlog, server>>,
         \A c \in Conn : client'[c] = "none" => client[c] = "none"
  PROVE  Sockets'
  BY DEF Sockets

LEMMA ConnectInv == ASSUME IInv, NEW c \in Conn, Connect(c) PROVE IInv'
<1>1. /\ client[c] = "none" /\ client' = [client EXCEPT ![c] = "open"]
      /\ server' = [server EXCEPT ![c] = "queued"] /\ backlog' = Append(backlog, c)
      /\ UNCHANGED <<mainVars, dataVars, accepted, toServer, toClient, sent, got>>
  BY DEF Connect, pipeVars
<1>2. /\ client \in [Conn -> {"none", "open", "shut", "closed"}]
      /\ server \in [Conn -> {"none", "queued", "open", "closed"}]
      /\ backlog \in Seq(Conn)
  BY DEF IInv, TypeOK
<1>3. /\ backlog' \in Seq(Conn) /\ Len(backlog') = Len(backlog) + 1 /\ backlog'[Len(backlog) + 1] = c
      /\ \A k \in 1..Len(backlog) : backlog'[k] = backlog[k]
      /\ \A k \in 1..Len(backlog') : k \in 1..Len(backlog) \/ k = Len(backlog) + 1
      /\ Len(backlog) \in Nat
  BY <1>1, <1>2
<1>4. server[c] = "none"
  BY <1>1 DEF IInv, Sockets
<1>5. \A k \in 1..Len(backlog) : backlog[k] \in Conn /\ backlog[k] # c
  BY <1>2, <1>4 DEF IInv, Sockets
<1>6. Sockets'
  <2>1. slots' = slots /\ (\A i \in Occupied : slots[i].conn \in Conn /\ slots[i].conn # c)
    BY <1>1, <1>4, Occupant DEF IInv, Sockets, dataVars, Occupied
  <2>2. \A i \in Slot : slots[i].conn # None => server'[slots[i].conn] = "open"
    BY <1>1, <1>2, <2>1 DEF IInv, Sockets, Occupied
  <2>3. \A d \in Conn : server'[d] = "open" => server[d] = "open"
    BY <1>1, <1>2
  <2>4. \A k \in 1..Len(backlog') : server'[backlog'[k]] = "queued"
    BY <1>1, <1>2, <1>3, <1>5 DEF IInv, Sockets
  <2>5. \A j, k \in 1..Len(backlog') : backlog'[j] = backlog'[k] => j = k
    <3> SUFFICES ASSUME NEW j \in 1..Len(backlog'), NEW k \in 1..Len(backlog'), backlog'[j] = backlog'[k]
                 PROVE  j = k
      OBVIOUS
    <3>1. CASE j \in 1..Len(backlog) /\ k \in 1..Len(backlog)
      BY <3>1, <1>3 DEF IInv, Sockets
    <3>2. CASE j = Len(backlog) + 1 \/ k = Len(backlog) + 1
      BY <3>2, <1>3, <1>5
    <3> QED
      BY <3>1, <3>2, <1>3
  <2>6. \A d \in Conn : client'[d] = "none" => server'[d] = "none"
    BY <1>1, <1>2 DEF IInv, Sockets
  <2> QED
    BY <2>1, <2>2, <2>3, <2>4, <2>5, <2>6 DEF IInv, Sockets
<1>7. client' \in [Conn -> {"none", "open", "shut", "closed"}]
      /\ server' \in [Conn -> {"none", "queued", "open", "closed"}]
  BY <1>1, <1>2
<1>8. \A d \in Conn : (client[d] = "closed" => client'[d] = "closed")
                      /\ (client[d] = "shut" => client'[d] \in {"shut", "closed"})
  BY <1>1, <1>2
<1>9. Room'
  BY <1>1 DEF IInv, Room
<1>10. /\ toServer' \in [Conn -> Seq(Byte)] /\ toClient' \in [Conn -> Seq(Nat)]
       /\ sent' \in [Conn -> Seq(Byte)] /\ got' \in [Conn -> Seq(Nat)]
  BY <1>1 DEF IInv, TypeOK
<1> QED
  BY <1>1, <1>3, <1>6, <1>7, <1>8, <1>9, <1>10, PeerInv

LEMMA SendInv == ASSUME IInv, NEW c \in Conn, NEW bytes \in Seq(Byte), Send(c, bytes) PROVE IInv'
<1>1. /\ sent' = [sent EXCEPT ![c] = @ \o bytes] /\ toServer' = [toServer EXCEPT ![c] = @ \o bytes]
      /\ UNCHANGED <<mainVars, dataVars, connVars, toClient, got, accepted>>
  BY DEF Send
<1>2. sent' \in [Conn -> Seq(Byte)] /\ toServer' \in [Conn -> Seq(Byte)]
  BY <1>1 DEF IInv, TypeOK
<1>3. Sockets'
  BY <1>1, SameSockets DEF IInv, dataVars, connVars
<1>4. Room'
  BY <1>1 DEF IInv, Room
<1>5. /\ backlog' \in Seq(Conn) /\ client' \in [Conn -> {"none", "open", "shut", "closed"}]
      /\ server' \in [Conn -> {"none", "queued", "open", "closed"}]
      /\ toClient' \in [Conn -> Seq(Nat)] /\ got' \in [Conn -> Seq(Nat)] /\ client' = client
  BY <1>1 DEF IInv, TypeOK, connVars
<1> QED
  BY <1>1, <1>2, <1>3, <1>4, <1>5, PeerInv

LEMMA ReceiveInv == ASSUME IInv, NEW c \in Conn, Receive(c) PROVE IInv'
<1>1. /\ toClient[c] # <<>> /\ got' = [got EXCEPT ![c] = Append(@, Head(toClient[c]))]
      /\ toClient' = [toClient EXCEPT ![c] = Tail(@)]
      /\ UNCHANGED <<mainVars, dataVars, connVars, toServer, sent, accepted>>
  BY DEF Receive
<1>0. got \in [Conn -> Seq(Nat)] /\ toClient \in [Conn -> Seq(Nat)]
  BY DEF IInv, TypeOK
<1>2. /\ Head(toClient[c]) \in Nat /\ Tail(toClient[c]) \in Seq(Nat)
      /\ Len(Tail(toClient[c])) = Len(toClient[c]) - 1 /\ Len(toClient[c]) \in Nat
  BY <1>0, <1>1, HeadTailProperties
<1>3. got' \in [Conn -> Seq(Nat)] /\ toClient' \in [Conn -> Seq(Nat)]
  BY <1>0, <1>1, <1>2
<1>4. Sockets'
  BY <1>1, SameSockets DEF IInv, dataVars, connVars
<1>5. Room'
  BY <1>0, <1>1, <1>2 DEF IInv, Room
<1>6. /\ backlog' \in Seq(Conn) /\ client' \in [Conn -> {"none", "open", "shut", "closed"}]
      /\ server' \in [Conn -> {"none", "queued", "open", "closed"}]
      /\ toServer' \in [Conn -> Seq(Byte)] /\ sent' \in [Conn -> Seq(Byte)] /\ client' = client
  BY <1>1 DEF IInv, TypeOK, connVars
<1> QED
  BY <1>1, <1>3, <1>4, <1>5, <1>6, PeerInv

LEMMA LeaveInv == ASSUME IInv, NEW c \in Conn, Shutdown(c) \/ Close(c) PROVE IInv'
<1>0. client \in [Conn -> {"none", "open", "shut", "closed"}]
  BY DEF IInv, TypeOK
<1>1. /\ UNCHANGED <<mainVars, dataVars, backlog, server, pipeVars, accepted>>
      /\ \/ client[c] = "open" /\ client' = [client EXCEPT ![c] = "shut"]
         \/ client[c] \in {"open", "shut"} /\ client' = [client EXCEPT ![c] = "closed"]
  BY DEF Shutdown, Close
<1>2. /\ client' \in [Conn -> {"none", "open", "shut", "closed"}]
      /\ \A d \in Conn : /\ client'[d] = "none" => client[d] = "none"
                         /\ client[d] = "closed" => client'[d] = "closed"
                         /\ client[d] = "shut" => client'[d] \in {"shut", "closed"}
  BY <1>0, <1>1
<1>3. Sockets'
  BY <1>1, <1>2, SameSockets DEF IInv, dataVars
<1>4. Room'
  BY <1>1 DEF IInv, Room, pipeVars
<1>5. /\ backlog' \in Seq(Conn) /\ server' \in [Conn -> {"none", "queued", "open", "closed"}]
      /\ toServer' \in [Conn -> Seq(Byte)] /\ sent' \in [Conn -> Seq(Byte)]
      /\ toClient' \in [Conn -> Seq(Nat)] /\ got' \in [Conn -> Seq(Nat)]
  BY <1>1 DEF IInv, TypeOK, pipeVars
<1> QED
  BY <1>1, <1>2, <1>3, <1>4, <1>5, PeerInv

LEMMA SignalInv == IInv /\ Signal => IInv'
<1> SUFFICES ASSUME IInv, Signal PROVE IInv'
  OBVIOUS
<1>1. stopFlag' = TRUE /\ UNCHANGED <<at, pfds, slot, nfds, eof, dataVars, connVars, pipeVars, accepted>>
  BY DEF Signal
<1>2. TypeOK'
  BY <1>1 DEF IInv, TypeOK, dataVars, connVars, pipeVars
<1>3. Match' /\ Place'
  BY <1>1, KeepsMatch DEF IInv, dataVars, connVars
<1>4. Sockets' /\ Room' /\ LeftoverFits'
  BY <1>1, SameSockets DEF IInv, Room, LeftoverFits, dataVars, connVars, pipeVars
<1> QED
  BY <1>2, <1>3, <1>4 DEF IInv

-----------------------------------------------------------------------------
(* The walk's steps.                                                       *)

\* The walk is at the slot of a connection whose socket is open.
LEMMA AtHere ==
  ASSUME IInv, Walking
  PROVE  /\ slot \in Occupied /\ slot \in Slot /\ nfds \in Slot /\ nfds <= slot
         /\ Here \in Conn /\ server[Here] = "open"
<1>1. slot \in Occupied /\ nfds <= slot /\ nfds \in 1..(MaxClients + 1) /\ slot \in Slot
  BY Occupieds DEF IInv, Place, TypeOK
<1>2. nfds \in Slot
  BY <1>1 DEF Slot
<1>3. Here \in Conn
  BY <1>1, Occupant DEF IInv, Here
<1>4. server[Here] = "open"
  BY <1>1 DEF IInv, Sockets, Occupied, Here
<1> QED
  BY <1>1, <1>2, <1>3, <1>4

\* In an iteration that has accepted nobody its entry is its own.
LEMMA OwnEntry ==
  ASSUME IInv, Walking, ~accepted
  PROVE  Entry = {pfds[nfds]} /\ Justified(pfds[nfds], Here)
<1>1. Matched /\ slot \in Occupied /\ Occupied \in SUBSET Slot /\ nfds \in Nat /\ slot >= slot
  BY Occupieds, AtHere DEF IInv, Match, Slot
<1>2. Between(slot, slot) = 0
  BY <1>1, NoneBetween DEF Between
<1>3. Justified(pfds[nfds + 0], Here)
  BY <1>1, <1>2 DEF Matched, Here
<1>4. nfds + 0 = nfds
  BY <1>1
<1>5. Justified(pfds[nfds], Here)
  BY <1>3, <1>4
<1>6. pfds[nfds] # None
  BY <1>5, NeverWritten DEF Justified, Events
<1> QED
  BY <1>5, <1>6 DEF Entry

\* A slot is given up together with its socket.
LEMMA Closing ==
  ASSUME IInv, Walking, CloseHere, UNCHANGED <<backlog, client>>
  PROVE  /\ slots' \in [Slot -> ClientSlot]
         /\ server' \in [Conn -> {"none", "queued", "open", "closed"}]
         /\ \A j \in Slot : j # slot => slots'[j] = slots[j]
         /\ Sockets' /\ LeftoverFits'
<1>1. /\ slot \in Slot /\ Here \in Conn /\ server[Here] = "open" /\ slots[slot].conn = Here
      /\ Here # None
  BY AtHere DEF Here
<1>2. slots' = [slots EXCEPT ![slot] = FreeSlot] /\ server' = [server EXCEPT ![Here] = "closed"]
  BY DEF CloseHere
<1>3. slots \in [Slot -> ClientSlot] /\ server \in [Conn -> {"none", "queued", "open", "closed"}]
  BY DEF IInv, TypeOK, ClientSlot
<1>4. FreeSlot \in ClientSlot
  BY DEF FreeSlot, ClientSlot
<1>5. slots' \in [Slot -> ClientSlot] /\ server' \in [Conn -> {"none", "queued", "open", "closed"}]
  BY <1>1, <1>2, <1>3, <1>4
<1>6. (\A j \in Slot : j # slot => slots'[j] = slots[j]) /\ slots'[slot] = FreeSlot
  BY <1>1, <1>2, <1>3
<1>7. (\A c \in Conn : c # Here => server'[c] = server[c]) /\ server'[Here] = "closed"
  BY <1>1, <1>2, <1>3
<1>8. \A i \in Slot : slots[i].conn # None => slots[i].conn \in Conn
  BY <1>3 DEF ClientSlot
<1>s. Sockets
  BY DEF IInv
<1>9. \A i \in Slot : slots'[i].conn # None =>
        i # slot /\ slots'[i].conn = slots[i].conn /\ slots[i].conn # Here
  BY <1>1, <1>6, <1>s DEF FreeSlot, Sockets
<1>10. Sockets'
  <2>1. \A i \in Slot : slots'[i].conn # None => server'[slots'[i].conn] = "open"
    BY <1>7, <1>8, <1>9, <1>s DEF Sockets
  <2>2. \A i, j \in Slot : slots'[i].conn # None /\ slots'[i].conn = slots'[j].conn => i = j
    BY <1>9, <1>s DEF Sockets
  <2>3. \A c \in Conn : server'[c] = "open" => \E i \in Slot : slots'[i].conn = c
    BY <1>1, <1>6, <1>7, <1>s DEF Sockets
  <2>4. \A k \in 1..Len(backlog) : backlog[k] \in Conn /\ backlog[k] # Here
    <3>1. backlog \in Seq(Conn) /\ \A k \in 1..Len(backlog) : server[backlog[k]] = "queued"
      BY <1>s DEF Sockets, IInv, TypeOK
    <3> QED
      BY <1>1, <3>1
  <2>5. \A k \in 1..Len(backlog) : server'[backlog[k]] = "queued"
    BY <1>7, <2>4, <1>s DEF Sockets
  <2>6. \A c \in Conn : client[c] = "none" => server'[c] = "none"
    BY <1>1, <1>7, <1>s DEF Sockets
  <2> QED
    BY <2>1, <2>2, <2>3, <2>5, <2>6, <1>s DEF Sockets
<1>11. LeftoverFits'
  BY <1>6 DEF IInv, LeftoverFits, FreeSlot
<1> QED
  BY <1>5, <1>6, <1>10, <1>11

\* A step of the walk, but for what it does to the slots, the sockets and the pipes.
LEMMA WalkInv ==
  ASSUME IInv, Walking, UNCHANGED <<stopFlag, pfds, backlog, client, sent, got, accepted>>,
         slots' \in [Slot -> ClientSlot],
         server' \in [Conn -> {"none", "queued", "open", "closed"}],
         total' \in Nat, toServer' \in [Conn -> Seq(Byte)], toClient' \in [Conn -> Seq(Nat)],
         \A j \in Slot : j # slot => slots'[j].conn = slots[j].conn,
         Sockets', Room', LeftoverFits',
         \/ Advance
         \/ /\ UNCHANGED <<slot, nfds>> /\ slots'[slot].conn = Here
            /\ at' \in {"recv", "finish"} /\ eof' \in BOOLEAN
            /\ ~accepted /\ eof' => client[Here] \in {"shut", "closed"}
  PROVE  IInv'
<1>0. /\ slot \in Occupied /\ slot \in Slot /\ nfds \in Slot /\ nfds <= slot /\ Here \in Conn
      /\ slot \in 0..MaxClients /\ slot \in Nat /\ nfds \in Nat
  BY AtHere DEF Slot
<1>1. CASE Advance
  <2>1. /\ eof' = FALSE
        /\ at' \in {"poll", "slot"} /\ slot' \in 0..MaxClients /\ nfds' \in 1..(MaxClients + 1)
        /\ at' = "slot" => slot' \in Occupied /\ slot' > slot /\ nfds' <= slot'
    <3>1. slot \in 0..MaxClients /\ nfds + 1 \in 1..(slot + 1) /\ GoOn(slot, nfds + 1)
      BY <1>0, <1>1 DEF Advance, Slot
    <3> QED
      BY <3>1, GoesOn
  <2>2. Place'
    <3>1. at' = "slot" => slot' # slot
      BY <1>0, <2>1
    <3>2. at' = "slot" => slot' \in Occupied'
      BY <2>1, <3>1 DEF Occupied
    <3> QED
      BY <2>1, <3>2 DEF Place, Walking
  <2>3. Match'
    <3>1. SUFFICES ASSUME ~accepted PROVE Walking' => Matched'
      BY <2>1 DEF Match
    <3>2. Matched
      BY <3>1 DEF IInv, Match
    <3> QED
      BY <1>1, <3>2, AdvanceMatched DEF IInv
  <2>4. TypeOK'
    BY <2>1 DEF IInv, TypeOK, ClientSlot
  <2> QED
    BY <2>2, <2>3, <2>4 DEF IInv
<1>2. CASE /\ UNCHANGED <<slot, nfds>> /\ slots'[slot].conn = Here
           /\ at' \in {"recv", "finish"} /\ eof' \in BOOLEAN
           /\ ~accepted /\ eof' => client[Here] \in {"shut", "closed"}
  <2>1. \A j \in Slot : slots'[j].conn = slots[j].conn
    BY <1>2 DEF Here
  <2>2. Occupied' = Occupied
    BY <2>1 DEF Occupied
  <2>3. Place'
    BY <1>0, <1>2, <2>2 DEF Place
  <2>4. Match'
    <3>1. SUFFICES ASSUME ~accepted PROVE Matched'
      BY <1>0, <1>2, <2>1 DEF Match, Here
    <3>2. Matched
      BY <3>1 DEF IInv, Match
    <3> QED
      BY <1>2, <2>1, <2>2, <3>2, Occupieds DEF Matched, Between, Justified
  <2>5. TypeOK'
    BY <1>0, <1>2 DEF IInv, TypeOK, ClientSlot
  <2> QED
    BY <2>3, <2>4, <2>5 DEF IInv
<1> QED
  BY <1>1, <1>2

LEMMA ReadEntryInv == IInv /\ ReadEntry => IInv'
<1> SUFFICES ASSUME IInv, ReadEntry PROVE IInv'
  OBVIOUS
<1>0. Walking /\ UNCHANGED <<stopFlag, pfds, total, backlog, client, pipeVars, accepted>>
  BY DEF ReadEntry, Walking
<1>1. /\ total' \in Nat /\ toServer' \in [Conn -> Seq(Byte)] /\ toClient' \in [Conn -> Seq(Nat)]
      /\ Room' /\ UNCHANGED <<sent, got>>
  BY <1>0 DEF IInv, TypeOK, Room, pipeVars
<1>2. PICK ev \in Entry :
        \/ "ERR" \in ev /\ CloseHere /\ Advance
        \/ /\ at' = (IF "IN" \in ev THEN "recv" ELSE "finish")
           /\ eof' = ("HUP" \in ev)
           /\ UNCHANGED <<slots, server, slot, nfds>>
  BY DEF ReadEntry
<1>3. CASE CloseHere /\ Advance
  BY <1>0, <1>1, <1>3, Closing, WalkInv
<1>4. CASE /\ at' = (IF "IN" \in ev THEN "recv" ELSE "finish")
           /\ eof' = ("HUP" \in ev)
           /\ UNCHANGED <<slots, server, slot, nfds>>
  <2>1. slots' \in [Slot -> ClientSlot] /\ server' \in [Conn -> {"none", "queued", "open", "closed"}]
    BY <1>4 DEF IInv, TypeOK, ClientSlot
  <2>2. Sockets' /\ LeftoverFits'
    BY <1>0, <1>4, SameSockets DEF IInv, LeftoverFits
  <2>3. at' \in {"recv", "finish"} /\ eof' \in BOOLEAN /\ slots'[slot].conn = Here
    BY <1>4 DEF Here
  <2>4. ~accepted => ~eof'
    BY <1>0, <1>4, OwnEntry DEF Justified
  <2> QED
    BY <1>0, <1>1, <1>4, <2>1, <2>2, <2>3, <2>4, WalkInv
<1> QED
  BY <1>2, <1>3, <1>4

LEMMA ReadEndInv == IInv /\ ReadEnd => IInv'
<1> SUFFICES ASSUME IInv, ReadEnd PROVE IInv'
  OBVIOUS
<1>0. Walking /\ UNCHANGED <<stopFlag, pfds, total, backlog, client, pipeVars, accepted>>
  BY DEF ReadEnd, Walking
<1>1. /\ total' \in Nat /\ toServer' \in [Conn -> Seq(Byte)] /\ toClient' \in [Conn -> Seq(Nat)]
      /\ Room' /\ UNCHANGED <<sent, got>>
  BY <1>0 DEF IInv, TypeOK, Room, pipeVars
<1>2. CASE CloseHere /\ Advance
  BY <1>0, <1>1, <1>2, Closing, WalkInv
<1>3. CASE at' = "finish" /\ eof' = (eof \/ AtEof(Here)) /\ UNCHANGED <<slots, server, slot, nfds>>
  <2>1. slots' \in [Slot -> ClientSlot] /\ server' \in [Conn -> {"none", "queued", "open", "closed"}]
    BY <1>3 DEF IInv, TypeOK, ClientSlot
  <2>2. Sockets' /\ LeftoverFits'
    BY <1>0, <1>3, SameSockets DEF IInv, LeftoverFits
  <2>3. at' \in {"recv", "finish"} /\ eof' \in BOOLEAN /\ slots'[slot].conn = Here
    BY <1>3 DEF Here, IInv, TypeOK
  <2>4. ~accepted /\ eof' => client[Here] \in {"shut", "closed"}
    BY <1>0, <1>3 DEF IInv, Match, AtEof, Here
  <2> QED
    BY <1>0, <1>1, <1>3, <2>1, <2>2, <2>3, <2>4, WalkInv
<1> QED
  BY <1>2, <1>3 DEF ReadEnd

\* A chunk always fits behind what is left in inbuf.
LEMMA ChunkFits ==
  ASSUME IInv, at = "recv", toServer[Here] # <<>>
  PROVE  LET r   == Min({Chunk, Len(toServer[Here])})
             buf == slots[slot].inbuf \o SubSeq(toServer[Here], 1, r)
         IN  /\ r \in 1..Len(toServer[Here]) /\ buf \in Seq(Byte) /\ Len(buf) <= InCap
             /\ SubSeq(toServer[Here], r + 1, Len(toServer[Here])) \in Seq(Byte)
<1> DEFINE r == Min({Chunk, Len(toServer[Here])})
           inbuf == slots[slot].inbuf
           bytes == toServer[Here]
<1>1. /\ slot \in Slot /\ Here \in Conn /\ bytes \in Seq(Byte) /\ inbuf \in Seq(Byte)
      /\ Len(inbuf) <= MaxLine
  BY AtHere DEF Walking, IInv, TypeOK, LeftoverFits
<1>2. Len(bytes) \in Nat /\ Len(bytes) > 0 /\ Len(inbuf) \in Nat
  BY <1>1
<1>3. r \in 1..Len(bytes) /\ r <= Chunk
  <2>1. {Chunk, Len(bytes)} \in SUBSET Nat /\ {Chunk, Len(bytes)} # {}
    BY <1>2
  <2>2. r \in {Chunk, Len(bytes)} /\ r <= Chunk /\ r <= Len(bytes)
    BY <2>1, MinOfNats
  <2> HIDE DEF r, bytes
  <2> QED
    BY <1>2, <2>2
<1> HIDE DEF r, bytes, inbuf
<1>4. SubSeq(bytes, 1, r) \in Seq(Byte) /\ Len(SubSeq(bytes, 1, r)) = r
  BY <1>1, <1>2, <1>3
<1>5. SubSeq(bytes, r + 1, Len(bytes)) \in Seq(Byte)
  BY <1>1, <1>2, <1>3
<1>6. inbuf \o SubSeq(bytes, 1, r) \in Seq(Byte) /\ Len(inbuf \o SubSeq(bytes, 1, r)) = Len(inbuf) + r
  BY <1>1, <1>4
<1>7. Len(inbuf) + r <= InCap
  BY <1>1, <1>2, <1>3
<1> QED
  BY <1>3, <1>5, <1>6, <1>7 DEF r, bytes, inbuf

LEMMA SameOwners ==
  ASSUME Sockets, UNCHANGED <<backlog, client, server>>,
         \A j \in Slot : slots'[j].conn = slots[j].conn
  PROVE  Sockets'
  BY DEF Sockets

\* A slot with a field or two exchanged.
LEMMA SlotWith ==
  ASSUME NEW i \in Slot, slots[i] \in ClientSlot, NEW b \in Seq(Byte), NEW o \in Seq(Nat)
  PROVE  /\ slots'[i] = [slots[i] EXCEPT !.inbuf = b, !.out = o] =>
              slots'[i] \in ClientSlot /\ slots'[i].conn = slots[i].conn /\ slots'[i].inbuf = b
         /\ slots'[i] = [slots[i] EXCEPT !.out = o] =>
              slots'[i] \in ClientSlot /\ slots'[i].conn = slots[i].conn
                /\ slots'[i].inbuf = slots[i].inbuf
<1> DEFINE A == Conn \cup {None}
           B == Seq(Byte)
           C == Seq(Nat)
<1>1. slots[i] \in [conn : A, inbuf : B, out : C] /\ b \in B /\ o \in C
  BY DEF ClientSlot
<1> HIDE DEF A, B, C
<1>2. LET t == [slots[i] EXCEPT !.inbuf = b, !.out = o]
      IN  t \in [conn : A, inbuf : B, out : C] /\ t.conn = slots[i].conn /\ t.inbuf = b
  BY <1>1
<1>3. LET t == [slots[i] EXCEPT !.out = o]
      IN  t \in [conn : A, inbuf : B, out : C] /\ t.conn = slots[i].conn /\ t.inbuf = slots[i].inbuf
  BY <1>1
<1> QED
  BY <1>2, <1>3, Zenon DEF A, B, C, ClientSlot

LEMMA ReadChunkInv == IInv /\ ReadChunk => IInv'
<1> SUFFICES ASSUME IInv, ReadChunk PROVE IInv'
  OBVIOUS
<1> DEFINE r   == Min({Chunk, Len(toServer[Here])})
           buf == slots[slot].inbuf \o SubSeq(toServer[Here], 1, r)
           new == Totals(total, Parsed(buf))
           rest == SubSeq(toServer[Here], r + 1, Len(toServer[Here]))
<1>0. /\ at = "recv" /\ Walking /\ toServer[Here] # <<>>
      /\ UNCHANGED <<stopFlag, pfds, backlog, client, toClient, sent, got, accepted>>
  BY DEF ReadChunk, Walking
<1>1. buf \in Seq(Byte) /\ Len(buf) <= InCap /\ rest \in Seq(Byte)
  BY <1>0, ChunkFits
<1>2. /\ toServer' = [toServer EXCEPT ![Here] = rest]
      /\ total' = (IF new = <<>> THEN total ELSE Last(new))
      /\ \/ CloseHere /\ Advance
         \/ /\ ~ParseFails(buf)
            /\ slots' = [slots EXCEPT ![slot].inbuf = Leftover(buf), ![slot].out = @ \o new]
            /\ UNCHANGED <<server, slot, nfds, at, eof>>
  BY <1>1 DEF ReadChunk
<1>3. new \in Seq(Nat) /\ Leftover(buf) \in Seq(Byte) /\ total \in Nat
  BY <1>1, ParsedType, TotalsType, LeftoverType DEF IInv, TypeOK
<1>4. ~ParseFails(buf) => Len(Leftover(buf)) <= MaxLine
  <2>1. Len(Leftover(buf)) \in Nat
    BY <1>3
  <2> QED
    BY <2>1 DEF ParseFails
<1> HIDE DEF buf, new, rest
<1>5. total' \in Nat
  BY <1>2, <1>3 DEF Last
<1>6. /\ toServer' \in [Conn -> Seq(Byte)] /\ toClient' \in [Conn -> Seq(Nat)]
      /\ UNCHANGED <<sent, got>> /\ Room'
  BY <1>0, <1>1, <1>2 DEF IInv, TypeOK, Room
<1>7. CASE CloseHere /\ Advance
  BY <1>0, <1>5, <1>6, <1>7, Closing, WalkInv
<1>8. CASE /\ ~ParseFails(buf)
           /\ slots' = [slots EXCEPT ![slot].inbuf = Leftover(buf), ![slot].out = @ \o new]
           /\ UNCHANGED <<server, slot, nfds, at, eof>>
  <2>0. slots \in [Slot -> ClientSlot] /\ slot \in Slot
    BY <1>0, AtHere DEF IInv, TypeOK, ClientSlot
  <2>1. /\ \A j \in Slot : j # slot => slots'[j] = slots[j]
        /\ slots'[slot] = [slots[slot] EXCEPT !.inbuf = Leftover(buf), !.out = slots[slot].out \o new]
    BY <1>8, <2>0
  <2>2. slots'[slot] \in ClientSlot /\ slots'[slot].inbuf = Leftover(buf)
        /\ slots'[slot].conn = slots[slot].conn
    <3>1. slots[slot] \in ClientSlot /\ slots[slot].out \o new \in Seq(Nat)
      BY <1>3, <2>0 DEF ClientSlot
    <3>2. PICK b \in Seq(Byte), o \in Seq(Nat) : b = Leftover(buf) /\ o = slots[slot].out \o new
      BY <1>3, <3>1
    <3>3. slots'[slot] = [slots[slot] EXCEPT !.inbuf = b, !.out = o]
      BY <2>1, <3>2
    <3> HIDE DEF ClientSlot
    <3>4. slots'[slot] \in ClientSlot /\ slots'[slot].conn = slots[slot].conn /\ slots'[slot].inbuf = b
      BY <2>0, <3>1, <3>3, SlotWith
    <3> QED
      BY <3>2, <3>4
  <2>3. slots' \in [Slot -> ClientSlot]
    <3>1. slots' = [j \in Slot |-> slots'[j]]
      BY <1>8, <2>0
    <3>2. \A j \in Slot : slots'[j] \in ClientSlot
      BY <2>0, <2>1, <2>2
    <3> QED
      BY <3>1, <3>2
  <2>4. \A j \in Slot : slots'[j].conn = slots[j].conn
    BY <2>1, <2>2
  <2>5. Sockets'
    BY <1>0, <1>8, <2>4, SameOwners DEF IInv
  <2>6. LeftoverFits'
    BY <1>4, <1>8, <2>1, <2>2 DEF IInv, LeftoverFits
  <2>7. /\ at' \in {"recv", "finish"} /\ eof' \in BOOLEAN /\ UNCHANGED <<slot, nfds>>
        /\ slots'[slot].conn = Here
        /\ server' \in [Conn -> {"none", "queued", "open", "closed"}]
    BY <1>0, <1>8, <2>2 DEF IInv, TypeOK, Here
  <2>8. ~accepted /\ eof' => client[Here] \in {"shut", "closed"}
    BY <1>0, <1>8 DEF IInv, Match, Here
  <2> QED
    BY <1>0, <1>5, <1>6, <2>3, <2>4, <2>5, <2>6, <2>7, <2>8, WalkInv
<1> QED
  BY <1>2, <1>7, <1>8

\* What goes out is a part of the output, and the socket has room for it.
LEMMA FinishSlotInv == IInv /\ FinishSlot => IInv'
<1> SUFFICES ASSUME IInv, FinishSlot PROVE IInv'
  OBVIOUS
<1> DEFINE out == slots[slot].out
           room == SockCap - Len(toClient[Here])
<1>0. /\ Walking /\ Advance
      /\ UNCHANGED <<stopFlag, pfds, total, backlog, client, toServer, sent, got, accepted>>
  BY DEF FinishSlot, Walking
<1>1. PICK k :
        /\ k = 0 \/ k = Min({room, Len(out)})
        /\ toClient' = [toClient EXCEPT ![Here] = @ \o SubSeq(out, 1, k)]
        /\ \/ CloseHere
           \/ slots' = [slots EXCEPT ![slot].out = Unsent(out, k)] /\ UNCHANGED server
  BY DEF FinishSlot
<1>2. /\ slot \in Slot /\ Here \in Conn /\ slots \in [Slot -> ClientSlot]
      /\ toClient \in [Conn -> Seq(Nat)] /\ out \in Seq(Nat) /\ Len(out) \in Nat
      /\ room \in Nat
  <2>1. /\ slot \in Slot /\ Here \in Conn /\ slots \in [Slot -> ClientSlot]
        /\ toClient \in [Conn -> Seq(Nat)]
    BY <1>0, AtHere DEF IInv, TypeOK, ClientSlot
  <2>2. out \in Seq(Nat) /\ toClient[Here] \in Seq(Nat)
    BY <2>1 DEF ClientSlot
  <2>3. Len(toClient[Here]) <= SockCap /\ Len(toClient[Here]) \in Nat
    BY <2>1, <2>2 DEF IInv, Room
  <2> QED
    BY <2>1, <2>2, <2>3
<1>3. k \in Nat /\ k <= Len(out) /\ k <= room
  <2>1. {room, Len(out)} \in SUBSET Nat /\ {room, Len(out)} # {}
    BY <1>2
  <2>2. LET m == Min({room, Len(out)}) IN m \in {room, Len(out)} /\ m <= room /\ m <= Len(out)
    BY <2>1, MinOfNats
  <2> HIDE DEF room, out
  <2> QED
    BY <1>1, <1>2, <2>2
<1> HIDE DEF out
<1>4. SubSeq(out, 1, k) \in Seq(Nat) /\ Len(SubSeq(out, 1, k)) = k /\ Unsent(out, k) \in Seq(Nat)
  BY <1>2, <1>3 DEF Unsent
<1>5. /\ toClient' \in [Conn -> Seq(Nat)]
      /\ \A c \in Conn : c # Here => toClient'[c] = toClient[c]
      /\ Len(toClient'[Here]) = Len(toClient[Here]) + k
  BY <1>1, <1>2, <1>4
<1>6. Room'
  <2>1. Len(toClient[Here]) \in Nat /\ Len(toClient'[Here]) <= SockCap
    BY <1>2, <1>3, <1>5
  <2> QED
    BY <1>5, <2>1 DEF IInv, Room
<1>7. total' \in Nat /\ toServer' \in [Conn -> Seq(Byte)]
  BY <1>0 DEF IInv, TypeOK
<1>8. CASE CloseHere
  BY <1>0, <1>5, <1>6, <1>7, <1>8, Closing, WalkInv
<1>9. CASE slots' = [slots EXCEPT ![slot].out = Unsent(out, k)] /\ UNCHANGED server
  <2>1. /\ \A j \in Slot : j # slot => slots'[j] = slots[j]
        /\ slots'[slot] = [slots[slot] EXCEPT !.out = Unsent(out, k)]
    BY <1>2, <1>9
  <2>2. slots'[slot] \in ClientSlot /\ slots'[slot].inbuf = slots[slot].inbuf
        /\ slots'[slot].conn = slots[slot].conn
    <3>1. slots[slot] \in ClientSlot /\ slots[slot].inbuf \in Seq(Byte)
      BY <1>2 DEF ClientSlot
    <3> HIDE DEF ClientSlot
    <3> QED
      BY <1>2, <1>4, <2>1, <3>1, SlotWith
  <2>3. slots' \in [Slot -> ClientSlot]
    <3>1. slots' = [j \in Slot |-> slots'[j]]
      BY <1>2, <1>9
    <3>2. \A j \in Slot : slots'[j] \in ClientSlot
      BY <1>2, <2>1, <2>2
    <3> QED
      BY <3>1, <3>2
  <2>4. \A j \in Slot : slots'[j].conn = slots[j].conn /\ slots'[j].inbuf = slots[j].inbuf
    BY <2>1, <2>2
  <2>5. Sockets' /\ LeftoverFits'
    BY <1>0, <1>9, <2>4 DEF IInv, Sockets, LeftoverFits
  <2>6. server' \in [Conn -> {"none", "queued", "open", "closed"}]
    BY <1>9 DEF IInv, TypeOK
  <2> QED
    BY <1>0, <1>5, <1>6, <1>7, <2>3, <2>4, <2>5, <2>6, WalkInv
<1> QED
  BY <1>1, <1>8, <1>9

-----------------------------------------------------------------------------
(* poll and accept.                                                        *)

\* What poll reports of a connection is justified, and is in the connection's entry.
LEMMA FreshEntries ==
  ASSUME IInv
  PROVE  /\ FreshPfds \in [Slot -> Events \cup {None}]
         /\ \A j \in Occupied :
              EntryOf(j) \in Slot /\ Justified(FreshPfds[EntryOf(j)], slots[j].conn)
<1>1. \A i : Revents(i) \in Events /\ Justified(Revents(i), slots[i].conn)
  <2> SUFFICES ASSUME NEW i PROVE Revents(i) \in Events /\ Justified(Revents(i), slots[i].conn)
    OBVIOUS
  <2>1. CASE Reset(slots[i].conn)
    BY <2>1 DEF Revents, Events, Event, Justified, Reset
  <2>2. CASE ~Reset(slots[i].conn)
    <3>1. Revents(i) \in SUBSET {"IN", "OUT"}
      BY <2>2 DEF Revents
    <3> QED
      BY <3>1 DEF Events, Event, Justified
  <2> QED
    BY <2>1, <2>2
<1>2. pfds \in [Slot -> Events \cup {None}]
  BY DEF IInv, TypeOK
<1>3. FreshPfds \in [Slot -> Events \cup {None}]
  BY <1>1, <1>2 DEF FreshPfds
<1>4. ASSUME NEW j \in Occupied PROVE EntryOf(j) \in Slot /\ FreshPfds[EntryOf(j)] = Revents(j)
  <2>1. EntryOf(j) \in Slot /\ \A i \in Occupied : EntryOf(i) = EntryOf(j) => i = j
    BY EntriesApart
  <2>2. (CHOOSE i \in Occupied : EntryOf(i) = EntryOf(j)) = j
    BY <2>1
  <2> QED
    BY <2>1, <2>2 DEF FreshPfds
<1> QED
  BY <1>1, <1>3, <1>4

\* The walk begins at the first slot, with the entries matched when nobody was accepted.
LEMMA BeginInv ==
  ASSUME BeginWalk, UNCHANGED <<slots, client>>,
         ~accepted' =>
           \A j \in Occupied : EntryOf(j) \in Slot /\ Justified(pfds'[EntryOf(j)], slots[j].conn)
  PROVE  /\ at' \in {"poll", "slot"} /\ slot' \in 0..MaxClients /\ nfds' \in 1..(MaxClients + 1)
         /\ eof' = FALSE /\ Place' /\ Match'
<1>1. /\ eof' = FALSE
      /\ at' \in {"poll", "slot"} /\ slot' \in 0..MaxClients /\ nfds' \in 1..(MaxClients + 1)
      /\ at' = "slot" => slot' \in Occupied /\ nfds' <= slot'
  <2>1. 0 \in 0..MaxClients /\ 1 \in 1..(0 + 1) /\ GoOn(0, 1)
    BY DEF BeginWalk
  <2> QED
    BY <2>1, GoesOn
<1>2. Occupied' = Occupied
  BY DEF Occupied
<1>3. Place'
  BY <1>1, <1>2 DEF Place, Walking
<1>4. ~accepted' => (Walking' => Matched')
  BY BeginsMatched
<1>5. Match'
  BY <1>1, <1>4 DEF Match
<1> QED
  BY <1>1, <1>3, <1>5

LEMMA PollInv == IInv /\ Poll => IInv'
<1> SUFFICES ASSUME IInv, Poll PROVE IInv'
  OBVIOUS
<1>1. /\ pfds' = FreshPfds /\ accepted' = FALSE
      /\ UNCHANGED <<stopFlag, dataVars, connVars, pipeVars>>
      /\ \/ at' = "accept" /\ UNCHANGED <<slot, nfds, eof>>
         \/ BeginWalk
  BY DEF Poll, PollOnce
<1>2. /\ pfds' \in [Slot -> Events \cup {None}]
      /\ \A j \in Occupied : EntryOf(j) \in Slot /\ Justified(pfds'[EntryOf(j)], slots[j].conn)
  BY <1>1, FreshEntries
<1>3. UNCHANGED <<slots, client, server, backlog, toClient>>
  BY <1>1 DEF dataVars, connVars, pipeVars
<1>4. Sockets' /\ Room' /\ LeftoverFits'
  BY <1>3, SameSockets DEF IInv, Room, LeftoverFits
<1>5. /\ at' \in {"poll", "accept", "slot"} /\ slot' \in 0..MaxClients /\ nfds' \in 1..(MaxClients + 1)
      /\ eof' \in BOOLEAN /\ Place' /\ Match'
  <2>1. CASE at' = "accept" /\ UNCHANGED <<slot, nfds, eof>>
    <3>1. Occupied' = Occupied
      BY <1>3 DEF Occupied
    <3>2. Polled'
      BY <1>2, <1>3, <3>1 DEF Polled, EntryOf, Justified
    <3> QED
      BY <2>1, <3>2 DEF IInv, TypeOK, Place, Match, Walking
  <2>2. CASE BeginWalk
    BY <1>2, <1>3, <2>2, BeginInv
  <2> QED
    BY <1>1, <2>1, <2>2
<1>6. TypeOK'
  BY <1>1, <1>2, <1>5 DEF IInv, TypeOK, dataVars, connVars, pipeVars
<1> QED
  BY <1>4, <1>5, <1>6 DEF IInv

LEMMA AcceptDoneInv == IInv /\ (AcceptDone \/ AcceptError) => IInv'
<1> SUFFICES ASSUME IInv, AcceptDone \/ AcceptError PROVE IInv'
  OBVIOUS
<1>1. /\ at = "accept" /\ BeginWalk /\ stopFlag' \in BOOLEAN
      /\ UNCHANGED <<pfds, dataVars, connVars, pipeVars, accepted>>
  BY DEF AcceptDone, AcceptError, IInv, TypeOK
<1>2. UNCHANGED <<slots, client, server, backlog, toClient, pfds, accepted>>
  BY <1>1 DEF dataVars, connVars, pipeVars
<1>3. Sockets' /\ Room' /\ LeftoverFits'
  BY <1>2, SameSockets DEF IInv, Room, LeftoverFits
<1>4. ~accepted' =>
        \A j \in Occupied : EntryOf(j) \in Slot /\ Justified(pfds'[EntryOf(j)], slots[j].conn)
  BY <1>1, <1>2 DEF IInv, Match, Polled
<1>5. /\ at' \in {"poll", "slot"} /\ slot' \in 0..MaxClients /\ nfds' \in 1..(MaxClients + 1)
      /\ eof' = FALSE /\ Place' /\ Match'
  BY <1>1, <1>2, <1>4, BeginInv
<1>6. TypeOK'
  BY <1>1, <1>5 DEF IInv, TypeOK, dataVars, connVars, pipeVars
<1> QED
  BY <1>3, <1>5, <1>6 DEF IInv

LEMMA AcceptOneInv == IInv /\ AcceptOne => IInv'
<1> SUFFICES ASSUME IInv, AcceptOne PROVE IInv'
  OBVIOUS
<1> DEFINE c == Head(backlog)
           free == Slot \ Occupied
<1>1. /\ at = "accept" /\ backlog # <<>> /\ backlog' = Tail(backlog)
      /\ \/ /\ free # {}
            /\ slots' = [slots EXCEPT ![Min(free)] = [FreeSlot EXCEPT !.conn = c]]
            /\ server' = [server EXCEPT ![c] = "open"]
            /\ accepted' = TRUE
         \/ /\ server' = [server EXCEPT ![c] = "closed"]
            /\ UNCHANGED <<slots, accepted>>
      /\ UNCHANGED <<at, stopFlag, pfds, slot, nfds, eof, total, client, toServer, toClient, sent, got>>
  BY DEF AcceptOne, mainVars, pipeVars
<1>2. /\ backlog \in Seq(Conn) /\ server \in [Conn -> {"none", "queued", "open", "closed"}]
      /\ slots \in [Slot -> ClientSlot] /\ Sockets
  BY DEF IInv, TypeOK, ClientSlot
<1>3. /\ c \in Conn /\ c = backlog[1] /\ Tail(backlog) \in Seq(Conn)
      /\ Len(backlog) \in Nat /\ Len(backlog) > 0 /\ Len(Tail(backlog)) = Len(backlog) - 1
      /\ \A k \in 1..(Len(backlog) - 1) : Tail(backlog)[k] = backlog[k + 1]
  BY <1>1, <1>2, HeadTailProperties
<1> HIDE DEF c
<1>4. server[c] = "queued" /\ client[c] # "none" /\ \A i \in Slot : slots[i].conn # c
  <2>1. 1 \in 1..Len(backlog)
    BY <1>3
  <2>2. server[c] = "queued"
    BY <1>2, <1>3, <2>1 DEF Sockets
  <2> QED
    BY <1>2, <1>3, <2>2 DEF Sockets
<1>5. /\ \A k \in 1..Len(Tail(backlog)) :
           Tail(backlog)[k] \in Conn /\ Tail(backlog)[k] # c /\ server[Tail(backlog)[k]] = "queued"
      /\ \A j, k \in 1..Len(Tail(backlog)) : Tail(backlog)[j] = Tail(backlog)[k] => j = k
  <2>1. \A k \in 1..Len(Tail(backlog)) :
          k + 1 \in 1..Len(backlog) /\ k + 1 # 1 /\ Tail(backlog)[k] = backlog[k + 1]
    BY <1>3
  <2>2. 1 \in 1..Len(backlog)
    BY <1>3
  <2>3. \A k \in 1..Len(backlog) : backlog[k] \in Conn /\ server[backlog[k]] = "queued"
    BY <1>2 DEF Sockets
  <2>4. \A j, k \in 1..Len(backlog) : backlog[j] = backlog[k] => j = k
    BY <1>2 DEF Sockets
  <2>5. \A k \in 1..Len(Tail(backlog)) : Tail(backlog)[k] # c
    BY <1>3, <2>1, <2>2, <2>4
  <2>6. ASSUME NEW j \in 1..Len(Tail(backlog)), NEW k \in 1..Len(Tail(backlog)),
               Tail(backlog)[j] = Tail(backlog)[k]
        PROVE  j = k
    <3>1. j + 1 = k + 1
      BY <2>1, <2>4, <2>6
    <3> QED
      BY <3>1
  <2> QED
    BY <2>1, <2>3, <2>5, <2>6
<1>6. /\ server' \in [Conn -> {"none", "queued", "open", "closed"}]
      /\ \A d \in Conn : d # c => server'[d] = server[d]
      /\ backlog' \in Seq(Conn)
  BY <1>1, <1>2, <1>3
<1>7. Place'
  BY <1>1 DEF Place, Walking
<1>8. Room'
  BY <1>1 DEF IInv, Room
<1>9. CASE /\ free # {}
           /\ slots' = [slots EXCEPT ![Min(free)] = [FreeSlot EXCEPT !.conn = c]]
           /\ server' = [server EXCEPT ![c] = "open"]
           /\ accepted' = TRUE
  <2>1. Min(free) \in Slot /\ slots[Min(free)].conn = None
    <3>1. free \in SUBSET Nat
      BY DEF Slot
    <3>2. Min(free) \in free
      BY <1>9, <3>1, MinOfNats
    <3> QED
      BY <3>2 DEF Occupied
  <2>2. PICK i \in Slot : i = Min(free) /\ slots[i].conn = None
    BY <2>1
  <2> DEFINE new == [conn |-> c, inbuf |-> <<>>, out |-> <<>>]
  <2>3. [FreeSlot EXCEPT !.conn = c] = new
    BY DEF FreeSlot
  <2>4. new \in ClientSlot /\ new.conn = c /\ new.inbuf = <<>>
    BY <1>3 DEF ClientSlot
  <2>5. slots' = [slots EXCEPT ![i] = new]
    BY <1>9, <2>2, <2>3
  <2> HIDE DEF new, free
  <2>6. /\ \A j \in Slot : j # i => slots'[j] = slots[j]
        /\ slots'[i] = new /\ slots' \in [Slot -> ClientSlot]
    BY <1>2, <2>4, <2>5
  <2>7. server'[c] = "open"
    BY <1>2, <1>3, <1>9
  <2>8. Sockets'
    <3>1. \A j \in Slot : slots'[j].conn # None => server'[slots'[j].conn] = "open"
      <4>1. \A j \in Slot : slots[j].conn # None => slots[j].conn \in Conn
        BY <1>2 DEF ClientSlot
      <4> QED
        BY <1>2, <1>4, <1>6, <2>4, <2>6, <2>7, <4>1 DEF Sockets
    <3>2. \A j, k \in Slot : slots'[j].conn # None /\ slots'[j].conn = slots'[k].conn => j = k
      BY <1>2, <1>4, <2>2, <2>4, <2>6 DEF Sockets
    <3>3. \A d \in Conn : server'[d] = "open" => \E j \in Slot : slots'[j].conn = d
      <4> SUFFICES ASSUME NEW d \in Conn, server'[d] = "open" PROVE \E j \in Slot : slots'[j].conn = d
        OBVIOUS
      <4>1. CASE d = c
        BY <4>1, <2>2, <2>4, <2>6
      <4>2. CASE d # c
        <5>1. PICK j \in Slot : slots[j].conn = d
          BY <4>2, <1>2, <1>6 DEF Sockets
        <5>2. d # None
          OBVIOUS
        <5> QED
          BY <2>2, <2>6, <5>1, <5>2
      <4> QED
        BY <4>1, <4>2
    <3>4. \A d \in Conn : client[d] = "none" => server'[d] = "none"
      BY <1>2, <1>4, <1>6 DEF Sockets
    <3> QED
      BY <1>1, <1>5, <1>6, <3>1, <3>2, <3>3, <3>4 DEF Sockets
  <2>9. LeftoverFits'
    BY <2>4, <2>6 DEF IInv, LeftoverFits
  <2>10. Match'
    BY <1>9 DEF Match
  <2>11. TypeOK'
    BY <1>1, <1>6, <1>9, <2>6 DEF IInv, TypeOK, ClientSlot
  <2> QED
    BY <1>7, <1>8, <2>8, <2>9, <2>10, <2>11 DEF IInv
<1>10. CASE server' = [server EXCEPT ![c] = "closed"] /\ UNCHANGED <<slots, accepted>>
  <2>0. server'[c] = "closed"
    BY <1>2, <1>3, <1>10
  <2>1. Sockets'
    <3>1. \A j \in Slot : slots[j].conn # None => slots[j].conn \in Conn
      BY <1>2 DEF ClientSlot
    <3>2. \A j \in Slot : slots'[j].conn # None => server'[slots'[j].conn] = "open"
      BY <1>2, <1>4, <1>6, <1>10, <3>1 DEF Sockets
    <3>3. \A d \in Conn : server'[d] = "open" => \E j \in Slot : slots'[j].conn = d
      BY <1>2, <1>6, <1>10, <2>0 DEF Sockets
    <3>4. \A d \in Conn : client[d] = "none" => server'[d] = "none"
      BY <1>2, <1>4, <1>6 DEF Sockets
    <3> QED
      BY <1>1, <1>2, <1>5, <1>6, <1>10, <3>2, <3>3, <3>4 DEF Sockets
  <2>2. LeftoverFits'
    BY <1>10 DEF IInv, LeftoverFits
  <2>3. Match' /\ Place'
    BY <1>1, <1>10, KeepsMatch DEF IInv
  <2>4. TypeOK'
    BY <1>1, <1>6, <1>10 DEF IInv, TypeOK
  <2> QED
    BY <1>8, <2>1, <2>2, <2>3, <2>4 DEF IInv
<1> QED
  BY <1>1, <1>9, <1>10 DEF c

LEMMA StopInv == IInv /\ Stop => IInv'
<1> SUFFICES ASSUME IInv, Stop PROVE IInv'
  OBVIOUS
<1>1. /\ at' = "stopped" /\ slots' = [i \in Slot |-> FreeSlot] /\ backlog' = <<>>
      /\ server' = [c \in Conn |-> IF server[c] = "none" THEN "none" ELSE "closed"]
      /\ UNCHANGED <<stopFlag, pfds, slot, nfds, eof, total, client, pipeVars, accepted>>
  BY DEF Stop
<1>2. \A i \in Slot : slots'[i].conn = None /\ slots'[i].inbuf = <<>>
  BY <1>1 DEF FreeSlot
<1>3. server' \in [Conn -> {"none", "queued", "open", "closed"}]
      /\ \A c \in Conn : server'[c] # "open" /\ (server[c] = "none" => server'[c] = "none")
  BY <1>1
<1>4. Sockets'
  BY <1>1, <1>2, <1>3 DEF IInv, Sockets
<1>5. Place' /\ Match' /\ Room' /\ LeftoverFits'
  BY <1>1, <1>2 DEF IInv, Place, Match, Walking, Room, LeftoverFits, pipeVars
<1>6. slots' \in [Slot -> ClientSlot]
  <2>1. FreeSlot \in ClientSlot
    BY DEF FreeSlot, ClientSlot
  <2> QED
    BY <1>1, <2>1
<1>7. backlog' \in Seq(Conn)
  BY <1>1
<1>8. TypeOK'
  BY <1>1, <1>3, <1>6, <1>7 DEF IInv, TypeOK, ClientSlot, pipeVars
<1> QED
  BY <1>4, <1>5, <1>8 DEF IInv

-----------------------------------------------------------------------------
(* The theorems.                                                           *)

LEMMA StepInv == IInv /\ [Next]_vars => IInv'
<1> SUFFICES ASSUME IInv, [Next]_vars PROVE IInv'
  OBVIOUS
<1>1. CASE Server
  BY <1>1, PollInv, AcceptOneInv, AcceptDoneInv, ReadEntryInv, ReadChunkInv, ReadEndInv,
     FinishSlotInv, StopInv DEF Server
<1>2. CASE \E c \in Conn : Peer(c)
  <2>1. PICK c \in Conn : Peer(c)
    BY <1>2
  <2>2. \A b \in Byte : <<b>> \in Seq(Byte)
    OBVIOUS
  <2> QED
    BY <2>1, <2>2, ConnectInv, SendInv, ReceiveInv, LeaveInv DEF Peer
<1>3. CASE AcceptError \/ Signal
  BY <1>3, AcceptDoneInv, SignalInv
<1>4. CASE UNCHANGED vars
  <2>1. UNCHANGED <<mainVars, dataVars, connVars, pipeVars, accepted>>
    BY <1>4 DEF vars
  <2>2. UNCHANGED <<at, stopFlag, slots, pfds, slot, nfds, eof, total, backlog, client, server,
                    toServer, toClient, sent, got, accepted>>
    BY <2>1 DEF mainVars, dataVars, connVars, pipeVars
  <2>3. TypeOK'
    BY <2>2 DEF IInv, TypeOK
  <2>4. Match' /\ Place'
    BY <2>2, KeepsMatch DEF IInv
  <2>5. Sockets' /\ Room' /\ LeftoverFits'
    BY <2>2, SameSockets DEF IInv, Room, LeftoverFits
  <2> QED
    BY <2>3, <2>4, <2>5 DEF IInv
<1> QED
  BY <1>1, <1>2, <1>3, <1>4 DEF Next, CalmNext, Ended

THEOREM ServerInvariance == Spec => []IInv
<1>1. Init => IInv
  BY InitInv
<1>2. IInv /\ [Next]_vars => IInv'
  BY StepInv
<1> QED
  BY <1>1, <1>2, PTL DEF Spec

\* The types of the server's variables: the walk's slot and entry stay inside the
\* arrays, whatever is accepted or closed on the way (server.c 287-419).
THEOREM ThServerTypes == Spec => []TypeOK
<1>1. IInv => TypeOK
  BY DEF IInv
<1> QED
  BY <1>1, ServerInvariance, PTL

\* A connection has a slot exactly while the server has its socket open, and never two
\* (server.c 79-93, 331-351).
THEOREM ThSlotsAreOpen == Spec => []SlotsAreOpen
<1>1. IInv => SlotsAreOpen
  <2> SUFFICES ASSUME IInv, NEW c \in Conn
               PROVE  Cardinality({i \in Slot : slots[i].conn = c}) =
                        IF server[c] = "open" THEN 1 ELSE 0
    BY DEF SlotsAreOpen
  <2>0. c # None
    OBVIOUS
  <2>1. CASE server[c] = "open"
    <3>1. PICK i \in Slot : slots[i].conn = c
      BY <2>1 DEF IInv, Sockets
    <3>2. {j \in Slot : slots[j].conn = c} = {i}
      BY <2>0, <3>1 DEF IInv, Sockets
    <3>3. Cardinality({i}) = 1
      BY FS_Singleton
    <3> QED
      BY <2>1, <3>2, <3>3
  <2>2. CASE server[c] # "open"
    <3>1. {j \in Slot : slots[j].conn = c} = {}
      BY <2>0, <2>2 DEF IInv, Sockets
    <3> QED
      BY <2>2, <3>1, FS_EmptySet
  <2> QED
    BY <2>1, <2>2
<1> QED
  BY <1>1, ServerInvariance, PTL

\* A chunk always fits behind what is left in inbuf, so that the check at server.c 393
\* closes no connection.
THEOREM ThLeftoverFits == Spec => []LeftoverFits
<1>1. IInv => LeftoverFits
  BY DEF IInv
<1> QED
  BY <1>1, ServerInvariance, PTL

\* In an iteration that accepts nobody the entries match the slots, and every close has
\* its reason (server.c 287-298, 358-419).
THEOREM ThClosedForAReason == Spec => ClosedForAReasonUnlessAccepting
<1>1. IInv /\ [Next]_vars => [\A c \in Conn : ServerCloses(c) => Reason(c) \/ accepted]_vars
  <2> SUFFICES ASSUME IInv, Next, NEW c \in Conn, ServerCloses(c), ~accepted PROVE Reason(c)
    OBVIOUS
  <2>0. server[c] = "open" /\ server'[c] = "closed" /\ server' # server
    BY DEF ServerCloses
  <2>t. server \in [Conn -> {"none", "queued", "open", "closed"}] /\ Sockets
    BY DEF IInv, TypeOK
  <2>1. CASE AcceptOne
    <3>1. /\ backlog # <<>>
          /\ \/ server' = [server EXCEPT ![Head(backlog)] = "open"]
             \/ server' = [server EXCEPT ![Head(backlog)] = "closed"]
      BY <2>1 DEF AcceptOne
    <3>2. server[Head(backlog)] = "queued" /\ Head(backlog) \in Conn
      <4>1. backlog \in Seq(Conn) /\ Len(backlog) \in Nat
        BY DEF IInv, TypeOK
      <4>2. 1 \in 1..Len(backlog) /\ Head(backlog) = backlog[1] /\ Head(backlog) \in Conn
        BY <3>1, <4>1
      <4> QED
        BY <4>2, <2>t DEF Sockets
    <3> QED
      BY <2>0, <2>t, <3>1, <3>2
  <2>2. CASE ReadEntry
    <3>1. PICK ev \in Entry : "ERR" \in ev /\ CloseHere
      BY <2>0, <2>2 DEF ReadEntry
    <3>2. Walking
      BY <2>2 DEF ReadEntry, Walking
    <3>3. c = Here
      BY <2>0, <2>t, <3>1, <3>2, AtHere DEF CloseHere
    <3>4. client[Here] = "closed"
      BY <3>1, <3>2, OwnEntry DEF Justified
    <3> QED
      BY <3>3, <3>4 DEF Reason
  <2>3. CASE ReadChunk
    <3>1. at = "recv" /\ toServer[Here] # <<>> /\ Walking
      BY <2>3 DEF ReadChunk, Walking
    <3> DEFINE r   == Min({Chunk, Len(toServer[Here])})
               buf == slots[slot].inbuf \o SubSeq(toServer[Here], 1, r)
    <3>2. Len(buf) <= InCap
      BY <3>1, ChunkFits
    <3>3. ParseFails(buf) /\ CloseHere
      BY <2>0, <2>3, <3>2 DEF ReadChunk
    <3>4. c = Here
      BY <2>0, <2>t, <3>1, <3>3, AtHere DEF CloseHere
    <3> QED
      BY <3>1, <3>3, <3>4 DEF Reason
  <2>4. CASE ReadEnd
    <3>1. Reset(Here) /\ CloseHere /\ Walking
      BY <2>0, <2>4 DEF ReadEnd, Walking
    <3>2. c = Here
      BY <2>0, <2>t, <3>1, AtHere DEF CloseHere
    <3> QED
      BY <3>1, <3>2 DEF Reason, Reset
  <2>5. CASE FinishSlot
    <3>1. Walking /\ CloseHere /\ (client[Here] = "closed" \/ eof)
      BY <2>0, <2>5 DEF FinishSlot, Complete, Walking
    <3>2. c = Here
      BY <2>0, <2>t, <3>1, AtHere DEF CloseHere
    <3>3. client[Here] \in {"shut", "closed"}
      BY <3>1 DEF IInv, Match, Here
    <3> QED
      BY <3>2, <3>3 DEF Reason
  <2>6. CASE Stop
    BY <2>6 DEF Stop, Reason
  <2>7. CASE \E d \in Conn : Connect(d)
    BY <2>0, <2>7, <2>t DEF Connect
  <2>8. ~(Poll \/ AcceptDone \/ AcceptError \/ Signal \/ Ended)
    BY <2>0 DEF Poll, PollOnce, AcceptDone, AcceptError, Signal, Ended, vars, connVars
  <2>9. \A d \in Conn : ~(Receive(d) \/ Shutdown(d) \/ Close(d) \/ \E b \in Byte : Send(d, <<b>>))
    BY <2>0 DEF Receive, Shutdown, Close, Send, connVars
  <2> QED
    BY <2>1, <2>2, <2>3, <2>4, <2>5, <2>6, <2>7, <2>8, <2>9 DEF Next, CalmNext, Server, Peer
<1> QED
  BY <1>1, ServerInvariance, PTL DEF Spec, ClosedForAReasonUnlessAccepting

=============================================================================
