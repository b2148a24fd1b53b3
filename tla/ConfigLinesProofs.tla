------------------------- MODULE ConfigLinesProofs -------------------------
(***************************************************************************)
(* parse_config_file makes its entries of the lines of the file, for every *)
(* file, every other file in its place when it is read, and every content  *)
(* of memory that was never written.                                       *)
(***************************************************************************)
EXTENDS ConfigLines, SequenceTheorems, TLAPS

USE ConfigConstants

End(k) == buf[k] \in {Newline, Nul}

\* The lines of the file that the walk has seen when it has come to an end of a line at e.
EntriesUpTo(e) == {l \in EntriesIn(Read) : l[2] <= e}

\* What the buffer holds, and which part of it the line the walk is in has.
Walking ==
  /\ Len(buf) = size + 1
  /\ \A k \in 1..Available : buf[k] = content[k]
  /\ buf[Available + 1] = Nul
  /\ line_start # 0 => End(line_start)
  /\ \A k \in (line_start + 1)..pos : ~End(k)

\* What the entries are so far.
Made ==
  /\ \A l \in RejectedIn(Read) : l[2] > line_start
  /\ \E m \in 0..Len(entries) :
       MadeOf(m, EntriesUpTo(line_start)) /\ (line_start <= Available + 1 => m = Len(entries))

IInv ==
  /\ ConfTypeOK
  /\ confAt = "read" => /\ pos <= Available /\ buf = SubSeq(content, 1, pos)
                        /\ line_start = 0 /\ entries = <<>>
  /\ confAt \in {"walk", "ok"} => Walking /\ Made
  /\ confAt = "ok" => pos = size + 1
  /\ confAt = "malformed" => RejectedIn(Read) # {} \/ size > Len(content)

\* Sequences that agree between two places have the same part there.
LEMMA SamePart ==
  ASSUME NEW S, NEW s, NEW t, NEW a \in Int, NEW b \in Int,
         \A k \in a..b : s[k] \in S /\ s[k] = t[k]
  PROVE  SubSeq(s, a, b) = SubSeq(t, a, b)
<1>1. \A k \in a..b : s[k] \in S
  OBVIOUS
<1>2. \A k \in a..b : t[k] \in S
  OBVIOUS
<1> DEFINE u == SubSeq(s, a, b)
           v == SubSeq(t, a, b)
<1>3. /\ u \in Seq(S) /\ Len(u) = (IF a <= b THEN b - a + 1 ELSE 0)
      /\ \A k \in 1..(b - a + 1) : u[k] = s[a + k - 1]
  BY <1>1, SubSeqProperties
<1>4. /\ v \in Seq(S) /\ Len(v) = (IF a <= b THEN b - a + 1 ELSE 0)
      /\ \A k \in 1..(b - a + 1) : v[k] = t[a + k - 1]
  BY <1>2, SubSeqProperties
<1>5. \A k \in 1..(b - a + 1) : a + k - 1 \in a..b
  OBVIOUS
<1> HIDE DEF u, v
<1>6. Len(u) = Len(v) /\ \A k \in 1..Len(u) : u[k] = v[k]
  BY <1>3, <1>4, <1>5
<1>7. u = v
  BY <1>3, <1>4, <1>6, SeqEqual
<1> QED
  BY <1>7 DEF u, v

LEMMA Sizes ==
  ASSUME ConfTypeOK
  PROVE  /\ Len(content) \in Nat /\ size \in Nat
         /\ Available \in Nat /\ Available <= size /\ Available <= Len(content)
         /\ Read \in Seq(Byte) /\ Len(Read) = Available
         /\ \A k \in 1..Available : Read[k] = content[k]
<1>1. Len(content) \in Nat /\ size \in Nat /\ content \in Seq(Byte)
  BY DEF ConfTypeOK
<1>2. Available \in Nat /\ Available <= size /\ Available <= Len(content)
  BY <1>1 DEF Available
<1>3. /\ Read \in Seq(Byte) /\ Len(Read) = Available
      /\ \A k \in 1..Available : Read[k] = content[k]
  <2>1. \A k \in 1..Available : content[k] \in Byte
    BY <1>1, <1>2, ElementOfSeq
  <2> QED
    BY <1>1, <1>2, <2>1, SubSeqProperties DEF Read
<1> QED
  BY <1>1, <1>2, <1>3

LEMMA EndsOfRead ==
  ASSUME ConfTypeOK, Walking
  PROVE  Ends(Read) = {0} \cup {k \in 1..(Available + 1) : End(k)}
<1>1. Len(Read) = Available /\ Available \in Nat /\ \A k \in 1..Available : Read[k] = buf[k]
  BY Sizes DEF Walking
<1>2. Read \in Seq(Byte) /\ DOMAIN Read = 1..Available
  BY <1>1, Sizes
<1>3. End(Available + 1)
  BY DEF Walking, End
<1> QED
  BY <1>1, <1>2, <1>3 DEF Ends, End

\* A line lies between two places.
LEMMA LinePlaces ==
  ASSUME ConfTypeOK, Walking, NEW l \in LinesIn(Read)
  PROVE  l[1] \in Nat /\ l[2] \in Nat /\ l[1] < l[2]
<1>1. l[1] \in Ends(Read) /\ l[2] \in Ends(Read) /\ l[1] < l[2]
  BY DEF LinesIn
<1>2. \A k \in Ends(Read) : k \in Nat
  <2>1. Available \in Nat
    BY Sizes
  <2> QED
    BY <2>1, EndsOfRead
<1> QED
  BY <1>1, <1>2

\* A line of the walk that ends in what was read is a line of what was read, and the same.
LEMMA ThisLineIsALine ==
  ASSUME ConfTypeOK, Walking, End(pos + 1), pos <= Available
  PROVE  /\ <<line_start, pos + 1>> \in LinesIn(Read)
         /\ Between(Read, <<line_start, pos + 1>>) = ThisLine
         /\ Between(content, <<line_start, pos + 1>>) = ThisLine
<1>1. line_start \in Nat /\ pos \in Nat /\ line_start <= pos
  BY DEF ConfTypeOK
<1>2. line_start \in Ends(Read) /\ pos + 1 \in Ends(Read)
  BY <1>1, EndsOfRead, Sizes DEF Walking
<1>3. \A k \in Ends(Read) : k <= line_start \/ pos + 1 <= k
  <2>1. SUFFICES ASSUME NEW k \in Ends(Read), ~(k <= line_start), ~(pos + 1 <= k) PROVE FALSE
    OBVIOUS
  <2>2. k \in 1..(Available + 1) /\ End(k)
    BY <2>1, <1>1, EndsOfRead
  <2>3. k \in (line_start + 1)..pos
    BY <2>1, <2>2, <1>1, Sizes
  <2> QED
    BY <2>2, <2>3 DEF Walking
<1>4. <<line_start, pos + 1>> \in LinesIn(Read)
  BY <1>1, <1>2, <1>3 DEF LinesIn
<1>5. \A k \in (line_start + 1)..pos :
        /\ k \in 1..Available
        /\ buf[k] = content[k] /\ Read[k] = content[k] /\ content[k] \in Byte
  BY <1>1, Sizes, ElementOfSeq DEF Walking, ConfTypeOK
<1>6. /\ ThisLine = SubSeq(content, line_start + 1, pos)
      /\ SubSeq(Read, line_start + 1, pos) = SubSeq(content, line_start + 1, pos)
  <2>1. line_start + 1 \in Int /\ pos \in Int
    BY <1>1
  <2>2. /\ \A k \in (line_start + 1)..pos : buf[k] \in Byte /\ buf[k] = content[k]
        /\ \A k \in (line_start + 1)..pos : Read[k] \in Byte /\ Read[k] = content[k]
    BY <1>5
  <2>3. SubSeq(buf, line_start + 1, pos) = SubSeq(content, line_start + 1, pos)
    BY <2>1, <2>2, SamePart
  <2>4. SubSeq(Read, line_start + 1, pos) = SubSeq(content, line_start + 1, pos)
    BY <2>1, <2>2, SamePart
  <2> QED
    BY <2>3, <2>4 DEF ThisLine
<1>7. /\ Between(Read, <<line_start, pos + 1>>) = SubSeq(Read, line_start + 1, pos)
      /\ Between(content, <<line_start, pos + 1>>) = SubSeq(content, line_start + 1, pos)
  BY <1>1 DEF Between
<1> QED
  BY <1>4, <1>6, <1>7

\* The only line of what was read that ends after line_start and not after this end is this one.
LEMMA NoOtherLine ==
  ASSUME ConfTypeOK, Walking, End(pos + 1),
         NEW l \in LinesIn(Read), l[2] > line_start, l[2] <= pos + 1
  PROVE  pos <= Available /\ l = <<line_start, pos + 1>>
<1>1. line_start \in Nat /\ pos \in Nat /\ line_start <= pos
  BY DEF ConfTypeOK
<1>2. /\ l[1] \in Ends(Read) /\ l[2] \in Ends(Read) /\ l[1] < l[2] /\ l = <<l[1], l[2]>>
      /\ \A k \in Ends(Read) : k <= l[1] \/ l[2] <= k
  BY DEF LinesIn
<1>3. Ends(Read) \subseteq Nat /\ \A k \in Ends(Read) : k = 0 \/ (k \in 1..(Available + 1) /\ End(k))
  BY EndsOfRead, Sizes
<1>4. l[2] = pos + 1 /\ pos <= Available
  <2>1. End(l[2]) /\ l[2] \in Nat /\ l[2] <= Available + 1
    BY <1>1, <1>2, <1>3, Sizes
  <2>2. l[2] \notin (line_start + 1)..pos
    BY <2>1 DEF Walking
  <2> QED
    BY <2>1, <2>2, <1>1, Sizes
<1>5. line_start \in Ends(Read)
  BY <1>1, <1>4, EndsOfRead, Sizes DEF Walking
<1>6. l[1] = line_start
  <2>1. line_start <= l[1]
    BY <1>1, <1>2, <1>4, <1>5
  <2>2. l[1] \notin (line_start + 1)..pos
    BY <1>1, <1>2, <1>3 DEF Walking
  <2> QED
    BY <2>1, <2>2, <1>1, <1>2, <1>3, <1>4
<1> QED
  BY <1>2, <1>4, <1>6

\* When the walk is past the end of what was read, it has seen all its lines.
LEMMA PastTheEnd ==
  ASSUME ConfTypeOK, Walking, pos > Available
  PROVE  /\ Available + 1 <= line_start
         /\ \A l \in LinesIn(Read) : l[2] <= line_start
<1>1. line_start \in Nat /\ pos \in Nat /\ Available \in Nat
  BY Sizes DEF ConfTypeOK
<1>2. End(Available + 1)
  BY DEF Walking, End
<1>3. Available + 1 <= line_start
  BY <1>1, <1>2 DEF Walking
<1>4. \A k \in Ends(Read) : k \in Nat /\ k <= Available + 1
  BY <1>1, EndsOfRead
<1> QED
  BY <1>1, <1>3, <1>4 DEF LinesIn

-----------------------------------------------------------------------------

LEMMA InitInv == ConfInit => IInv
<1> SUFFICES ASSUME ConfInit PROVE IInv
  OBVIOUS
<1>1. content \in Seq(Byte) /\ size \in Nat
  BY DEF ConfInit
<1>2. ConfTypeOK
  BY <1>1 DEF ConfInit, ConfTypeOK
<1>3. buf = SubSeq(content, 1, pos)
  BY <1>1, SubSeqEmpty DEF ConfInit
<1> QED
  BY <1>2, <1>3, Sizes DEF ConfInit, IInv

LEMMA MadeKept ==
  ASSUME Made, UNCHANGED <<content, size, line_start, entries>>
  PROVE  Made'
<1>1. Read' = Read /\ Available' = Available
  BY DEF Read, Available
<1>2. EntriesUpTo(line_start)' = EntriesUpTo(line_start) /\ RejectedIn(Read)' = RejectedIn(Read)
  BY <1>1 DEF EntriesUpTo
<1>3. PICK m \in 0..Len(entries) :
        MadeOf(m, EntriesUpTo(line_start)) /\ (line_start <= Available + 1 => m = Len(entries))
  BY DEF Made
<1>4. MadeOf(m, EntriesUpTo(line_start))'
  BY <1>2, <1>3 DEF MadeOf
<1> QED
  BY <1>1, <1>2, <1>3, <1>4 DEF Made

\* The entries when a line is passed over or becomes one.
LEMMA WalkLineMade ==
  ASSUME IInv, WalkLine
  PROVE  Made'
<1> USE DEF IInv
<1>t. /\ ConfTypeOK /\ Walking /\ Made
      /\ line_start \in Nat /\ pos \in Nat /\ line_start <= pos /\ Available \in Nat
      /\ entries \in Seq(Seq(Byte)) /\ Len(entries) \in Nat
  BY Sizes DEF WalkLine, ConfTypeOK
<1>s. /\ content' = content /\ size' = size /\ buf' = buf /\ End(pos + 1)
      /\ line_start' = pos + 1 /\ Read' = Read /\ Available' = Available
      /\ EntriesIn(Read)' = EntriesIn(Read) /\ RejectedIn(Read)' = RejectedIn(Read)
  BY DEF WalkLine, EndOfLine, End, Read, Available
<1> DEFINE this == <<line_start, pos + 1>>
           entry == ~Ignored(ThisLine)
<1>e. /\ entries' = IF entry THEN Append(entries, ThisLine) ELSE entries
      /\ entry => ~Malformed(ThisLine)
  BY DEF WalkLine
<1>1. (\A l \in RejectedIn(Read) : l[2] > line_start)'
  <2>1. SUFFICES ASSUME NEW l \in RejectedIn(Read), ~(l[2] > pos + 1) PROVE FALSE
    BY <1>s
  <2>2. l \in LinesIn(Read) /\ l[2] > line_start
    BY <1>t DEF RejectedIn, Made
  <2>3. l[2] \in Nat
    BY <2>2, <1>t, LinePlaces
  <2>4. pos <= Available /\ l = this
    BY <1>s, <1>t, <2>1, <2>2, <2>3, NoOtherLine
  <2>5. ~Ignored(ThisLine) /\ Malformed(ThisLine)
    BY <1>s, <1>t, <2>1, <2>4, ThisLineIsALine DEF RejectedIn
  <2> QED
    BY <2>5, <1>e
<1>2. PICK m \in 0..Len(entries) :
        MadeOf(m, EntriesUpTo(line_start)) /\ (line_start <= Available + 1 => m = Len(entries))
  BY <1>t DEF Made
<1>3. PICK line \in [1..m -> EntriesUpTo(line_start)] :
        /\ \A n \in 1..m : entries[n] = Between(content, line[n])
        /\ \A n \in 1..m, o \in 1..m : n < o => line[n][1] < line[o][1]
        /\ \A l \in EntriesUpTo(line_start) : \E n \in 1..m : line[n] = l
  BY <1>2 DEF MadeOf
<1>4. \A n \in 1..Len(entries) : entries'[n] = entries[n]
  BY <1>e, <1>t
<1>5. Len(entries') = (IF entry THEN Len(entries) + 1 ELSE Len(entries))
  BY <1>e, <1>t
<1>6. CASE entry /\ pos <= Available
  <2>1. /\ this \in LinesIn(Read) /\ Between(Read, this) = ThisLine
        /\ Between(content, this) = ThisLine
    BY <1>s, <1>t, <1>6, ThisLineIsALine
  <2>2. this \in EntriesUpTo(pos + 1)
    BY <2>1, <1>6, <1>e, <1>t DEF EntriesUpTo, EntriesIn
  <2>3. \A l \in EntriesUpTo(pos + 1) : l \in EntriesUpTo(line_start) \/ l = this
    <3>1. SUFFICES ASSUME NEW l \in EntriesUpTo(pos + 1), ~(l[2] <= line_start) PROVE l = this
      BY DEF EntriesUpTo
    <3>2. l \in LinesIn(Read) /\ l[2] \in Nat
      BY <1>t, LinePlaces DEF EntriesUpTo, EntriesIn
    <3>3. l[2] > line_start /\ l[2] <= pos + 1
      BY <1>t, <3>1, <3>2 DEF EntriesUpTo
    <3> QED
      BY <1>s, <1>t, <3>2, <3>3, NoOtherLine
  <2>4. \A l \in EntriesUpTo(line_start) :
          l \in EntriesUpTo(pos + 1) /\ l[1] \in Nat /\ l[2] \in Nat /\ l[1] < line_start
    <3>1. SUFFICES ASSUME NEW l \in EntriesUpTo(line_start)
                   PROVE  /\ l \in EntriesUpTo(pos + 1)
                          /\ l[1] \in Nat /\ l[2] \in Nat /\ l[1] < line_start
      OBVIOUS
    <3>2. l \in EntriesIn(Read) /\ l \in LinesIn(Read) /\ l[2] <= line_start
      BY DEF EntriesUpTo, EntriesIn
    <3>3. l[1] \in Nat /\ l[2] \in Nat /\ l[1] < l[2]
      BY <3>2, <1>t, LinePlaces
    <3> QED
      BY <3>2, <3>3, <1>t DEF EntriesUpTo
  <2>5. m = Len(entries) /\ m + 1 = Len(entries')
    BY <1>2, <1>5, <1>6, <1>t
  <2> DEFINE longer == [n \in 1..(m + 1) |-> IF n = m + 1 THEN this ELSE line[n]]
  <2>6. longer \in [1..(m + 1) -> EntriesUpTo(pos + 1)]
    BY <2>2, <2>4, <1>3
  <2>7. \A n \in 1..(m + 1) : entries'[n] = Between(content, longer[n])
    <3>1. entries'[m + 1] = ThisLine
      BY <2>5, <1>e, <1>6, <1>t
    <3>2. \A n \in 1..m : longer[n] = line[n] /\ entries'[n] = entries[n]
      BY <1>4, <2>5
    <3>3. \A n \in 1..(m + 1) : n \in 1..m \/ n = m + 1
      OBVIOUS
    <3>4. longer[m + 1] = this
      OBVIOUS
    <3> HIDE DEF longer, this
    <3> QED
      BY <3>1, <3>2, <3>3, <3>4, <2>1, <1>3
  <2>8. \A n \in 1..(m + 1), o \in 1..(m + 1) : n < o => longer[n][1] < longer[o][1]
    <3>1. \A n \in 1..m : longer[n] = line[n] /\ line[n][1] < line_start
      BY <2>4, <1>3
    <3>2. longer[m + 1][1] = line_start
      OBVIOUS
    <3>3. \A n \in 1..(m + 1) : n \in 1..m \/ n = m + 1
      OBVIOUS
    <3> HIDE DEF longer, this
    <3> QED
      BY <3>1, <3>2, <3>3, <1>3
  <2>9. \A l \in EntriesUpTo(pos + 1) : \E n \in 1..(m + 1) : longer[n] = l
    <3>1. longer[m + 1] = this /\ \A n \in 1..m : longer[n] = line[n]
      OBVIOUS
    <3> HIDE DEF longer, this
    <3> QED
      BY <3>1, <2>3, <1>3
  <2>10. MadeOf(m + 1, EntriesUpTo(line_start))'
    <3>1. EntriesUpTo(line_start)' = EntriesUpTo(pos + 1)
      BY <1>s DEF EntriesUpTo
    <3> HIDE DEF longer
    <3> QED
      BY <3>1, <2>6, <2>7, <2>8, <2>9, <1>s DEF MadeOf
  <2> QED
    BY <2>5, <2>10, <1>1, <1>t DEF Made
<1>7. CASE ~entry \/ pos > Available
  <2>1. EntriesUpTo(pos + 1) = EntriesUpTo(line_start)
    <3>a. \A l \in EntriesIn(Read) : l \in LinesIn(Read) /\ l[2] \in Nat
      BY <1>t, LinePlaces DEF EntriesIn
    <3>1. SUFFICES ASSUME NEW l \in EntriesUpTo(pos + 1), ~(l[2] <= line_start) PROVE FALSE
      BY <3>a, <1>t DEF EntriesUpTo
    <3>2. l \in LinesIn(Read) /\ l[2] \in Nat /\ l[2] > line_start /\ l[2] <= pos + 1
      BY <3>a, <3>1, <1>t DEF EntriesUpTo
    <3>3. pos <= Available /\ l = this
      BY <1>s, <1>t, <3>2, NoOtherLine
    <3>4. Between(Read, this) = ThisLine
      BY <1>s, <1>t, <3>3, ThisLineIsALine
    <3> QED
      BY <3>3, <3>4, <1>7, <1>t DEF EntriesUpTo, EntriesIn
  <2>2. MadeOf(m, EntriesUpTo(line_start))'
    <3>1. EntriesUpTo(line_start)' = EntriesUpTo(line_start)
      BY <2>1, <1>s DEF EntriesUpTo
    <3>2. \A n \in 1..m : entries'[n] = Between(content', line[n])
      BY <1>s, <1>3, <1>4
    <3> QED
      BY <3>1, <3>2, <1>3 DEF MadeOf
  <2>3. m \in 0..Len(entries')
    BY <1>5, <1>t
  <2>4. line_start' <= Available' + 1 => m = Len(entries')
    BY <1>2, <1>5, <1>7, <1>s, <1>t
  <2> QED
    BY <2>2, <2>3, <2>4, <1>1 DEF Made
<1> QED
  BY <1>6, <1>7, <1>t

\* A line that is entered or rejected ends where the walk is.
LEMMA StepInv == IInv /\ [ConfStep]_confVars => IInv'
<1> SUFFICES ASSUME IInv, [ConfStep]_confVars PROVE IInv'
  OBVIOUS
<1>m. WalkLine => Made'
  BY WalkLineMade
<1> USE DEF IInv
<1>t. /\ content \in Seq(Byte) /\ size \in Nat /\ buf \in Seq(Byte)
      /\ pos \in 0..(size + 1) /\ line_start \in 0..pos /\ entries \in Seq(Seq(Byte))
      /\ Available \in Nat /\ Available <= size /\ Available <= Len(content)
      /\ Len(content) \in Nat
  BY Sizes DEF ConfTypeOK
<1>1. CASE ReadSome
  <2>1. pos' \in Nat /\ pos' <= Available /\ buf' = SubSeq(content, 1, pos')
    BY <1>1, <1>t DEF ReadSome
  <2>2. buf' \in Seq(Byte)
    <3>1. \A k \in 1..pos' : content[k] \in Byte
      BY <2>1, <1>t, ElementOfSeq
    <3> QED
      BY <3>1, <2>1, SubSeqProperties
  <2> QED
    BY <1>1, <1>t, <2>1, <2>2 DEF ReadSome, ConfTypeOK, Available
<1>2. CASE ReadEnd
  <2>1. PICK rest \in Leftovers :
          Len(rest) = size - pos /\ buf' = Append(buf, Nul) \o rest
    BY <1>2 DEF ReadEnd
  <2>2. /\ pos = Available /\ buf = SubSeq(content, 1, pos) /\ line_start = 0 /\ entries = <<>>
        /\ confAt' = "walk" /\ pos' = 0 /\ content' = content /\ size' = size
        /\ line_start' = 0 /\ entries' = <<>> /\ Available' = Available /\ Read' = Read
    BY <1>2 DEF ReadEnd, Available, Read
  <2>3. buf = Read
    BY <2>2 DEF Read
  <2>4. /\ Len(buf) = Available /\ \A k \in 1..Available : buf[k] = content[k]
        /\ buf \in Seq(Byte)
    BY <2>3, Sizes
  <2>5. /\ Append(buf, Nul) \in Seq(Byte) /\ Len(Append(buf, Nul)) = Available + 1
        /\ Append(buf, Nul)[Available + 1] = Nul
        /\ \A k \in 1..Available : Append(buf, Nul)[k] = content[k]
    BY <2>4, <1>t DEF Byte
  <2>6. rest \in Seq(Byte)
    OBVIOUS
  <2>7. /\ buf' \in Seq(Byte) /\ Len(buf') = size + 1
        /\ \A k \in 1..(Available + 1) : buf'[k] = Append(buf, Nul)[k]
    <3> DEFINE read == Append(buf, Nul)
    <3>1. read \in Seq(Byte) /\ Len(read) = Available + 1 /\ Len(rest) = size - Available
          /\ buf' = read \o rest
      BY <2>1, <2>2, <2>5
    <3> HIDE DEF read
    <3>2. /\ buf' \in Seq(Byte) /\ Len(buf') = Len(read) + Len(rest)
          /\ \A k \in 1..Len(read) : buf'[k] = read[k]
      <4>1. /\ read \o rest \in Seq(Byte) /\ Len(read \o rest) = Len(read) + Len(rest)
            /\ \A k \in 1..(Len(read) + Len(rest)) :
                 (read \o rest)[k] = IF k <= Len(read) THEN read[k] ELSE rest[k - Len(read)]
        BY <3>1, <2>6, ConcatProperties
      <4> QED
        BY <3>1, <4>1, <1>t
    <3> QED
      BY <3>1, <3>2, <1>t DEF read
  <2>8. ConfTypeOK'
    BY <2>2, <2>7, <1>t DEF ConfTypeOK
  <2>9. Walking'
    BY <2>2, <2>5, <2>7, <1>t DEF Walking
  <2>10. Made'
    <3>1. \A l \in LinesIn(Read) : l[1] \in Nat /\ l[2] \in Nat /\ l[2] > 0
      <4>1. Ends(Read) \subseteq Nat
        BY Sizes DEF Ends
      <4> QED
        BY <4>1 DEF LinesIn
    <3>2. EntriesUpTo(0) = {} /\ \A l \in RejectedIn(Read) : l[2] > 0
      BY <3>1 DEF EntriesUpTo, EntriesIn, RejectedIn
    <3>3. EntriesUpTo(line_start)' = {} /\ RejectedIn(Read)' = RejectedIn(Read)
      BY <2>2, <3>2 DEF EntriesUpTo
    <3>4. MadeOf(0, EntriesUpTo(line_start))'
      <4> DEFINE none == [n \in 1..0 |-> 0]
      <4>1. none \in [1..0 -> EntriesUpTo(line_start)']
        OBVIOUS
      <4> HIDE DEF none
      <4> QED
        BY <4>1, <3>3 DEF MadeOf
    <3>5. Len(entries') = 0 /\ 0 \in 0..Len(entries')
      BY <2>2
    <3>6. \A l \in RejectedIn(Read)' : l[2] > line_start'
      BY <2>2, <3>2, <3>3
    <3> QED
      BY <3>4, <3>5, <3>6 DEF Made
  <2> QED
    BY <2>2, <2>8, <2>9, <2>10
<1>3. CASE WalkByte
  <2>1. Walking'
    <3>1. /\ Walking /\ buf' = buf /\ content' = content /\ size' = size /\ Available' = Available
          /\ line_start' = line_start /\ pos' = pos + 1 /\ ~End(pos + 1)
      BY <1>3 DEF WalkByte, End, EndOfLine, Available
    <3>2. \A k \in (line_start' + 1)..pos' : k \in (line_start + 1)..pos \/ k = pos + 1
      BY <3>1, <1>t
    <3>3. \A k : End(k)' = End(k)
      BY <3>1 DEF End
    <3>4. \A k \in (line_start' + 1)..pos' : ~End(k)'
      BY <3>1, <3>2, <3>3 DEF Walking
    <3> QED
      BY <3>1, <3>3, <3>4 DEF Walking
  <2>2. Made'
    BY <1>3, MadeKept DEF WalkByte
  <2>3. ConfTypeOK'
    BY <1>3, <1>t DEF WalkByte, ConfTypeOK, InBuffer
  <2> QED
    BY <1>3, <2>1, <2>2, <2>3 DEF WalkByte
<1>4. CASE WalkLine
  <2>1. Walking'
    <3>1. /\ Walking /\ buf' = buf /\ content' = content /\ size' = size /\ Available' = Available
          /\ line_start' = pos + 1 /\ pos' = pos + 1 /\ End(pos + 1)
      BY <1>4 DEF WalkLine, End, EndOfLine, Available
    <3>2. \A k \in (line_start' + 1)..pos' : FALSE
      BY <3>1, <1>t
    <3> QED
      BY <3>1, <3>2 DEF Walking, End
  <2>2. Made'
    BY <1>4, <1>m
  <2>3. ThisLine \in Seq(Byte)
    <3>1. \A k \in (line_start + 1)..pos : buf[k] \in Byte
      BY <1>4, <1>t, ElementOfSeq DEF WalkLine, InBuffer, Walking
    <3> QED
      BY <3>1, <1>t, SubSeqProperties DEF ThisLine
  <2>4. ConfTypeOK'
    BY <1>4, <1>t, <2>3 DEF WalkLine, ConfTypeOK, InBuffer
  <2> QED
    BY <1>4, <2>1, <2>2, <2>4 DEF WalkLine
<1>5. CASE WalkMalformed
  <2>1. ConfTypeOK' /\ confAt' = "malformed" /\ RejectedIn(Read)' = RejectedIn(Read)
        /\ size' = size /\ content' = content
    BY <1>5, <1>t DEF WalkMalformed, ConfTypeOK, Read, Available
  <2>2. SUFFICES ASSUME ~(size > Len(content)) PROVE RejectedIn(Read) # {}
    BY <2>1
  <2>3. pos <= Available /\ End(pos + 1) /\ Walking /\ ConfTypeOK
    BY <1>5, <1>t, <2>2 DEF WalkMalformed, InBuffer, EndOfLine, End, Available
  <2>4. <<line_start, pos + 1>> \in RejectedIn(Read)
    BY <2>3, <1>5, ThisLineIsALine DEF RejectedIn, WalkMalformed
  <2> QED
    BY <2>4
<1>6. CASE WalkEnd
  <2>1. Walking' /\ Made'
    <3>1. Walking'
      BY <1>6 DEF WalkEnd, Walking, End, Available
    <3>2. Made'
      BY <1>6, MadeKept DEF WalkEnd
    <3> QED
      BY <3>1, <3>2
  <2>2. ConfTypeOK' /\ pos' = size' + 1
    BY <1>6, <1>t DEF WalkEnd, ConfTypeOK, InBuffer
  <2> QED
    BY <1>6, <2>1, <2>2 DEF WalkEnd
<1>7. CASE ConfError
  <2>1. /\ confAt' = "fail" /\ entries' = <<>>
        /\ UNCHANGED <<content, size, buf, pos, line_start>>
    BY <1>7 DEF ConfError, Fail
  <2>2. ConfTypeOK'
    BY <2>1, <1>t DEF ConfTypeOK
  <2> QED
    BY <2>1, <2>2
<1>8. CASE UNCHANGED confVars
  <2>1. Made => Made'
    BY <1>8, MadeKept DEF confVars
  <2>2. Walking => Walking'
    BY <1>8 DEF confVars, Walking, End, Available
  <2>3. RejectedIn(Read)' = RejectedIn(Read) /\ ConfTypeOK'
    BY <1>8 DEF confVars, ConfTypeOK, Read, Available
  <2> QED
    <3>1. /\ confAt' = confAt /\ pos' = pos /\ size' = size /\ content' = content /\ buf' = buf
          /\ line_start' = line_start /\ entries' = entries /\ Available' = Available
      BY <1>8 DEF confVars, Available
    <3> HIDE DEF IInv
    <3>2. IInv
      OBVIOUS
    <3> QED
      BY <3>1, <3>2, <2>1, <2>2, <2>3 DEF IInv
<1> QED
  BY <1>1, <1>2, <1>3, <1>4, <1>5, <1>6, <1>7, <1>8 DEF ConfStep

\* The inductive invariant of the walk: the entries are those of the lines behind it.
THEOREM ConfInvariance == ConfSpec => []IInv
<1> QED
  BY InitInv, StepInv, PTL DEF ConfSpec

\* The variables keep their types: the walk reads no byte past the buffer (myinit.c 506-523).
THEOREM ConfTypeCorrect == ConfSpec => []ConfTypeOK
<1>1. IInv => ConfTypeOK
  BY DEF IInv
<1> QED
  BY ConfInvariance, <1>1, PTL

\* The configuration that is accepted is that of the file, unless the file became shorter
\* between fstat and read (myinit.c 458-525).
THEOREM ThEntriesOfTheFile == ConfSpec => []EntriesOfTheFile
<1>1. IInv => EntriesOfTheFile
  <2> SUFFICES ASSUME IInv PROVE EntriesOfTheFile
    OBVIOUS
  <2>1. CASE confAt = "ok"
    <3>1. ConfTypeOK /\ Walking /\ Made /\ pos = size + 1
      BY <2>1 DEF IInv
    <3>2. /\ pos > Available /\ Available \in Nat /\ line_start \in Nat /\ line_start <= pos
          /\ (size <= Len(content) => Available = size)
      BY <3>1, Sizes DEF ConfTypeOK, Available
    <3>3. \A l \in LinesIn(Read) : l[2] \in Nat /\ l[2] <= line_start
      BY <3>1, <3>2, PastTheEnd, EndsOfRead DEF LinesIn
    <3>4. RejectedIn(Read) = {}
      BY <3>1, <3>2, <3>3 DEF RejectedIn, Made
    <3>5. EntriesUpTo(line_start) = EntriesIn(Read)
      BY <3>3 DEF EntriesUpTo, EntriesIn
    <3>6. size <= Len(content) => line_start <= Available + 1
      BY <3>1, <3>2
    <3> QED
      BY <2>1, <3>1, <3>4, <3>5, <3>6 DEF EntriesOfTheFile, Made
  <2>2. CASE confAt # "ok"
    BY <2>2 DEF IInv, EntriesOfTheFile
  <2> QED
    BY <2>1, <2>2
<1> QED
  BY ConfInvariance, <1>1, PTL

=============================================================================
