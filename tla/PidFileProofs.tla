--------------------------- MODULE PidFileProofs ---------------------------
(***************************************************************************)
(* PidFile parses exactly the pid lines, for every INT_MAX, every size of  *)
(* the buffer and every content of the file.                               *)
(***************************************************************************)
EXTENDS PidFile, WellFoundedInduction, TLAPS

\* A number does not become smaller when a digit follows.
LEMMA DigitFollows ==
  ASSUME NEW a \in Nat, NEW d \in 0..9
  PROVE  10 * a + d \in Nat /\ 10 * a + d >= a
  OBVIOUS

\* A set of natural numbers that is not empty has a least element.
LEMMA LeastNat ==
  ASSUME NEW T \in SUBSET Nat, T # {}
  PROVE  \E m \in T : \A n \in T : m <= n
<1>1. PICK m \in T : \A n \in T : <<n, m>> \notin OpToRel(<, Nat)
  BY NatLessThanWellFounded, WFMin
<1>2. \A n \in T : ~(n < m)
  BY <1>1 DEF OpToRel
<1> QED
  BY <1>2

USE PidFileConstants

\* Nor does the number that digits stand for when digits follow.
LEMMA ValueGrows ==
  ASSUME NEW s \in Texts, NEW low \in Nat, NEW high \in Nat,
         low <= high, high <= Len(s), s \in Seq(Char),
         \A k \in 1..high : s[k] \in Digit,
         Value(s, low) \in Nat
  PROVE  Value(s, high) \in Nat /\ Value(s, high) >= Value(s, low)
<1> DEFINE Bad == {k \in low..high : ~(Value(s, k) \in Nat /\ Value(s, k) >= Value(s, low))}
<1>1. SUFFICES ASSUME Bad # {} PROVE FALSE
  OBVIOUS
<1>2. Bad \in SUBSET Nat
  OBVIOUS
<1>3. PICK m \in Bad : \A n \in Bad : m <= n
  BY <1>1, <1>2, LeastNat
<1>4. m # low
  OBVIOUS
<1>5. m \in 1..high /\ m - 1 \in low..high
  BY <1>4
<1>6. m - 1 \notin Bad
  BY <1>3, <1>5
<1>7. Value(s, m - 1) \in Nat /\ Value(s, m - 1) >= Value(s, low)
  BY <1>5, <1>6
<1>8. s[m] \in Digit /\ Len(s) \in Nat
  BY <1>5
<1>9. Value(s, m) = 10 * Value(s, m - 1) + s[m]
  BY <1>5, <1>8, DecimalValue
<1>10. Value(s, m) \in Nat /\ Value(s, m) >= Value(s, m - 1)
  <2>1. s[m] \in 0..9
    BY <1>8 DEF Digit
  <2> DEFINE a == Value(s, m - 1)
  <2>2. a \in Nat /\ Value(s, m) = 10 * a + s[m]
    BY <1>7, <1>9
  <2>3. 10 * a + s[m] \in Nat /\ 10 * a + s[m] >= a
    <3> HIDE DEF a
    <3> QED
      BY <2>1, <2>2, DigitFollows
  <2> QED
    BY <2>2, <2>3
<1> QED
  BY <1>7, <1>10

-----------------------------------------------------------------------------

\* What the loops know: the first i characters are digits, acc is the number that the first
\* j of them stand for, and nothing but a pid line gets to the second loop.
Scanned ==
  /\ PidTypeOK
  /\ text \in Texts
  /\ \A k \in 1..i : text[k] \in Digit
  /\ pidAt = "read" => i = 0 /\ j = 0 /\ acc = 0
  /\ pidAt = "digits" => FitsInBuffer(text) /\ j = 0 /\ acc = 0
  /\ pidAt \in {"add", "ok"} =>
       /\ FitsInBuffer(text)
       /\ i > 0 /\ i + 1 = Len(text) /\ text[i + 1] = NL
       /\ acc = Value(text, j) /\ acc <= IntMax
  /\ pidAt = "ok" => j = i /\ acc # 0 /\ file_pid = acc
  /\ acc <= UllMax

IInv == Scanned /\ ParsedExactly

LEMMA InitInv == PidInit => IInv
<1> SUFFICES ASSUME PidInit PROVE IInv
  OBVIOUS
<1>1. PidTypeOK /\ text \in Texts
  BY TextsAreTexts DEF PidInit, PidTypeOK
<1>2. acc <= UllMax
  BY DEF PidInit
<1> QED
  BY <1>1, <1>2 DEF PidInit, IInv, Scanned, ParsedExactly, AcceptsPidLines, AccFits

\* The first loop stops at a character that is no digit.
LEMMA NotAPidLine ==
  ASSUME Scanned, pidAt = "digits", ~AtDigit, NEW n, IsPidLine(text, n)
  PROVE  i > 0 /\ i < Len(text) /\ text[i + 1] = NL /\ i + 1 = Len(text)
<1>1. Len(text) \in Nat /\ i \in 0..Len(text)
  BY DEF Scanned, PidTypeOK
<1>2. i < Len(text)
  <2>1. SUFFICES ASSUME i = Len(text) PROVE FALSE
    BY <1>1
  <2>2. text[Len(text)] \in Digit
    BY <2>1, <1>1 DEF Scanned, IsPidLine
  <2> QED
    BY <2>2 DEF IsPidLine
<1>3. text[i + 1] \notin Digit
  BY <1>2 DEF AtDigit
<1>4. i + 1 = Len(text)
  BY <1>1, <1>2, <1>3 DEF IsPidLine
<1>5. Len(text) > 1 /\ text[Len(text)] = NL
  BY DEF IsPidLine
<1>6. i > 0
  BY <1>1, <1>4, <1>5
<1> QED
  BY <1>2, <1>4, <1>5, <1>6

LEMMA StepInv == IInv /\ [PidStep]_pidVars => IInv'
<1> SUFFICES ASSUME IInv, [PidStep]_pidVars PROVE IInv'
  OBVIOUS
<1>t. /\ text \in Seq(Char) /\ Len(text) \in Nat
      /\ i \in 0..Len(text) /\ j \in 0..i /\ acc \in Nat /\ file_pid \in Nat
  BY DEF IInv, Scanned, PidTypeOK
<1>1. CASE ReadText
  <2>1. Scanned'
    BY <1>1 DEF IInv, Scanned, PidTypeOK, ReadText, FitsInBuffer
  <2>2. pidAt' = "bad" => ~IsPidLine(text, Value(text, Len(text) - 1))
    BY <1>1, <1>t DEF ReadText, FitsInBuffer, IsPidLine
  <2> QED
    BY <1>1, <2>1, <2>2 DEF IInv, Scanned, ParsedExactly, AcceptsPidLines, AccFits, ReadText
<1>2. CASE ScanDigit
  <2>1. Scanned'
    BY <1>2, <1>t DEF IInv, Scanned, PidTypeOK, ScanDigit, AtDigit
  <2> QED
    BY <1>2, <2>1 DEF IInv, Scanned, ParsedExactly, AcceptsPidLines, AccFits, ScanDigit
<1>3. CASE ScanEnds
  <2>1. Value(text, 0) = 0
    BY DecimalValue DEF IInv, Scanned
  <2>2. Scanned'
    BY <1>3, <1>t, <2>1 DEF IInv, Scanned, PidTypeOK, ScanEnds
  <2>3. pidAt' = "bad" => ~IsPidLine(text, Value(text, Len(text) - 1))
    BY <1>3, NotAPidLine DEF IInv, ScanEnds
  <2>4. text' = text /\ pidAt' # "ok"
    BY <1>3 DEF ScanEnds
  <2> QED
    BY <2>2, <2>3, <2>4 DEF IInv, Scanned, ParsedExactly, AcceptsPidLines, AccFits
<1>4. CASE AddDigit
  <2> DEFINE n == 10 * acc + text[j + 1]
  <2>1. /\ pidAt = "add" /\ j < i /\ acc' = n
        /\ text' = text /\ i' = i /\ file_pid' = file_pid
        /\ TooLarge(n) => pidAt' = "bad" /\ j' = j
        /\ ~TooLarge(n) => pidAt' = pidAt /\ j' = j + 1
    BY <1>4 DEF AddDigit
  <2>2. j + 1 \in 1..i /\ j + 1 \in 1..Len(text) /\ text[j + 1] \in Digit
    BY <2>1, <1>t DEF IInv, Scanned
  <2>3. n = Value(text, j + 1)
    <3>1. Value(text, j + 1) = 10 * Value(text, (j + 1) - 1) + text[j + 1]
      BY <2>2, DecimalValue DEF IInv, Scanned
    <3> QED
      BY <3>1, <2>1, <1>t DEF IInv, Scanned
  <2>4. n \in Nat /\ n <= 10 * IntMax + 9
    <3>1. acc <= IntMax /\ acc \in Nat /\ IntMax \in Nat
      BY <2>1, <1>t DEF IInv, Scanned
    <3>2. text[j + 1] \in 0..9
      BY <2>2 DEF Digit
    <3> QED
      BY <3>1, <3>2
  <2>5. PidTypeOK' /\ text' \in Texts /\ (\A k \in 1..i' : text'[k] \in Digit)
    <3>1. j' \in 0..i' /\ pidAt' \in {"add", "bad"}
      BY <2>1, <2>2, <1>t
    <3> HIDE DEF n
    <3> QED
      BY <3>1, <2>1, <2>4, <1>t DEF IInv, Scanned, PidTypeOK
  <2>6. Scanned'
    <3>1. acc' <= UllMax
      BY <2>1, <2>4
    <3>2. pidAt' = "add" => acc' = Value(text', j') /\ acc' <= IntMax
      <4> HIDE DEF n
      <4> QED
        BY <2>1, <2>3, <2>4 DEF TooLarge
    <3>3. pidAt' \in {"add", "bad"}
      BY <2>1
    <3> HIDE DEF n
    <3> QED
      BY <2>1, <2>5, <3>1, <3>2, <3>3 DEF IInv, Scanned
  <2>7. pidAt' = "bad" => ~IsPidLine(text, Value(text, Len(text) - 1))
    <3>1. SUFFICES ASSUME TooLarge(n) PROVE ~(Value(text, Len(text) - 1) \in 1..IntMax)
      BY <2>1 DEF IsPidLine
    <3>2. i = Len(text) - 1 /\ text \in Texts /\ \A k \in 1..i : text[k] \in Digit
      BY <2>1, <1>t DEF IInv, Scanned
    <3>3. Value(text, i) >= Value(text, j + 1) /\ Value(text, i) \in Nat
      <4>1. j + 1 \in Nat /\ i \in Nat /\ j + 1 <= i /\ i <= Len(text)
        BY <1>t, <2>1
      <4>2. Value(text, j + 1) \in Nat
        BY <2>3, <2>4
      <4> QED
        BY <4>1, <4>2, <3>2, <1>t, ValueGrows
    <3>4. Value(text, i) > IntMax
      <4> HIDE DEF n
      <4> QED
        BY <3>1, <3>3, <2>3, <2>4 DEF TooLarge
    <3> QED
      BY <3>2, <3>3, <3>4
  <2> QED
    BY <2>1, <2>6, <2>7 DEF IInv, Scanned, ParsedExactly, AcceptsPidLines, AccFits
<1>5. CASE AddEnds
  <2>1. Scanned'
    BY <1>5, <1>t DEF IInv, Scanned, PidTypeOK, AddEnds
  <2>2. /\ text' = text /\ i = Len(text) - 1 /\ acc = Value(text, Len(text) - 1)
        /\ acc <= IntMax
    BY <1>5, <1>t DEF IInv, Scanned, AddEnds
  <2>3. pidAt' = "bad" => ~IsPidLine(text, Value(text, Len(text) - 1))
    BY <1>5, <2>2 DEF AddEnds, IsPidLine
  <2>4. pidAt' = "ok" => IsPidLine(text', file_pid')
    <3>1. SUFFICES ASSUME pidAt' = "ok" PROVE IsPidLine(text, acc)
      BY <1>5, <2>2 DEF AddEnds
    <3>2. acc \in 1..IntMax
      BY <1>5, <3>1, <2>2, <1>t DEF AddEnds
    <3>3. /\ FitsInBuffer(text) /\ i > 0 /\ i + 1 = Len(text) /\ text[i + 1] = NL
          /\ \A k \in 1..i : text[k] \in Digit
      BY <1>5 DEF AddEnds, IInv, Scanned
    <3> QED
      BY <3>2, <3>3, <2>2, <1>t DEF IsPidLine, FitsInBuffer
  <2> QED
    BY <2>1, <2>2, <2>3, <2>4 DEF IInv, Scanned, ParsedExactly, AcceptsPidLines, AccFits
<1>6. CASE UNCHANGED pidVars
  BY <1>6 DEF pidVars, IInv, Scanned, PidTypeOK, ParsedExactly, AcceptsPidLines, AccFits,
              IsPidLine, FitsInBuffer
<1> QED
  BY <1>1, <1>2, <1>3, <1>4, <1>5, <1>6 DEF PidStep

\* The inductive invariant of the parser: what each loop has seen and added up.
THEOREM PidInvariance == PidSpec => []IInv
<1> QED
  BY InitInv, StepInv, PTL DEF PidSpec

\* The variables keep their types: no loop runs past the end of the text.
THEOREM PidTypeCorrect == PidSpec => []PidTypeOK
<1>1. IInv => PidTypeOK
  BY DEF IInv, Scanned
<1> QED
  BY PidInvariance, <1>1, PTL

\* Of all texts the parser accepts the pid lines and no other, reports the number in them,
\* and never adds a digit to an acc that would overflow (lockprog.c 193-231, 241-294).
THEOREM ThParsedExactly == PidSpec => []ParsedExactly
<1>1. IInv => ParsedExactly
  BY DEF IInv
<1> QED
  BY PidInvariance, <1>1, PTL

=============================================================================
