-------------------------- MODULE SparseCopyProofs --------------------------
(***************************************************************************)
(* Proofs about SparseCopy, for every input, every block size and every    *)
(* way read and write divide their work.                                   *)
(***************************************************************************)
EXTENDS SparseCopy, SequenceTheorems, TLAPS

-----------------------------------------------------------------------------
(* What the operators on files return.                                     *)

LEMMA ResizedSeq ==
  ASSUME NEW f \in Seq(Byte), NEW size \in Nat
  PROVE  /\ Resized(f, size) \in Seq(Byte)
         /\ Len(Resized(f, size)) = size
         /\ \A i \in 1..size : Resized(f, size)[i] = IF i <= Len(f) THEN f[i] ELSE Zero
<1> DEFINE g == [i \in 1..size |-> IF i <= Len(f) THEN f[i] ELSE Zero]
<1>1. ASSUME NEW i \in 1..size
      PROVE  (IF i <= Len(f) THEN f[i] ELSE Zero) \in Byte
  <2>1. CASE i <= Len(f)
    BY <2>1, ElementOfSeq
  <2>2. CASE ~(i <= Len(f))
    BY <2>2 DEF Byte
  <2> QED BY <2>1, <2>2
<1>2. g \in [1..size -> Byte]
  BY <1>1
<1>3. g \in Seq(Byte) /\ Len(g) = size
  <2>1. g \in Seq(Byte)
    BY <1>2, SeqDef
  <2>2. DOMAIN g = 1..size
    OBVIOUS
  <2> QED BY <2>1, <2>2, LenProperties
<1> QED BY <1>3 DEF Resized

LEMMA OverwrittenSeq ==
  ASSUME NEW f \in Seq(Byte), NEW bytes \in Seq(Byte), NEW offset \in Nat, Len(f) <= offset,
         bytes # << >>
  PROVE  /\ Overwritten(f, offset, bytes) \in Seq(Byte)
         /\ Len(Overwritten(f, offset, bytes)) = offset + Len(bytes)
         /\ \A i \in 1..Len(f) : Overwritten(f, offset, bytes)[i] = f[i]
         /\ \A i \in Len(f) + 1..offset : Overwritten(f, offset, bytes)[i] = Zero
         /\ \A i \in 1..Len(bytes) : Overwritten(f, offset, bytes)[offset + i] = bytes[i]
<1> DEFINE size == Larger(Len(f), offset + Len(bytes))
           g == [i \in 1..size |->
                  IF offset < i /\ i <= offset + Len(bytes) THEN bytes[i - offset]
                  ELSE IF i <= Len(f) THEN f[i] ELSE Zero]
<1>1. /\ size \in Nat /\ Len(f) \in Nat /\ Len(bytes) \in Nat
      /\ size = offset + Len(bytes) /\ Len(bytes) # 0
  BY LenProperties, EmptySeq DEF Larger
<1>2. ASSUME NEW i \in 1..size
      PROVE  g[i] \in Byte
  <2>1. CASE offset < i /\ i <= offset + Len(bytes)
    <3>1. i - offset \in 1..Len(bytes)
      BY <1>1, <2>1
    <3> QED BY <2>1, <3>1, ElementOfSeq
  <2>2. CASE ~(offset < i /\ i <= offset + Len(bytes)) /\ i <= Len(f)
    BY <2>2, ElementOfSeq
  <2>3. CASE ~(offset < i /\ i <= offset + Len(bytes)) /\ ~(i <= Len(f))
    BY <2>3 DEF Byte
  <2> QED BY <2>1, <2>2, <2>3
<1>3. g \in [1..size -> Byte]
  BY <1>2
<1>4. g \in Seq(Byte) /\ Len(g) = size
  <2>1. g \in Seq(Byte)
    BY <1>1, <1>3, SeqDef
  <2>2. DOMAIN g = 1..size
    OBVIOUS
  <2> QED BY <1>1, <2>1, <2>2, LenProperties
<1>5. \A i \in 1..Len(f) : g[i] = f[i]
  BY <1>1
<1>6. \A i \in Len(f) + 1..offset : g[i] = Zero
  BY <1>1
<1>7. \A i \in 1..Len(bytes) : g[offset + i] = bytes[i]
  <2> SUFFICES ASSUME NEW i \in 1..Len(bytes) PROVE g[offset + i] = bytes[i]
    OBVIOUS
  <2>1. /\ offset + i \in 1..size /\ offset < offset + i
        /\ offset + i <= offset + Len(bytes) /\ (offset + i) - offset = i
    BY <1>1
  <2> QED BY <2>1
<1>8. g = Overwritten(f, offset, bytes)
  BY DEF Overwritten
<1> HIDE DEF g
<1> QED BY <1>1, <1>4, <1>5, <1>6, <1>7, <1>8

LEMMA SubSeqBytes ==
  ASSUME NEW f \in Seq(Byte), NEW from \in Nat, NEW n \in Nat, from + n <= Len(f)
  PROVE  /\ SubSeq(f, from + 1, from + n) \in Seq(Byte)
         /\ Len(SubSeq(f, from + 1, from + n)) = n
         /\ \A i \in 1..n : SubSeq(f, from + 1, from + n)[i] = f[from + i]
<1>1. \A i \in from + 1..from + n : f[i] \in Byte
  BY ElementOfSeq, LenProperties
<1>2. SubSeq(f, from + 1, from + n) = [i \in 1..n |-> f[i + (from + 1) - 1]]
  BY LenProperties
<1>3. [i \in 1..n |-> f[i + (from + 1) - 1]] \in [1..n -> Byte]
  BY <1>1
<1>4. SubSeq(f, from + 1, from + n) \in Seq(Byte)
  BY <1>2, <1>3, SeqDef
<1>5. Len(SubSeq(f, from + 1, from + n)) = n
  BY <1>2, <1>4, LenProperties
<1>6. ASSUME NEW i \in 1..n
      PROVE  SubSeq(f, from + 1, from + n)[i] = f[from + i]
  <2>1. i + (from + 1) - 1 = from + i
    OBVIOUS
  <2>2. [j \in 1..n |-> f[j + (from + 1) - 1]][i] = f[i + (from + 1) - 1]
    OBVIOUS
  <2> QED BY <1>2, <2>1, <2>2
<1> QED BY <1>4, <1>5, <1>6

-----------------------------------------------------------------------------
(* The inductive invariant.                                                *)

\* The offset of the output follows what was read of the input.
InStep ==
  /\ pc \in {"read", "skip", "truncate"} => position = logical_size
  /\ pc = "write" => position = logical_size + written
  /\ pc = "truncate" => logical_size = Len(input)

\* The block in memory is the next piece of the input, and only a block of zeroes is skipped.
BlockIsNext ==
  pc \in {"skip", "write"} =>
    /\ Len(buf) \in 1..block_size
    /\ logical_size + Len(buf) <= Len(input)
    /\ \A k \in 1..Len(buf) : buf[k] = input[logical_size + k]
    /\ pc = "skip" => \A k \in 1..Len(buf) : buf[k] = Zero
    /\ pc = "write" => \E k \in 1..Len(buf) : buf[k] # Zero

\* The output is a prefix of the input.
IsPrefix == Len(out) <= Len(input) /\ \A i \in 1..Len(out) : out[i] = input[i]

\* Up to its offset, what the output does not have yet is zero in the input.
HoleIsZero ==
  pc \in {"read", "skip", "write", "truncate"} =>
    /\ Len(out) <= position
    /\ \A i \in Len(out) + 1..position : input[i] = Zero

Finished == pc \in {"close", "done"} => out = input

IInv ==
  /\ TypeOK
  /\ InStep
  /\ BlockIsNext
  /\ IsPrefix
  /\ HoleIsZero
  /\ Finished
  /\ WritesNearData

LEMMA InputType ==
  ASSUME TypeOK
  PROVE  /\ input \in Seq(Byte) /\ Len(input) \in Nat /\ DOMAIN input = 1..Len(input)
         /\ Len(buf) \in Nat /\ Len(out) \in Nat
<1>1. input \in Seq(Byte)
  BY SparseCopyConstants DEF TypeOK, Byte
<1>2. Len(input) \in Nat /\ DOMAIN input = 1..Len(input)
  BY <1>1, LenProperties
<1>3. Len(buf) \in Nat /\ Len(out) \in Nat
  BY LenProperties DEF TypeOK
<1> QED BY <1>1, <1>2, <1>3

LEMMA InitIInv == Init => IInv
<1> SUFFICES ASSUME Init PROVE IInv
  OBVIOUS
<1>1. << >> \in Seq(Byte) /\ Len(<< >>) = 0
  BY EmptySeq
<1>2. input \in Seq(Byte) /\ Len(input) \in Nat
  BY SparseCopyConstants, LenProperties DEF Init, Byte
<1>3. TypeOK
  BY <1>1, <1>2 DEF Init, TypeOK
<1>4. InStep /\ BlockIsNext /\ IsPrefix /\ HoleIsZero /\ Finished /\ WritesNearData
  BY <1>1, <1>2 DEF Init, InStep, BlockIsNext, IsPrefix, HoleIsZero, Finished, WritesNearData
<1> QED BY <1>3, <1>4 DEF IInv

LEMMA ReadIInv ==
  ASSUME IInv, NEW n \in 1..block_size, Read(n)
  PROVE  IInv'
<1> USE DEF IInv
<1>1. /\ input \in Seq(Byte) /\ Len(input) \in Nat /\ DOMAIN input = 1..Len(input)
      /\ Len(buf) \in Nat /\ Len(out) \in Nat
  BY InputType
<1>2. block_size \in Nat /\ n \in Nat /\ n >= 1 /\ n <= block_size
  BY SparseCopyConstants
<1>3. logical_size \in Nat /\ logical_size + n <= Len(input)
  BY <1>1, <1>2 DEF Read, TypeOK
<1>4. /\ buf' \in Seq(Byte) /\ Len(buf') = n
      /\ \A k \in 1..n : buf'[k] = input[logical_size + k]
  BY <1>1, <1>2, <1>3, SubSeqBytes DEF Read
<1>5. /\ pc = "read" /\ pc' \in {"skip", "write"}
      /\ pc' = "skip" => \A k \in 1..n : buf'[k] = Zero
      /\ pc' = "write" => \E k \in 1..n : buf'[k] # Zero
  BY <1>4 DEF Read, block_is_all_zeroes
<1>6. /\ written' = 0 /\ input' = input /\ position' = position /\ out' = out
      /\ allocated' = allocated /\ logical_size' = logical_size
  BY DEF Read
<1>7. TypeOK'
  BY <1>4, <1>5, <1>6 DEF TypeOK
<1>8. InStep'
  BY <1>3, <1>5, <1>6 DEF InStep
<1>9. BlockIsNext'
  BY <1>2, <1>3, <1>4, <1>5, <1>6 DEF BlockIsNext
<1>10. IsPrefix' /\ HoleIsZero' /\ Finished' /\ WritesNearData'
  BY <1>5, <1>6 DEF IsPrefix, HoleIsZero, Finished, WritesNearData
<1> QED BY <1>7, <1>8, <1>9, <1>10

LEMMA SkipIInv ==
  ASSUME IInv, Skip
  PROVE  IInv'
<1> USE DEF IInv
<1>1. /\ input \in Seq(Byte) /\ Len(input) \in Nat
      /\ Len(buf) \in Nat /\ Len(out) \in Nat
  BY InputType
<1>2. /\ pc = "skip" /\ pc' = "read"
      /\ position = logical_size /\ position \in Nat
      /\ position' = logical_size + Len(buf) /\ logical_size' = logical_size + Len(buf)
      /\ input' = input /\ buf' = buf /\ written' = written /\ out' = out
      /\ allocated' = allocated
  BY DEF Skip, InStep, TypeOK
<1>3. /\ logical_size + Len(buf) <= Len(input)
      /\ \A k \in 1..Len(buf) : input[logical_size + k] = Zero
  BY <1>2 DEF BlockIsNext
<1>4. TypeOK'
  BY <1>1, <1>2, <1>3 DEF TypeOK
<1>5. InStep' /\ BlockIsNext' /\ IsPrefix' /\ Finished' /\ WritesNearData'
  BY <1>2 DEF InStep, BlockIsNext, IsPrefix, Finished, WritesNearData
<1>6. HoleIsZero'
  <2>1. Len(out) <= position' /\ Len(out) <= position
    BY <1>1, <1>2 DEF HoleIsZero
  <2>2. ASSUME NEW i \in Len(out) + 1..position'
        PROVE  input[i] = Zero
    <3>1. CASE i <= position
      BY <1>1, <1>2, <3>1 DEF HoleIsZero
    <3>2. CASE i > position
      <4>1. i - logical_size \in 1..Len(buf) /\ logical_size + (i - logical_size) = i
        BY <1>1, <1>2, <2>1, <3>2
      <4> QED BY <1>3, <4>1
    <3> QED BY <1>1, <1>2, <3>1, <3>2
  <2> QED BY <1>2, <2>1, <2>2 DEF HoleIsZero
<1> QED BY <1>4, <1>5, <1>6

LEMMA WriteIInv ==
  ASSUME IInv, NEW n \in 1..block_size, Write(n)
  PROVE  IInv'
<1> USE DEF IInv
<1> DEFINE piece == SubSeq(buf, written + 1, written + n)
<1>1. /\ input \in Seq(Byte) /\ Len(input) \in Nat /\ DOMAIN input = 1..Len(input)
      /\ Len(buf) \in Nat /\ Len(out) \in Nat
      /\ buf \in Seq(Byte) /\ out \in Seq(Byte) /\ allocated \subseteq Nat
  BY InputType DEF TypeOK
<1>2. block_size \in Nat /\ n \in Nat /\ n >= 1
  BY SparseCopyConstants
<1>3. /\ pc = "write" /\ pc' = "write"
      /\ written \in Nat /\ written + n <= Len(buf)
      /\ logical_size \in Nat /\ position = logical_size + written
      /\ position' = position + n /\ written' = written + n
      /\ out' = Overwritten(out, position, piece)
      /\ allocated' = allocated \cup (position + 1..position + n)
      /\ input' = input /\ buf' = buf /\ logical_size' = logical_size
  BY <1>1, <1>2 DEF Write, TypeOK, InStep
<1>4. /\ Len(buf) <= block_size /\ logical_size + Len(buf) <= Len(input)
      /\ \A k \in 1..Len(buf) : buf[k] = input[logical_size + k]
      /\ \E k \in 1..Len(buf) : buf[k] # Zero
  BY <1>3, <1>2 DEF BlockIsNext
<1>5. Len(out) <= position /\ \A i \in Len(out) + 1..position : input[i] = Zero
  BY <1>3 DEF HoleIsZero
<1>6. /\ piece \in Seq(Byte) /\ Len(piece) = n
      /\ \A k \in 1..n : piece[k] = buf[written + k]
  BY <1>1, <1>2, <1>3, SubSeqBytes
<1>7. position \in Nat /\ position + n <= Len(input)
  BY <1>1, <1>2, <1>3, <1>4
<1>8. /\ out' \in Seq(Byte) /\ Len(out') = position + n
      /\ \A i \in 1..Len(out) : out'[i] = out[i]
      /\ \A i \in Len(out) + 1..position : out'[i] = Zero
      /\ \A k \in 1..n : out'[position + k] = piece[k]
  <2> HIDE DEF piece
  <2>1. piece # << >>
    BY <1>2, <1>6, EmptySeq
  <2>2. /\ Overwritten(out, position, piece) \in Seq(Byte)
        /\ Len(Overwritten(out, position, piece)) = position + Len(piece)
        /\ \A i \in 1..Len(out) : Overwritten(out, position, piece)[i] = out[i]
        /\ \A i \in Len(out) + 1..position : Overwritten(out, position, piece)[i] = Zero
        /\ \A k \in 1..Len(piece) : Overwritten(out, position, piece)[position + k] = piece[k]
    BY <1>1, <1>5, <1>6, <1>7, <2>1, OverwrittenSeq
  <2> QED BY <1>3, <1>6, <2>2
<1> HIDE DEF piece
<1>9. TypeOK'
  <2>1. allocated' \subseteq Nat
    BY <1>1, <1>2, <1>3, <1>7
  <2>2. position' \in 0..Len(input) /\ written' \in 0..Len(buf)
    BY <1>1, <1>2, <1>3, <1>7
  <2> QED BY <1>3, <1>8, <2>1, <2>2 DEF TypeOK
<1>10. InStep'
  BY <1>2, <1>3 DEF InStep
<1>11. BlockIsNext'
  BY <1>3 DEF BlockIsNext
<1>12. IsPrefix'
  <2>1. ASSUME NEW i \in 1..Len(out')
        PROVE  out'[i] = input[i]
    <3>1. CASE i <= Len(out)
      BY <1>1, <1>8, <3>1 DEF IsPrefix
    <3>2. CASE i > Len(out) /\ i <= position
      <4>1. i \in Len(out) + 1..position
        BY <1>1, <1>7, <1>8, <3>2
      <4> QED BY <1>5, <1>8, <4>1
    <3>3. CASE i > position
      <4> DEFINE k == i - position
      <4>1. /\ k \in 1..n /\ i = position + k
            /\ written + k \in 1..Len(buf) /\ logical_size + (written + k) = i
        BY <1>1, <1>2, <1>3, <1>7, <1>8, <3>3
      <4>2. out'[i] = buf[written + k]
        BY <1>6, <1>8, <4>1
      <4>3. buf[written + k] = input[i]
        BY <1>4, <4>1
      <4> QED BY <4>2, <4>3
    <3> QED BY <1>1, <1>7, <3>1, <3>2, <3>3
  <2> QED BY <1>3, <1>7, <1>8, <2>1 DEF IsPrefix
<1>13. HoleIsZero'
  BY <1>2, <1>3, <1>7, <1>8 DEF HoleIsZero
<1>14. Finished'
  BY <1>3 DEF Finished
<1>15. WritesNearData'
  <2> SUFFICES ASSUME NEW i \in allocated'
               PROVE  \E j \in DOMAIN input :
                         input[j] # Zero /\ i < j + block_size /\ j < i + block_size
    BY <1>3 DEF WritesNearData
  <2>1. CASE i \in allocated
    BY <2>1 DEF WritesNearData
  <2>2. CASE i \in position + 1..position + n
    <3>1. PICK k \in 1..Len(buf) : buf[k] # Zero
      BY <1>4
    <3>2. logical_size + k \in DOMAIN input /\ input[logical_size + k] # Zero
      BY <1>1, <1>3, <1>4, <3>1
    <3>3. i < logical_size + k + block_size /\ logical_size + k < i + block_size
      BY <1>1, <1>2, <1>3, <1>4, <2>2
    <3> QED BY <3>2, <3>3
  <2> QED BY <1>3, <2>1, <2>2
<1> QED BY <1>9, <1>10, <1>11, <1>12, <1>13, <1>14, <1>15

LEMMA WrittenIInv ==
  ASSUME IInv, Written
  PROVE  IInv'
<1> USE DEF IInv
<1>1. Len(buf) \in Nat /\ Len(input) \in Nat
  BY InputType
<1>2. /\ pc = "write" /\ pc' = "read"
      /\ logical_size \in Nat /\ position' = position
      /\ position = logical_size + Len(buf) /\ logical_size' = logical_size + Len(buf)
      /\ input' = input /\ buf' = buf /\ written' = written /\ out' = out
      /\ allocated' = allocated
  BY <1>1 DEF Written, InStep, TypeOK
<1>3. logical_size + Len(buf) <= Len(input)
  BY <1>2 DEF BlockIsNext
<1>4. TypeOK'
  BY <1>1, <1>2, <1>3 DEF TypeOK
<1>5. InStep' /\ BlockIsNext' /\ IsPrefix' /\ HoleIsZero' /\ Finished' /\ WritesNearData'
  BY <1>2 DEF InStep, BlockIsNext, IsPrefix, HoleIsZero, Finished, WritesNearData
<1> QED BY <1>4, <1>5

LEMMA TruncateIInv ==
  ASSUME IInv, Truncate
  PROVE  IInv'
<1> USE DEF IInv
<1>1. /\ input \in Seq(Byte) /\ Len(input) \in Nat /\ Len(out) \in Nat
      /\ out \in Seq(Byte)
  BY InputType DEF TypeOK
<1>2. /\ pc = "truncate" /\ pc' = "close"
      /\ logical_size = Len(input) /\ position = Len(input)
      /\ out' = Resized(out, Len(input))
      /\ input' = input /\ buf' = buf /\ written' = written /\ position' = position
      /\ allocated' = allocated /\ logical_size' = logical_size
  BY DEF Truncate, InStep
<1>3. /\ out' \in Seq(Byte) /\ Len(out') = Len(input)
      /\ \A i \in 1..Len(input) : out'[i] = IF i <= Len(out) THEN out[i] ELSE Zero
  BY <1>1, <1>2, ResizedSeq
<1>4. \A i \in 1..Len(input) : out'[i] = input[i]
  <2> SUFFICES ASSUME NEW i \in 1..Len(input) PROVE out'[i] = input[i]
    OBVIOUS
  <2>1. CASE i <= Len(out)
    BY <1>1, <1>3, <2>1 DEF IsPrefix
  <2>2. CASE ~(i <= Len(out))
    <3>1. i \in Len(out) + 1..position
      BY <1>1, <1>2, <2>2
    <3>2. input[i] = Zero
      BY <1>2, <3>1 DEF HoleIsZero
    <3> QED BY <1>3, <2>2, <3>2
  <2> QED BY <2>1, <2>2
<1>5. out' = input
  BY <1>1, <1>3, <1>4, SeqEqual
<1>6. TypeOK'
  BY <1>2, <1>3 DEF TypeOK
<1>7. InStep' /\ BlockIsNext' /\ HoleIsZero' /\ WritesNearData'
  BY <1>2 DEF InStep, BlockIsNext, HoleIsZero, WritesNearData
<1>8. IsPrefix' /\ Finished'
  BY <1>1, <1>2, <1>5 DEF IsPrefix, Finished
<1> QED BY <1>6, <1>7, <1>8

LEMMA QuietIInv ==
  ASSUME IInv, EndOfInput \/ Close \/ Fail \/ UNCHANGED vars
  PROVE  IInv'
<1> USE DEF IInv
<1>1. /\ input' = input /\ buf' = buf /\ written' = written /\ position' = position
      /\ out' = out /\ allocated' = allocated /\ logical_size' = logical_size
  BY DEF EndOfInput, Close, Fail, vars
<1>2. TypeOK' /\ IsPrefix' /\ WritesNearData'
  BY <1>1 DEF EndOfInput, Close, Fail, vars, TypeOK, IsPrefix, WritesNearData
<1>3. CASE EndOfInput
  BY <1>1, <1>2, <1>3 DEF EndOfInput, InStep, BlockIsNext, HoleIsZero, Finished
<1>4. CASE Close
  BY <1>1, <1>2, <1>4 DEF Close, InStep, BlockIsNext, HoleIsZero, Finished
<1>5. CASE Fail
  BY <1>1, <1>2, <1>5 DEF Fail, InStep, BlockIsNext, HoleIsZero, Finished
<1>6. CASE UNCHANGED vars
  BY <1>1, <1>2, <1>6 DEF vars, InStep, BlockIsNext, HoleIsZero, Finished
<1> QED BY <1>3, <1>4, <1>5, <1>6

LEMMA StepIInv == IInv /\ [Next]_vars => IInv'
<1> SUFFICES ASSUME IInv, [Next]_vars PROVE IInv'
  OBVIOUS
<1>1. ASSUME NEW n \in 1..block_size, Read(n) PROVE IInv'
  BY <1>1, ReadIInv
<1>2. ASSUME NEW n \in 1..block_size, Write(n) PROVE IInv'
  BY <1>2, WriteIInv
<1>3. CASE Skip
  BY <1>3, SkipIInv
<1>4. CASE Written
  BY <1>4, WrittenIInv
<1>5. CASE Truncate
  BY <1>5, TruncateIInv
<1>6. CASE EndOfInput \/ Close \/ Fail \/ UNCHANGED vars
  BY <1>6, QuietIInv
<1> QED BY <1>1, <1>2, <1>3, <1>4, <1>5, <1>6 DEF Next, Copy, Stopped

-----------------------------------------------------------------------------
(* The theorems.                                                           *)

\* The invariant holds in every reachable state.
THEOREM Invariance == Spec => []IInv
BY InitIInv, StepIInv, PTL DEF Spec

\* The variables keep their types, and nothing moves past the end of the input.
THEOREM TypeCorrect == Spec => []TypeOK
<1>1. IInv => TypeOK
  BY DEF IInv
<1> QED BY <1>1, Invariance, PTL

\* A copy that succeeded is the input, byte for byte and in its size.
THEOREM ThExactCopy == Spec => []ExactCopy
<1>1. IInv => ExactCopy
  BY DEF IInv, Finished, ExactCopy
<1> QED BY <1>1, Invariance, PTL

\* A copy that failed is a prefix of the input.
THEOREM ThPrefixOnFailure == Spec => []PrefixOnFailure
<1>1. IInv => PrefixOnFailure
  BY DEF IInv, IsPrefix, PrefixOnFailure
<1> QED BY <1>1, Invariance, PTL

\* No byte is written further than a block from a byte that is not zero.
THEOREM ThWritesNearData == Spec => []WritesNearData
<1>1. IInv => WritesNearData
  BY DEF IInv
<1> QED BY <1>1, Invariance, PTL

=============================================================================
