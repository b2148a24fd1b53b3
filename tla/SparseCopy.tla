----------------------------- MODULE SparseCopy -----------------------------
(***************************************************************************)
(* task1-sparse/myprogram.c: copies a file block by block, and seeks over  *)
(* the blocks that are all zeroes, so that the copy has holes there.       *)
(*                                                                         *)
(* read and write may move fewer bytes than they are asked to, and any     *)
(* system call may fail.  A read that is interrupted is tried again, as is *)
(* a write: neither changes the state.  Positions in a file count from 1.  *)
(***************************************************************************)
EXTENDS Naturals, Sequences

CONSTANTS
  Zero,       \* the byte 0, which is what a hole reads as
  Data,       \* the other bytes
  Inputs,     \* contents of the input
  block_size  \* what is asked of each read

ASSUME SparseCopyConstants ==
  /\ Zero \notin Data
  /\ Inputs \subseteq Seq({Zero} \cup Data)
  /\ block_size \in Nat \ {0}

VARIABLES
  pc,           \* where main is
  input,        \* the content of the input
  buf,          \* the bytes of the last read
  written,      \* how many of them full_write has written
  position,     \* the offset of out_fd, where the next write goes
  out,          \* the content of the output
  allocated,    \* the positions of the output that were written
  logical_size  \* how many bytes were copied

vars == <<pc, input, buf, written, position, out, allocated, logical_size>>

Byte == {Zero} \cup Data

Init ==
  /\ pc = "read"
  /\ input \in Inputs
  /\ buf = << >> /\ written = 0
  /\ position = 0
  /\ out = << >> /\ allocated = {}
  /\ logical_size = 0

-----------------------------------------------------------------------------

\* Mutant: every block is written.
never_a_hole(bytes) == FALSE

block_is_all_zeroes(bytes) == \A i \in 1..Len(bytes) : bytes[i] = Zero

\* The content of a file of the given size that agrees with f: longer, it ends in a hole.
Resized(f, size) == [i \in 1..size |-> IF i <= Len(f) THEN f[i] ELSE Zero]

Larger(a, b) == IF a > b THEN a ELSE b

\* The content of f after bytes were written at an offset.
Overwritten(f, offset, bytes) ==
  [i \in 1..Larger(Len(f), offset + Len(bytes)) |->
     IF offset < i /\ i <= offset + Len(bytes) THEN bytes[i - offset]
     ELSE IF i <= Len(f) THEN f[i] ELSE Zero]

\* The bytes of the input from the position of in_fd, which is logical_size between blocks.
Read(n) ==
  /\ pc = "read"
  /\ n <= Len(input) - logical_size
  /\ buf' = SubSeq(input, logical_size + 1, logical_size + n)
  /\ written' = 0
  /\ pc' = IF block_is_all_zeroes(buf') THEN "skip" ELSE "write"
  /\ UNCHANGED <<input, position, out, allocated, logical_size>>

\* Mutant: the hole is as long as what was asked for, not as what was read.
SkipWhole ==
  /\ pc = "skip" /\ pc' = "read"
  /\ position' = position + block_size
  /\ logical_size' = logical_size + Len(buf)
  /\ UNCHANGED <<input, buf, written, out, allocated>>

Skip ==
  /\ pc = "skip" /\ pc' = "read"
  /\ position' = position + Len(buf)
  /\ logical_size' = logical_size + Len(buf)
  /\ UNCHANGED <<input, buf, written, out, allocated>>

\* Mutant: a short write is followed by one of the whole block.
WriteFromStart(n) ==
  /\ pc = "write"
  /\ n <= Len(buf) - written
  /\ out' = Overwritten(out, position, SubSeq(buf, 1, n))
  /\ allocated' = allocated \cup (position + 1..position + n)
  /\ position' = position + n
  /\ written' = written + n
  /\ UNCHANGED <<pc, input, buf, logical_size>>

\* One write of full_write.
Write(n) ==
  /\ pc = "write"
  /\ n <= Len(buf) - written
  /\ out' = Overwritten(out, position, SubSeq(buf, written + 1, written + n))
  /\ allocated' = allocated \cup (position + 1..position + n)
  /\ position' = position + n
  /\ written' = written + n
  /\ UNCHANGED <<pc, input, buf, logical_size>>

Written ==
  /\ pc = "write" /\ pc' = "read"
  /\ written = Len(buf)
  /\ logical_size' = logical_size + Len(buf)
  /\ UNCHANGED <<input, buf, written, position, out, allocated>>

EndOfInput ==
  /\ pc = "read" /\ pc' = "truncate"
  /\ logical_size = Len(input)
  /\ UNCHANGED <<input, buf, written, position, out, allocated, logical_size>>

\* Mutant: the copy ends where the last write ended.
NotTruncated ==
  /\ pc = "truncate" /\ pc' = "close"
  /\ UNCHANGED <<input, buf, written, position, out, allocated, logical_size>>

Truncate ==
  /\ pc = "truncate" /\ pc' = "close"
  /\ out' = Resized(out, logical_size)
  /\ UNCHANGED <<input, buf, written, position, allocated, logical_size>>

Close ==
  /\ pc = "close" /\ pc' = "done"
  /\ UNCHANGED <<input, buf, written, position, out, allocated, logical_size>>

\* read, lseek, write, ftruncate or close fails, and die exits.
Fail ==
  /\ pc \in {"read", "skip", "write", "truncate", "close"} /\ pc' = "failed"
  /\ pc = "write" => written < Len(buf)
  /\ UNCHANGED <<input, buf, written, position, out, allocated, logical_size>>

Copy ==
  \/ \E n \in 1..block_size : Read(n) \/ Write(n)
  \/ Skip \/ Written \/ EndOfInput \/ Truncate \/ Close

Stopped == pc \in {"done", "failed"} /\ UNCHANGED vars

Next == Copy \/ Fail \/ Stopped

Spec == Init /\ [][Next]_vars

-----------------------------------------------------------------------------
(* Properties.                                                             *)

\* The variables have their types, and nothing moves past the end of the input.
TypeOK ==
  /\ pc \in {"read", "skip", "write", "truncate", "close", "done", "failed"}
  /\ input \in Inputs
  /\ buf \in Seq(Byte)
  /\ written \in 0..Len(buf)
  /\ position \in 0..Len(input)
  /\ out \in Seq(Byte)
  /\ allocated \subseteq Nat
  /\ logical_size \in 0..Len(input)

\* runme.sh: "content preserved".  A copy that succeeded has the bytes of the input and its
\* size, also when the input ends in a hole, and whatever the short reads and writes were.
ExactCopy == pc = "done" => out = input

\* What a copy that failed leaves behind is a prefix of the input.
PrefixOnFailure ==
  pc = "failed" => Len(out) <= Len(input) /\ \A i \in 1..Len(out) : out[i] = input[i]

\* README.md: blocks of zeroes are skipped.  A byte is written only within a block's length of a
\* byte that is not zero, however the reads cut the input into pieces.
WritesNearData ==
  \A i \in allocated :
    \E j \in DOMAIN input : input[j] # Zero /\ i < j + block_size /\ j < i + block_size

=============================================================================
