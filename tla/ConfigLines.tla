---------------------------- MODULE ConfigLines ----------------------------
(***************************************************************************)
(* task3-myinit/myinit.c reads its configuration: parse_config_file asks   *)
(* for the size of the file, reads that many bytes, puts a NUL after what  *)
(* it got, and walks the whole buffer for lines, which push_config_line    *)
(* turns into entries.  MyInit keeps of a file only which configuration it *)
(* is, or Unusable; this module is what stands behind that.                *)
(*                                                                         *)
(* The file may be replaced between fstat and read: it is then longer than *)
(* the buffer, or shorter, and what follows the NUL was never written.     *)
(* Positions count from 0, as in the code.                                 *)
(***************************************************************************)
EXTENDS Integers, Sequences, FiniteSets

CONSTANTS
  Blank,     \* a space or a tab
  Slash,     \* what an absolute path begins with
  Hash,      \* what a comment begins with
  Letter,    \* any other character
  Newline, Nul,
  Files,     \* bound: the contents the file may have
  Leftovers, \* bound: what memory that was never written may hold
  MaxTokens  \* the length of the array tokens

Byte == {Blank, Slash, Hash, Letter, Newline, Nul}

ASSUME ConfigConstants ==
  /\ Cardinality(Byte) = 6
  /\ Files \subseteq Seq(Byte)
  /\ Leftovers \subseteq Seq(Byte)
  /\ MaxTokens \in Nat

VARIABLES
  content,    \* the file as read finds it
  size,       \* st.st_size
  confAt,     \* where parse_config_file is
  buf,        \* what it has read, then the buffer the lines are looked for in
  pos,        \* pos
  line_start, \* line_start
  entries     \* cfg->entries, each the line it was made of

confVars == <<content, size, confAt, buf, pos, line_start, entries>>

\* The buffer is made for one file and filled from another, or from the same.
ConfInit ==
  /\ content \in Files
  /\ \E statted \in Files : size = Len(statted)
  /\ confAt = "read"
  /\ buf = <<>> /\ pos = 0 /\ line_start = 0 /\ entries = <<>>

-----------------------------------------------------------------------------
(* push_config_line.                                                       *)

\* Where the tokens of a line begin.
Tokens(line) == {k \in DOMAIN line : line[k] # Blank /\ (k = 1 \/ line[k - 1] = Blank)}

After(k, line) == {j \in Tokens(line) : j > k}

\* The program, the file for its input and the file for its output.
Program(k, line) == \A j \in Tokens(line) : k <= j
Path(k, line) == Program(k, line) \/ Cardinality(After(k, line)) <= 1

Comment(line) == \E k \in Tokens(line) : Program(k, line) /\ line[k] = Hash

Malformed(line) ==
  \/ Cardinality(Tokens(line)) > MaxTokens
  \/ \E k \in Tokens(line) : Path(k, line) /\ line[k] # Slash

Ignored(line) == Comment(line) \/ Cardinality(Tokens(line)) < 3

-----------------------------------------------------------------------------
(* parse_config_file.                                                      *)

Fail ==
  /\ confAt' = "fail"
  /\ entries' = <<>>
  /\ UNCHANGED <<content, size, buf, pos, line_start>>

\* open, fstat, malloc or read fails, or the memory of an entry.
ConfError == confAt \in {"read", "walk"} /\ Fail

Available == IF size < Len(content) THEN size ELSE Len(content)

\* One read, which may return less than it was asked for.
ReadSome ==
  /\ confAt = "read"
  /\ pos' \in (pos + 1)..Available
  /\ buf' = SubSeq(content, 1, pos')
  /\ UNCHANGED <<content, size, confAt, line_start, entries>>

\* The buffer is full or the file at its end.
ReadEnd ==
  /\ confAt = "read" /\ confAt' = "walk"
  /\ pos = Available
  /\ \E rest \in Leftovers :
       /\ Len(rest) = size - pos
       /\ buf' = Append(buf, Nul) \o rest
  /\ pos' = 0
  /\ UNCHANGED <<content, size, line_start, entries>>

\* Mutant: the NUL after the last byte is not looked at.
BeforeEnd == pos < size

InBuffer == pos <= size

EndOfLine == buf[pos + 1] \in {Newline, Nul}

WalkByte ==
  /\ confAt = "walk" /\ InBuffer
  /\ ~EndOfLine
  /\ pos' = pos + 1
  /\ UNCHANGED <<content, size, confAt, buf, line_start, entries>>

ThisLine == SubSeq(buf, line_start + 1, pos)

WalkLine ==
  /\ confAt = "walk" /\ InBuffer
  /\ EndOfLine
  /\ Ignored(ThisLine) \/ ~Malformed(ThisLine)
  /\ entries' = IF Ignored(ThisLine) THEN entries ELSE Append(entries, ThisLine)
  /\ pos' = pos + 1 /\ line_start' = pos + 1
  /\ UNCHANGED <<content, size, confAt, buf>>

WalkMalformed ==
  /\ confAt = "walk" /\ InBuffer
  /\ EndOfLine
  /\ ~Ignored(ThisLine) /\ Malformed(ThisLine)
  /\ confAt' = "malformed"
  /\ entries' = <<>>
  /\ UNCHANGED <<content, size, buf, pos, line_start>>

WalkEnd ==
  /\ confAt = "walk" /\ confAt' = "ok"
  /\ ~InBuffer
  /\ UNCHANGED <<content, size, buf, pos, line_start, entries>>

ConfStep ==
  ReadSome \/ ReadEnd \/ WalkByte \/ WalkLine \/ WalkMalformed \/ WalkEnd \/ ConfError

ConfDone == confAt \in {"ok", "malformed", "fail"}

ConfSpec == ConfInit /\ [][ConfStep]_confVars

-----------------------------------------------------------------------------
(* Properties.                                                             *)

ConfTypeOK ==
  /\ content \in Seq(Byte) /\ size \in Nat
  /\ confAt \in {"read", "walk", "ok", "malformed", "fail"}
  /\ buf \in Seq(Byte)
  /\ pos \in 0..(size + 1) /\ line_start \in 0..pos
  /\ entries \in Seq(Seq(Byte))

\* What read found of the file in the room there was.
Read == SubSeq(content, 1, Available)

\* A line of the text s lies between two neighbouring ends; what s ends in is a line too.
Ends(s) == {0, Len(s) + 1} \cup {k \in DOMAIN s : s[k] \in {Newline, Nul}}
LinesIn(s) ==
  {l \in Ends(s) \X Ends(s) : l[1] < l[2] /\ \A k \in Ends(s) : k <= l[1] \/ l[2] <= k}
Between(s, l) == SubSeq(s, l[1] + 1, l[2] - 1)
EntriesIn(s)  == {l \in LinesIn(s) : ~Ignored(Between(s, l)) /\ ~Malformed(Between(s, l))}
RejectedIn(s) == {l \in LinesIn(s) : ~Ignored(Between(s, l)) /\ Malformed(Between(s, l))}

\* The first m entries were made of the lines in a set, of each one, in their order.
MadeOf(m, lines) ==
  \E line \in [1..m -> lines] :
    /\ \A n \in 1..m : entries[n] = Between(content, line[n])
    /\ \A n \in 1..m, o \in 1..m : n < o => line[n][1] < line[o][1]
    /\ \A l \in lines : \E n \in 1..m : line[n] = l

\* A configuration that is accepted has the entries of the bytes that were read, all of
\* them, in their order, and no others unless the file became shorter; one that is
\* rejected has a malformed line, with the same exception (myinit.c 485-524).
EntriesOfTheFile ==
  /\ confAt = "ok" =>
       /\ RejectedIn(Read) = {}
       /\ \E m \in 0..Len(entries) :
            MadeOf(m, EntriesIn(Read)) /\ (size <= Len(content) => m = Len(entries))
  /\ confAt = "malformed" => RejectedIn(Read) # {} \/ size > Len(content)

=============================================================================
