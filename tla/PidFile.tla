------------------------------ MODULE PidFile -------------------------------
(***************************************************************************)
(* task2-lock/lockprog.c reads a lock file back: verify_lock_file_owner    *)
(* reads the file into a buffer and parse_pid_file_content decides whether *)
(* it is a pid followed by one newline.  LockProg keeps of the file only   *)
(* whose pid it holds, or Garbage; this module is what stands behind that. *)
(*                                                                         *)
(* A character is a digit, that is its value, the newline, or Other.  One  *)
(* action is one turn of a loop.                                           *)
(***************************************************************************)
EXTENDS Integers, Sequences

CONSTANTS
  IntMax,     \* INT_MAX
  UllMax,     \* ULLONG_MAX, what acc can hold
  BufCap,     \* the size of buf
  NL, Other,  \* a newline; any other character that is no digit
  Texts,      \* bound: the contents a lock file may have
  Value(_, _) \* the number that the first k characters of a text are the digits of

Digit == 0..9
Char  == Digit \cup {NL, Other}

ASSUME PidFileConstants ==
  /\ IntMax \in Nat \ {0}
  /\ UllMax \in Nat
  /\ UllMax >= 10 * IntMax + 9
  /\ BufCap \in Nat
  /\ NL \notin Digit /\ Other \notin Digit /\ NL # Other

ASSUME TextsAreTexts == Texts \subseteq Seq(Char)

ASSUME DecimalValue ==
  \A s \in Texts :
    /\ Value(s, 0) = 0
    /\ \A k \in 1..Len(s) : s[k] \in Digit => Value(s, k) = 10 * Value(s, k - 1) + s[k]

VARIABLES
  text,    \* the content of the file
  pidAt,   \* where the parser is
  i,       \* the digits seen so far
  j,       \* the digits added up so far
  acc,     \* acc
  file_pid \* file_pid, 0 until it is written

pidVars == <<text, pidAt, i, j, acc, file_pid>>

PidInit ==
  /\ text \in Texts
  /\ pidAt = "read"
  /\ i = 0 /\ j = 0 /\ acc = 0 /\ file_pid = 0

\* read_full takes what fits; a further read that finds more makes it bad content, and
\* so does an empty file.
FitsInBuffer(s) == s # <<>> /\ Len(s) <= BufCap

ReadText ==
  /\ pidAt = "read"
  /\ pidAt' = IF FitsInBuffer(text) THEN "digits" ELSE "bad"
  /\ UNCHANGED <<text, i, j, acc, file_pid>>

AtDigit == i < Len(text) /\ text[i + 1] \in Digit

ScanDigit ==
  /\ pidAt = "digits"
  /\ AtDigit
  /\ i' = i + 1
  /\ UNCHANGED <<text, pidAt, j, acc, file_pid>>

\* After the digits there must be a newline, and nothing after it.
ScanEnds ==
  /\ pidAt = "digits"
  /\ ~AtDigit
  /\ pidAt' = IF i > 0 /\ i < Len(text) /\ text[i + 1] = NL /\ i + 1 = Len(text)
                THEN "add" ELSE "bad"
  /\ UNCHANGED <<text, i, j, acc, file_pid>>

\* Mutant: the limit is compared before the digit is added.
TooLargeBefore(n) == acc > IntMax

TooLarge(n) == n > IntMax

AddDigit ==
  /\ pidAt = "add"
  /\ j < i
  /\ LET n == 10 * acc + text[j + 1]
     IN  /\ acc' = n
         /\ IF TooLarge(n) THEN pidAt' = "bad" /\ UNCHANGED j
                           ELSE j' = j + 1 /\ UNCHANGED pidAt
  /\ UNCHANGED <<text, i, file_pid>>

AddEnds ==
  /\ pidAt = "add"
  /\ j = i
  /\ IF acc = 0 THEN pidAt' = "bad" /\ UNCHANGED file_pid
                ELSE pidAt' = "ok" /\ file_pid' = acc
  /\ UNCHANGED <<text, i, j, acc>>

PidStep == ReadText \/ ScanDigit \/ ScanEnds \/ AddDigit \/ AddEnds

PidDone == pidAt \in {"ok", "bad"}

PidSpec == PidInit /\ [][PidStep]_pidVars

-----------------------------------------------------------------------------
(* Properties.                                                             *)

PidTypeOK ==
  /\ text \in Seq(Char)
  /\ pidAt \in {"read", "digits", "add", "ok", "bad"}
  /\ i \in 0..Len(text) /\ j \in 0..i
  /\ acc \in Nat /\ file_pid \in Nat

\* "ASCII decimal PID followed by a single '\n', with no leading/trailing garbage"
\* (lockprog.c 193-196).
IsPidLine(s, n) ==
  /\ Len(s) > 1 /\ Len(s) <= BufCap
  /\ s[Len(s)] = NL
  /\ \A k \in 1..Len(s) - 1 : s[k] \in Digit
  /\ n = Value(s, Len(s) - 1)
  /\ n \in 1..IntMax

\* What is accepted is a pid line, and file_pid is the number in it, which fits in a pid_t
\* (lockprog.c 197-229).
AcceptsPidLines == pidAt = "ok" => IsPidLine(text, file_pid)

\* acc never leaves the type it is kept in, however long the digits are (lockprog.c 219-223).
AccFits == acc <= UllMax

\* The parser accepts all pid lines and nothing else, and does not overflow on its way: no
\* lock file is taken for that of another process, and none of its own is refused.
ParsedExactly ==
  /\ AcceptsPidLines
  /\ AccFits
  /\ pidAt = "bad" => ~IsPidLine(text, Value(text, Len(text) - 1))

=============================================================================
