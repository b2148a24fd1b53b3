----------------------------- MODULE MCParsers -----------------------------
(* The two parsers on every text of a kind, for TLC: a run parses either a lock file or a *)
(* configuration.                                                                         *)
EXTENDS PidFile, ConfigLines, SequencesExt

\* INT_MAX is 12 here: all texts of up to five characters of which two digits, and runs of
\* digits that are longer than any number and as long as the buffer and beyond.
ShortTexts == UNION {[1..n -> {0, 1, 2, NL, Other}] : n \in 0..4}
LongTexts  == {[k \in 1..n |-> IF k = n THEN NL ELSE 0] : n \in 5..8}
PidTexts   == ShortTexts \cup LongTexts

DecimalOf(s, k) == FoldLeft(LAMBDA n, d : IF d \in Digit THEN 10 * n + d ELSE n, 0, SubSeq(s, 1, k))

\* Entries of three tokens and of four, one token too many, a comment, blanks, a line too
\* short, paths that are not absolute, and a line that a NUL cuts in two.
B == Blank
S == Slash
LineTexts == {
  <<>>, <<B>>, <<S>>,
  <<S, B, S, B, S>>, <<B, S, B, B, S, B, S>>, <<S, B, Letter, B, S, B, S>>,
  <<S, B, S, B, S, B, S, B, S>>,
  <<Hash, B, S, B, S>>, <<B, Hash, Letter>>,
  <<Letter, B, S, B, S>>, <<S, B, S, B, Letter>>,
  <<S, B, S, Nul, B, S>> }

Joined(lines) == FlattenSeq([k \in DOMAIN lines |->
                   IF k = Len(lines) THEN lines[k] ELSE Append(lines[k], Newline)])
ConfigTexts == {Joined(<<a, b>>) : a, b \in LineTexts}

\* Memory that was never written may hold part of an older configuration.
OldBytes == {[k \in 1..n |-> Blank] : n \in 0..20} \cup {<<S, B, S, B, S>>, <<Newline, Letter, B, S, B, S>>}

PidIdle  == text = <<>> /\ pidAt = "idle" /\ i = 0 /\ j = 0 /\ acc = 0 /\ file_pid = 0
ConfIdle == /\ content = <<>> /\ size = 0 /\ confAt = "idle" /\ buf = <<>>
            /\ pos = 0 /\ line_start = 0 /\ entries = <<>>

Init == (PidInit /\ ConfIdle) \/ (ConfInit /\ PidIdle)

Done == (PidDone \/ ConfDone) /\ UNCHANGED <<pidVars, confVars>>

Next ==
  \/ PidStep /\ UNCHANGED confVars
  \/ ConfStep /\ UNCHANGED pidVars
  \/ Done

Spec == Init /\ [][Next]_<<pidVars, confVars>>

=============================================================================
