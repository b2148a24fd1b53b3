------------------------- MODULE MCBrownianServer --------------------------
(* Instances of BrownianServer for TLC. *)
EXTENDS BrownianServer

\* Every sequence of up to five bytes; with MaxLine = 2 they make lines that are
\* taken, left unfinished, too long, empty, and not a number.
AllScripts == UNION {[1..n -> {1, NL, Other}] : n \in 1..5}

\* One line, and one line with the next begun.
LineScripts == {<<1, NL>>}

\* Sound where no temporal property is checked: the connections are interchangeable.
ConnSymmetry == Permutations(Conn)

=============================================================================
