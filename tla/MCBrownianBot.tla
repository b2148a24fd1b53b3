--------------------------- MODULE MCBrownianBot ---------------------------
(* Instances of BrownianBot for TLC: client.c on c1, test_client.c on the others. *)
EXTENDS BrownianBot

CONSTANTS c1, c2, c3

\* More clients than slots, one of which stops in the middle of its second line.
GoodInput == (c1 :> <<1, NL, 1, NL>>) @@ (c2 :> <<1, NL, 1>>) @@ (c3 :> <<1, NL>>)

\* With MaxLine = 1, the second line of each client is too long; that of client.c does not
\* fit in its buffer either, where FgetsMax = 2.
LongLineInput == (c1 :> <<1, NL, 1, 1, 1, NL>>) @@ (c2 :> <<1, NL, 1, 1, NL>>)

\* The input of client.c does not end in a newline.
UnterminatedInput == (c1 :> <<1, NL, 1>>) @@ (c2 :> <<1, NL>>)

=============================================================================
