---------------------------- MODULE BrownianBot ----------------------------
(***************************************************************************)
(* task4-brownian-bot as a whole: server.c with the two client programs.   *)
(*                                                                         *)
(* client.c reads stdin line by line, sends a line with one write and      *)
(* waits for the answer before the next.  test_client.c reads its file     *)
(* byte by byte, sends each byte with a write, and waits for an answer     *)
(* after each newline.  Both close their socket when the input ends or the *)
(* connection breaks.  Delays are steps that come late; the retries of     *)
(* test_client are its freedom to connect late.                            *)
(***************************************************************************)
EXTENDS BrownianServer

CONSTANTS
  Input,      \* per connection, what its client reads from stdin or its file
  LineClient, \* the connections made by client.c; the others are test_client's
  FgetsMax    \* how many bytes of a line client.c reads at once (sizeof(in_line) - 1)

ASSUME BotConstants ==
  /\ Input \in [Conn -> Seq(Digit \cup {NL, Other})]
  /\ LineClient \subseteq Conn
  /\ FgetsMax \in Nat \ {0}

\* A test starts finitely many clients.
ASSUME FiniteTest == IsFiniteSet(Conn)

VARIABLE prog \* per connection, where its client's main is

botVars == <<vars, prog>>

ProgEnd == {"ok", "error", "killed"}

BotInit ==
  /\ Init
  /\ prog = [c \in Conn |-> "connect"]

ProgGoto(c, from, to) ==
  /\ prog[c] = from
  /\ prog' = [prog EXCEPT ![c] = to]

ServerUnchanged == UNCHANGED vars

-----------------------------------------------------------------------------
(* The clients.                                                            *)

ProgConnect(c) == ProgGoto(c, "connect", "send") /\ Connect(c)

\* There is no server any more (clients start when it listens), and the attempts to connect are used up.
ProgConnectError(c) == at = "stopped" /\ ProgGoto(c, "connect", "error") /\ ServerUnchanged

Rest(c) == SubSeq(Input[c], Len(sent[c]) + 1, Len(Input[c]))

\* fgets: up to the next newline, to the end of the input, or as much as fits in in_line.
NextLine(c) ==
  SubSeq(Rest(c), 1, Min({k \in DOMAIN Rest(c) : Rest(c)[k] = NL} \cup {Len(Rest(c)), FgetsMax}))

\* Mutant: test_client.c waits after every byte.
AwaitsAlways(c, piece) == TRUE

\* client.c waits for an answer to whatever it has sent, test_client.c after a newline.
Awaits(c, piece) == c \in LineClient \/ Last(piece) = NL

ProgSend(c) ==
  /\ Rest(c) # <<>>
  /\ LET piece == IF c \in LineClient THEN NextLine(c) ELSE <<Head(Rest(c))>>
     IN  /\ Send(c, piece)
         /\ ProgGoto(c, "send", IF Awaits(c, piece) THEN "await" ELSE "send")

\* The write finds the connection closed.
ProgSendError(c) ==
  /\ Rest(c) # <<>>
  /\ server[c] = "closed"
  /\ ProgGoto(c, "send", "error")
  /\ Close(c)

ProgReceive(c) == ProgGoto(c, "await", "send") /\ Receive(c)

\* The read finds the end of the stream.
ProgReceiveError(c) ==
  /\ server[c] = "closed"
  /\ toClient[c] = <<>>
  /\ ProgGoto(c, "await", "error")
  /\ Close(c)

\* The input has ended.
ProgEndOfInput(c) ==
  /\ Rest(c) = <<>>
  /\ ProgGoto(c, "send", "ok")
  /\ Close(c)

Prog(c) ==
  \/ ProgConnect(c) \/ ProgConnectError(c)
  \/ ProgSend(c) \/ ProgSendError(c)
  \/ ProgReceive(c) \/ ProgReceiveError(c)
  \/ ProgEndOfInput(c)

\* A client is killed, or gives up over its own files (client.c 152-155, test_client.c 270-286);
\* the kernel closes its socket.
ProgKill(c) ==
  /\ prog[c] \in {"send", "await"}
  /\ prog' = [prog EXCEPT ![c] = "killed"]
  /\ Close(c)

-----------------------------------------------------------------------------

ServerStep == Server /\ UNCHANGED prog
ServerFault == (AcceptError \/ Signal) /\ UNCHANGED prog
BotEnded == Ended /\ UNCHANGED prog

ProgStep == \E c \in Conn : Prog(c)

QuietBotNext == ServerStep \/ ProgStep
BotNext == QuietBotNext \/ ServerFault \/ (\E c \in Conn : ProgKill(c)) \/ BotEnded

\* The server's thread and the clients are scheduled; nothing owes a fault.  No client
\* can run for ever, so that fairness to all of them together is fairness to each.
BotFairness == WF_botVars(ServerStep) /\ WF_botVars(ProgStep)

QuietBotSpec == BotInit /\ [][QuietBotNext]_botVars /\ BotFairness \* no signal, fault or kill
BotSpec      == BotInit /\ [][BotNext]_botVars /\ BotFairness

-----------------------------------------------------------------------------
(* Properties.                                                             *)

BotTypeOK == TypeOK /\ prog \in [Conn -> ProgEnd \cup {"connect", "send", "await"}]

LinesIn(bytes) == Cardinality({k \in DOMAIN bytes : bytes[k] = NL})

\* A client and the server never lose step: a client that is not waiting has an
\* answer for each line it sent, and one that waits is owed one
\* (client.c 137-147, test_client.c 248-265).
InStep ==
  \A c \in Conn :
    LET owed == LinesIn(sent[c]) - Len(got[c])
    IN  /\ prog[c] \in {"send", "ok"} => owed = 0
        /\ prog[c] = "await" => owed \in {0, 1}
        /\ prog[c] = "await" /\ owed = 0 => c \in LineClient

Asked(c) == Scanned(Input[c]).numbers

\* Once every client has ended well the state is the sum of all their numbers
\* (runme.sh TEST 1 for numbers without a sign: the state is the sum of the numbers sent).
FinalSum ==
  (\A c \in Conn : prog[c] = "ok") =>
    total = MapThenSumSet(LAMBDA c : FoldLeft(+, 0, Asked(c)), Conn)

\* A client that ended well was answered for every line of its input; one whose
\* input has a line the server rejects does not end well (client.c 141-147,
\* test_client.c 258-265, 287-288).
OkMeansAnswered ==
  \A c \in Conn :
    prog[c] = "ok" => Len(got[c]) = LinesIn(Input[c]) /\ ~Scanned(Input[c]).bad

\* Every client that has connected comes to an end, and the server then closes its
\* socket: sooner or later no client is in the middle (src/README.md 143: a client sends
\* a line and receives an answer; server.c 375-412, client.c 137-160,
\* test_client.c 248-322).
ClientsEnd ==
  []<>(\A c \in Conn : client[c] = "none" \/ (prog[c] \in ProgEnd /\ server[c] = "closed"))

\* SIGINT, SIGTERM or a failed accept end the server, whatever the clients do, none of which
\* sends for ever (server.c 281, 300-303, 324).
StopsWhenAsked == []<>(stopFlag => at = "stopped")

=============================================================================
