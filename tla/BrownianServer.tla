-------------------------- MODULE BrownianServer ---------------------------
(***************************************************************************)
(* task4-brownian-bot/server.c: one thread that serves many connections    *)
(* with poll.  A client sends lines with numbers; the server adds each to  *)
(* one running total and answers with the new total.                       *)
(*                                                                         *)
(* An iteration of the loop is Poll (build pfds, wait), AcceptOne until    *)
(* the backlog is empty, then per occupied slot a ReadChunk for each recv  *)
(* and a FinishSlot.  pfds has one entry per slot that was occupied when   *)
(* it was built, and is read with a counter that is advanced once per slot *)
(* that is occupied now: this module keeps the array, the counter and what *)
(* earlier iterations or the stack left in the entries, so that it shows   *)
(* what a connection accepted in between does to the match.                *)
(*                                                                         *)
(* A byte is a digit, a newline, or Other, a byte that makes strtol reject *)
(* its line.  Of the lines that strtol takes only the unsigned ones are    *)
(* here: signs, leading blanks, a carriage return at the end and a NUL in  *)
(* the middle are left out.  A reply is one unit: how a send is cut up     *)
(* only decides when the rest follows.                                     *)
(*                                                                         *)
(* What the clients do is left open here: a peer connects, sends bytes of  *)
(* these kinds, reads when it likes, and shuts down or closes when it     *)
(* likes.                                                                  *)
(***************************************************************************)
EXTENDS Naturals, Sequences, FiniteSets, SequencesExt, FiniteSetsExt

CONSTANTS
  Conn,       \* the connections, one per connect of a client
  MaxClients, \* MAX_CLIENTS, the number of slots
  MaxLine,    \* MAX_LINE_LEN
  Chunk,      \* READ_CHUNK
  InCap,      \* CLIENT_IN_CAP, the size of inbuf
  SockCap,    \* bound: replies that fit into a socket the client does not read
  Digit,      \* the digits clients use
  NL, Other,  \* a newline; any byte that no number contains
  Scripts,    \* bound: the byte sequences clients send, or a part of
  None        \* no connection, an entry of pfds never written, no event

ASSUME ServerConstants ==
  /\ MaxClients \in Nat \ {0}
  /\ MaxLine \in Nat \ {0}
  /\ Chunk \in Nat \ {0}
  /\ InCap \in Nat
  /\ InCap >= MaxLine + Chunk
  /\ SockCap \in Nat \ {0}
  /\ Digit \subseteq 0..9
  /\ NL \notin Digit \cup {Other}
  /\ Other \notin Digit
  /\ None \notin Conn
  /\ Scripts \subseteq Seq(Digit \cup {NL, Other})

VARIABLES
  at,       \* where main is
  stopFlag, \* g_stop
  slots,    \* clients[]: who has the slot, its inbuf and its outbuf
  pfds,     \* revents of pfds[1..MAX_CLIENTS], or None: never written
  slot,     \* the slot the walk is at
  nfds,     \* the entry of pfds the walk is at
  eof,      \* peer_closed of the slot the walk is at
  total,    \* state
  backlog,  \* connections that wait for accept
  client,   \* per connection, the client's end of the socket
  server,   \* per connection, the server's end
  toServer, \* per connection, bytes the server has not received
  toClient, \* per connection, replies the client has not read
  sent,     \* history: the bytes the client sent
  got,      \* history: the replies the client read
  accepted  \* history: this iteration has put a connection into a slot

mainVars == <<at, stopFlag, pfds, slot, nfds, eof>>
dataVars == <<slots, total>>
connVars == <<backlog, client, server>>
pipeVars == <<toServer, toClient, sent, got>>
vars == <<mainVars, dataVars, connVars, pipeVars, accepted>>

Slot  == 1..MaxClients
Byte  == Digit \cup {NL, Other}

\* What an entry of pfds may say, as far as the walk tells it apart: POLLERR hides
\* all else, and POLLHUP counts only without POLLIN.
Event == {"IN", "OUT", "ERR", "HUP"}
Events == {ev \in SUBSET Event : ("ERR" \in ev => ev = {"ERR"}) /\ ("IN" \in ev => "HUP" \notin ev)}

ASSUME NeverWritten == \A ev \in SUBSET Event : ev # None

FreeSlot == [conn |-> None, inbuf |-> <<>>, out |-> <<>>]

Occupied == {i \in Slot : slots[i].conn # None}

-----------------------------------------------------------------------------
(* Lines.                                                                  *)

\* Mutant: the length of a line is not checked.
WellFormedAnyLength(line) == line # <<>> /\ Other \notin ToSet(line)

WellFormed(line) == line # <<>> /\ Other \notin ToSet(line) /\ Len(line) <= MaxLine

Number(line) ==
  LET value[n \in 0..Len(line)] == IF n = 0 THEN 0 ELSE 10 * value[n - 1] + line[n]
  IN  value[Len(line)]

\* Where the newlines of buf are, and the line that the one at k ends.
Newlines(buf) == {k \in DOMAIN buf : buf[k] = NL}
LineEndingAt(buf, k) ==
  LET earlier == {j \in Newlines(buf) : j < k}
  IN  SubSeq(buf, (IF earlier = {} THEN 0 ELSE Max(earlier)) + 1, k - 1)

Rejected(buf) == {k \in Newlines(buf) : ~WellFormed(LineEndingAt(buf, k))}

\* The lines whose numbers parse_and_queue_lines adds to the state: those before the
\* first it rejects.
Taken(buf) == {k \in Newlines(buf) : \A j \in Rejected(buf) : k < j}
Parsed(buf) ==
  LET parsed[k \in 0..Len(buf)] ==
        IF k = 0 THEN <<>>
        ELSE parsed[k - 1] \o (IF k \in Taken(buf) THEN <<Number(LineEndingAt(buf, k))>> ELSE <<>>)
  IN  parsed[Len(buf)]

\* What stays in inbuf: the bytes after the last newline.
Leftover(buf) ==
  SubSeq(buf, (IF Newlines(buf) = {} THEN 0 ELSE Max(Newlines(buf))) + 1, Len(buf))

\* Mutant: a leftover may grow until the buffer is full.
ParseFailsOnLines(buf) == Rejected(buf) # {}

\* It returns -1 for a line it rejects, and for a leftover no line can be that long.
ParseFails(buf) == Rejected(buf) # {} \/ Len(Leftover(buf)) > MaxLine

\* Mutant: every call adds to a total of its own.
TotalsFromZero(start, numbers) ==
  LET sum[n \in 0..Len(numbers)] == IF n = 0 THEN 0 ELSE sum[n - 1] + numbers[n]
  IN  [i \in DOMAIN numbers |-> sum[i]]

\* The totals after each of the numbers in turn.
Totals(start, numbers) ==
  LET sum[n \in 0..Len(numbers)] == IF n = 0 THEN start ELSE sum[n - 1] + numbers[n]
  IN  [i \in DOMAIN numbers |-> sum[i]]

-----------------------------------------------------------------------------

Init ==
  /\ at = "poll"
  /\ stopFlag = FALSE
  /\ slots = [i \in Slot |-> FreeSlot]
  /\ pfds = [i \in Slot |-> None]
  /\ slot = 0
  /\ nfds = 1
  /\ eof = FALSE
  /\ total = 0
  /\ backlog = <<>>
  /\ client = [c \in Conn |-> "none"]
  /\ server = [c \in Conn |-> "none"]
  /\ toServer = [c \in Conn |-> <<>>]
  /\ toClient = [c \in Conn |-> <<>>]
  /\ sent = [c \in Conn |-> <<>>]
  /\ got = [c \in Conn |-> <<>>]
  /\ accepted = FALSE

-----------------------------------------------------------------------------
(* The kernel: what poll reports of a connection.                          *)

\* The client closed without reading everything it was sent.
Reset(c) == client[c] = "closed" /\ toClient[c] # <<>>
AtEof(c) == client[c] \in {"shut", "closed"} /\ toServer[c] = <<>>
Writable(c) == client[c] = "closed" \/ Len(toClient[c]) < SockCap

\* Mutant: POLLOUT is never asked for.
ReventsInputOnly(i) ==
  LET c == slots[i].conn IN
  IF Reset(c) THEN {"ERR"}
  ELSE {e \in {"IN"} : toServer[c] # <<>> \/ client[c] # "open"}

\* POLLERR after a reset; POLLIN also at the end of the stream, so that POLLHUP never
\* comes without it; POLLOUT when there is output and room for it.
Revents(i) ==
  LET c == slots[i].conn IN
  IF Reset(c) THEN {"ERR"}
  ELSE {e \in {"IN", "OUT"} :
          \/ e = "IN" /\ (toServer[c] # <<>> \/ client[c] # "open")
          \/ e = "OUT" /\ slots[i].out # <<>> /\ Writable(c)}

\* The entry of slot i: one per occupied slot, in order.
EntryOf(i) == Cardinality({j \in Occupied : j <= i})

\* Entries past those just built keep what is in them.
FreshPfds ==
  [n \in Slot |->
     IF \E i \in Occupied : EntryOf(i) = n
       THEN Revents(CHOOSE i \in Occupied : EntryOf(i) = n)
       ELSE pfds[n]]

-----------------------------------------------------------------------------
(* The loop.                                                               *)

\* The first occupied slot after i, or 0 when there is none.
NextSlot(i) ==
  LET later == {j \in Occupied : j > i} IN IF later = {} THEN 0 ELSE Min(later)

\* Mutant: the walk ends with the index past the last slot.
GoOnPastEnd(from, entry) ==
  /\ slot' = IF NextSlot(from) = 0 THEN from + 1 ELSE NextSlot(from)
  /\ nfds' = IF NextSlot(from) = 0 THEN 1 ELSE entry
  /\ eof' = FALSE
  /\ at' = IF NextSlot(from) = 0 THEN "poll" ELSE "slot"

\* The walk goes to the next occupied slot and the next entry, or is over.
GoOn(from, entry) ==
  /\ slot' = NextSlot(from)
  /\ nfds' = IF NextSlot(from) = 0 THEN 1 ELSE entry
  /\ eof' = FALSE
  /\ at' = IF NextSlot(from) = 0 THEN "poll" ELSE "slot"

BeginWalk == GoOn(0, 1)

\* Mutant: a slot is left without nfds++.
AdvanceSlotOnly == GoOn(slot, nfds)

Advance == GoOn(slot, nfds + 1)

\* An iteration starts: pfds is built and polled.  When poll times out or is
\* interrupted, the entries just built hold no event.
PollOnce ==
  /\ at = "poll"
  /\ pfds' = FreshPfds
  /\ accepted' = FALSE
  /\ \/ backlog # <<>> /\ at' = "accept" /\ UNCHANGED <<slot, nfds, eof>>
     \/ backlog = <<>> /\ BeginWalk
  /\ UNCHANGED <<stopFlag, dataVars, connVars, pipeVars>>

\* Mutant: g_stop is not looked at.
PollRegardless == PollOnce

Poll == ~stopFlag /\ PollOnce

\* accept, into the first free slot, or closed at once when there is none or when the
\* descriptor cannot be made non-blocking.
AcceptOne ==
  /\ at = "accept"
  /\ backlog # <<>>
  /\ backlog' = Tail(backlog)
  /\ LET c == Head(backlog)
         free == Slot \ Occupied
     IN  \/ /\ free # {}
            /\ slots' = [slots EXCEPT ![Min(free)] = [FreeSlot EXCEPT !.conn = c]]
            /\ server' = [server EXCEPT ![c] = "open"]
            /\ accepted' = TRUE
         \/ /\ server' = [server EXCEPT ![c] = "closed"]
            /\ UNCHANGED <<slots, accepted>>
  /\ UNCHANGED <<mainVars, total, client, pipeVars>>

\* accept says EAGAIN.
AcceptDone ==
  /\ at = "accept"
  /\ backlog = <<>>
  /\ BeginWalk
  /\ UNCHANGED <<stopFlag, pfds, dataVars, connVars, pipeVars, accepted>>

\* accept fails otherwise, for want of a descriptor say: the server stops.
AcceptError ==
  /\ at = "accept"
  /\ stopFlag' = TRUE
  /\ BeginWalk
  /\ UNCHANGED <<pfds, dataVars, connVars, pipeVars, accepted>>

Here == slots[slot].conn

\* Mutant: the slot is freed and the descriptor stays open.
FreeHere ==
  /\ slots' = [slots EXCEPT ![slot] = FreeSlot]
  /\ UNCHANGED server

CloseHere ==
  /\ slots' = [slots EXCEPT ![slot] = FreeSlot]
  /\ server' = [server EXCEPT ![Here] = "closed"]

\* What the entry the walk is at may be found to say: one that was never written
\* says anything, and need not say the same twice.
Entry == IF pfds[nfds] = None THEN Events ELSE {pfds[nfds]}

\* POLLERR and POLLNVAL close; POLLIN leads to the recv loop.
ReadEntry ==
  /\ at = "slot"
  /\ \E ev \in Entry :
       \/ /\ "ERR" \in ev
          /\ CloseHere
          /\ Advance
       \/ /\ "ERR" \notin ev
          /\ at' = IF "IN" \in ev THEN "recv" ELSE "finish"
          /\ eof' = ("HUP" \in ev)
          /\ UNCHANGED <<slots, server, slot, nfds>>
  /\ UNCHANGED <<stopFlag, pfds, total, backlog, client, pipeVars, accepted>>

\* One recv that returns bytes, and parse_and_queue_lines on what inbuf now holds.
\* A line that is rejected closes the connection; the lines before it count.
ReadChunk ==
  /\ at = "recv"
  /\ toServer[Here] # <<>>
  /\ LET c   == Here
         r   == Min({Chunk, Len(toServer[c])})
         buf == slots[slot].inbuf \o SubSeq(toServer[c], 1, r)
         fits == Len(buf) <= InCap
         new == Totals(total, IF fits THEN Parsed(buf) ELSE <<>>)
     IN  /\ toServer' = [toServer EXCEPT ![c] = SubSeq(@, r + 1, Len(@))]
         /\ total' = IF new = <<>> THEN total ELSE Last(new)
         /\ \/ /\ ~fits \/ ParseFails(buf)
               /\ CloseHere
               /\ Advance
            \/ /\ fits /\ ~ParseFails(buf)
               /\ slots' = [slots EXCEPT ![slot].inbuf = Leftover(buf),
                                         ![slot].out = @ \o new]
               /\ UNCHANGED <<server, slot, nfds, at, eof>>
  /\ UNCHANGED <<stopFlag, pfds, backlog, client, toClient, sent, got, accepted>>

\* The recv that returns none: EAGAIN, the end of the stream, or ECONNRESET.
ReadEnd ==
  /\ at = "recv"
  /\ toServer[Here] = <<>>
  /\ \/ /\ Reset(Here)
        /\ CloseHere
        /\ Advance
     \/ /\ ~Reset(Here)
        /\ at' = "finish"
        /\ eof' = (eof \/ AtEof(Here))
        /\ UNCHANGED <<slots, server, slot, nfds>>
  /\ UNCHANGED <<stopFlag, pfds, total, backlog, client, pipeVars, accepted>>

\* Mutant: outbuf is freed also when a part was sent.
UnsentDropped(out, k) == <<>>

\* What is still to send when k replies have gone.
Unsent(out, k) == SubSeq(out, k + 1, Len(out))

\* Mutant: the end of the stream closes whatever is still to send.
CompleteAtEof(out, k) == eof

\* The client will send nothing more, and nothing is owed to it.
Complete(out, k) == eof /\ Unsent(out, k) = <<>>

\* flush_client_output, when poll said the socket takes output, and the end of
\* a connection that is at its end and owes no reply.
FinishSlot ==
  /\ at = "finish"
  /\ \E ev \in Entry :
     LET c == Here
         out == slots[slot].out
         flush == "OUT" \in ev
         broken == flush /\ out # <<>> /\ client[c] = "closed"
         k == IF flush /\ ~broken THEN Min({SockCap - Len(toClient[c]), Len(out)}) ELSE 0
     IN  /\ toClient' = [toClient EXCEPT ![c] = @ \o SubSeq(out, 1, k)]
         /\ \/ /\ broken \/ Complete(out, k)
               /\ CloseHere
            \/ /\ ~broken /\ ~Complete(out, k)
               /\ slots' = [slots EXCEPT ![slot].out = Unsent(out, k)]
               /\ UNCHANGED server
  /\ Advance
  /\ UNCHANGED <<stopFlag, pfds, total, backlog, client, toServer, sent, got, accepted>>

\* g_stop: every connection is closed, and so is the listening socket with what waits on it.
Stop ==
  /\ at = "poll"
  /\ stopFlag
  /\ at' = "stopped"
  /\ slots' = [i \in Slot |-> FreeSlot]
  /\ backlog' = <<>>
  /\ server' = [c \in Conn |-> IF server[c] = "none" THEN "none" ELSE "closed"]
  /\ UNCHANGED <<stopFlag, pfds, slot, nfds, eof, total, client, pipeVars, accepted>>

Server ==
  \/ Poll \/ AcceptOne \/ AcceptDone
  \/ ReadEntry \/ ReadChunk \/ ReadEnd \/ FinishSlot
  \/ Stop

\* SIGINT or SIGTERM.
Signal ==
  /\ at # "stopped"
  /\ ~stopFlag
  /\ stopFlag' = TRUE
  /\ UNCHANGED <<at, pfds, slot, nfds, eof, dataVars, connVars, pipeVars, accepted>>

-----------------------------------------------------------------------------
(* The clients' ends of the sockets.                                       *)

Connect(c) ==
  /\ client[c] = "none"
  /\ at # "stopped"
  /\ client' = [client EXCEPT ![c] = "open"]
  /\ server' = [server EXCEPT ![c] = "queued"]
  /\ backlog' = Append(backlog, c)
  /\ UNCHANGED <<mainVars, dataVars, pipeVars, accepted>>

Send(c, bytes) ==
  /\ client[c] = "open"
  /\ server[c] # "closed"
  /\ sent' = [sent EXCEPT ![c] = @ \o bytes]
  /\ toServer' = [toServer EXCEPT ![c] = @ \o bytes]
  /\ UNCHANGED <<mainVars, dataVars, connVars, toClient, got, accepted>>

Receive(c) ==
  /\ client[c] \in {"open", "shut"}
  /\ toClient[c] # <<>>
  /\ got' = [got EXCEPT ![c] = Append(@, Head(toClient[c]))]
  /\ toClient' = [toClient EXCEPT ![c] = Tail(@)]
  /\ UNCHANGED <<mainVars, dataVars, connVars, toServer, sent, accepted>>

\* shutdown(SHUT_WR): nothing more to send, still reading.
Shutdown(c) ==
  /\ client[c] = "open"
  /\ client' = [client EXCEPT ![c] = "shut"]
  /\ UNCHANGED <<mainVars, dataVars, backlog, server, pipeVars, accepted>>

\* close, or the end of the client's process.
Close(c) ==
  /\ client[c] \in {"open", "shut"}
  /\ client' = [client EXCEPT ![c] = "closed"]
  /\ UNCHANGED <<mainVars, dataVars, backlog, server, pipeVars, accepted>>

Peer(c) ==
  \/ Connect(c)
  \/ \E b \in Byte :
       /\ \E script \in Scripts : IsPrefix(Append(sent[c], b), script)
       /\ Send(c, <<b>>)
  \/ Receive(c)
  \/ Shutdown(c)
  \/ Close(c)

\* The server has stopped and the clients have nothing left to do.
Ended == at = "stopped" /\ UNCHANGED vars

CalmNext == Server \/ \E c \in Conn : Peer(c)
Next == CalmNext \/ AcceptError \/ Signal \/ Ended

\* The server's thread is scheduled.
Fairness == WF_vars(Server)

CalmSpec == Init /\ [][CalmNext]_vars /\ Fairness \* the server is not asked to stop
Spec     == Init /\ [][Next]_vars /\ Fairness

-----------------------------------------------------------------------------
(* Properties.                                                             *)

TypeOK ==
  /\ at \in {"poll", "accept", "slot", "recv", "finish", "stopped"}
  /\ stopFlag \in BOOLEAN
  /\ slots \in [Slot -> [conn : Conn \cup {None}, inbuf : Seq(Byte), out : Seq(Nat)]]
  /\ pfds \in [Slot -> Events \cup {None}]
  /\ slot \in 0..MaxClients
  /\ nfds \in 1..(MaxClients + 1)
  /\ eof \in BOOLEAN
  /\ total \in Nat
  /\ backlog \in Seq(Conn)
  /\ client \in [Conn -> {"none", "open", "shut", "closed"}]
  /\ server \in [Conn -> {"none", "queued", "open", "closed"}]
  /\ toServer \in [Conn -> Seq(Byte)]
  /\ toClient \in [Conn -> Seq(Nat)]
  /\ sent \in [Conn -> Seq(Byte)]
  /\ got \in [Conn -> Seq(Nat)]
  /\ accepted \in BOOLEAN

\* What a client asked for, read off its bytes one at a time: the numbers of the
\* lines up to the first that is not a number or too long, and the line begun last.
NotANumber(line) == line = <<>> \/ Other \in ToSet(line) \/ Len(line) > MaxLine

Scanned(bytes) ==
  LET line[n \in 0..Len(bytes)] ==
        IF n = 0 THEN <<>> ELSE IF bytes[n] = NL THEN <<>> ELSE Append(line[n - 1], bytes[n])
      bad[n \in 0..Len(bytes)] ==
        n > 0 /\ (bad[n - 1] \/ (bytes[n] = NL /\ NotANumber(line[n - 1])))
      numbers[n \in 0..Len(bytes)] ==
        IF n = 0 THEN <<>>
        ELSE numbers[n - 1] \o (IF bytes[n] = NL /\ ~bad[n] THEN <<Number(line[n - 1])>> ELSE <<>>)
  IN  [line |-> line[Len(bytes)], numbers |-> numbers[Len(bytes)], bad |-> bad[Len(bytes)]]

Consumed(c) == SubSeq(sent[c], 1, Len(sent[c]) - Len(toServer[c]))
Delivered(c) == got[c] \o toClient[c]

HasSlot(c) == \E i \in Slot : slots[i].conn = c
SlotOf(c) == CHOOSE i \in Slot : slots[i].conn = c

\* What a connection was answered, or will be while it is open.
Answers(c) == got[c] \o toClient[c] \o (IF HasSlot(c) THEN slots[SlotOf(c)].out ELSE <<>>)

\* However the bytes of a connection were cut up, whoever had its slot before, and whatever
\* else was served in between: the server is one counter over all connections, each number
\* of each line sent is added once and in order, and answered with the total after it
\* (server.c 95-190, 379-404).
Service == INSTANCE CounterService
             WITH counter <- total,
                  open <- {c \in Conn : server[c] = "open"},
                  numbers <- [c \in Conn |-> Scanned(Consumed(c)).numbers],
                  replies <- [c \in Conn |-> Answers(c)]
ImplementsCounter == Service!ServiceSpec

\* The table and the sockets agree: a connection has a slot exactly while the
\* server has its socket open, and never two (server.c 79-93, 331-351).
SlotsAreOpen ==
  \A c \in Conn :
    Cardinality({i \in Slot : slots[i].conn = c}) = IF server[c] = "open" THEN 1 ELSE 0

\* What is left in inbuf is shorter than a line, so that a chunk always fits and
\* the check at server.c 393 closes no connection.
LeftoverFits == \A i \in Slot : Len(slots[i].inbuf) <= MaxLine

\* The server closes a connection for its own reasons or the client's: a stop, an
\* end of the stream, or a line it rejects.
Reason(c) ==
  \/ at = "poll" /\ stopFlag
  \/ client[c] \in {"shut", "closed"}
  \/ at = "recv" /\ ParseFails(slots[slot].inbuf \o SubSeq(toServer[c], 1, Min({Chunk, Len(toServer[c])})))

ServerCloses(c) == server[c] = "open" /\ server'[c] = "closed"

\* One client's fate is not another's: a connection is closed for a reason of its
\* own (src/README.md 134: one thread serves many clients; runme.sh 184 expects
\* failed_clients=0 whatever else goes on).
ClosedForAReason == [][\A c \in Conn : ServerCloses(c) => Reason(c)]_vars

\* In an iteration that accepts nobody the entries match the slots, and every
\* close has its reason (server.c 287-298, 358-419).
ClosedForAReasonUnlessAccepting ==
  [][\A c \in Conn : ServerCloses(c) => Reason(c) \/ accepted]_vars

\* A client that shuts down its sending side still gets every answer, unless it
\* is the one case above or the server stops (server.c 411).
DrainedBeforeClose ==
  [][\A c \in Conn :
       ServerCloses(c) /\ client[c] = "shut" /\ ~Scanned(sent[c]).bad
         /\ Len(Scanned(sent[c]).line) <= MaxLine
         /\ ~(at = "poll" /\ stopFlag) /\ ~accepted
         => Len(Delivered(c)') = Len(Scanned(sent[c]).numbers)]_vars

=============================================================================
