--------------------------- MODULE CounterService ---------------------------
(***************************************************************************)
(* What task4-brownian-bot's server promises its clients: one counter,     *)
(* shared by all connections, to which every number is added at once and   *)
(* for good.  The reply to a number is the counter just after it, replies  *)
(* come in the order of the numbers, and a connection that is open is owed *)
(* every one of them.  Nothing is promised of the replies a connection had *)
(* not been given when it was closed, not even that all of a last batch    *)
(* was answered; the numbers count all the same.                           *)
(***************************************************************************)
EXTENDS Naturals, Sequences, SequencesExt

CONSTANT Conn

VARIABLES
  counter, \* the sum of all numbers
  open,    \* the connections that are served
  numbers, \* per connection, what it asked to be added, as far as that is done
  replies  \* per connection, what was or will be answered

serviceVars == <<counter, open, numbers, replies>>

ServiceInit ==
  /\ counter = 0
  /\ open = {}
  /\ numbers = [c \in Conn |-> <<>>]
  /\ replies = [c \in Conn |-> <<>>]

Open(c) ==
  /\ c \notin open
  /\ open' = open \cup {c}
  /\ UNCHANGED <<counter, numbers, replies>>

\* The counter after the first n of the numbers.
After(ns, n) ==
  LET sum[k \in 0..n] == IF k = 0 THEN counter ELSE sum[k - 1] + ns[k] IN sum[n]
Running(ns) == [n \in DOMAIN ns |-> After(ns, n)]

\* The numbers that a step adds for c.
New(c) == SubSeq(numbers'[c], Len(numbers[c]) + 1, Len(numbers'[c]))

Add(c) ==
  /\ c \in open
  /\ IsPrefix(numbers[c], numbers'[c])
  /\ \A d \in Conn \ {c} : numbers'[d] = numbers[d]
  /\ counter' = After(New(c), Len(New(c)))

Serve(c) ==
  /\ numbers'[c] # numbers[c]
  /\ UNCHANGED open
  /\ Add(c)
  /\ replies' = [replies EXCEPT ![c] = @ \o Running(New(c))]

\* A connection is closed, perhaps because of what followed its last numbers.
ServeAndClose(c) ==
  /\ open' = open \ {c}
  /\ Add(c)
  /\ \A d \in Conn \ {c} : replies'[d] = replies[d]
  /\ IsPrefix(replies'[c], replies[c] \o Running(New(c)))

CloseAll ==
  /\ open # {} /\ open' = {}
  /\ \A c \in Conn : IF c \in open THEN IsPrefix(replies'[c], replies[c]) ELSE replies'[c] = replies[c]
  /\ UNCHANGED <<counter, numbers>>

ServiceNext ==
  \/ \E c \in Conn : Open(c) \/ Serve(c) \/ ServeAndClose(c)
  \/ CloseAll

ServiceSpec == ServiceInit /\ [][ServiceNext]_serviceVars

=============================================================================
