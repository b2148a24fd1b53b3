# A verification project for unix-tasks

TLA+ models of the four programs of this repository, model-checked with TLC, and
theorems about them proved with TLAPS. The source is the reference: every
definition that models code names the lines it stands for in `PROJECT.json`
(`map`), and a comment above every property names the behaviour it is about.

## 1. Inventory

| part | source | state it keeps | operations | how it interacts |
|---|---|---|---|---|
| lockprog | `task2-lock/lockprog.c` | `stop_flag`, `locks`; shared: the entry and content of `<myfile>.lck`, `stats.txt` | create exclusively, write pid, hold, verify, unlink, back off, append statistics | many processes, only through the file system; SIGINT |
| server | `task4-brownian-bot/server.c` | `clients[]` with `inbuf`, `outbuf`; `pfds`; `state`; `g_stop` | poll, accept, receive, parse, queue, flush, close, stop | one thread, a stream socket per client; SIGINT, SIGTERM |
| client | `.../client.c` | its input, the answer it waits for | send a line, read a line | lock step with the server |
| test_client | `.../test_client.c` | the same, byte by byte | connect with retries, send a byte, read a line after a newline | lock step with the server, slowly |
| myinit | `task3-myinit/myinit.c` | `g_config`, `g_children`, `reload_requested`, `shutdown_requested`, `reloading`, `shutting_down` | parse, spawn, restart, reload, shut down | fork/exec/wait of children, SIGHUP/SIGTERM, the configuration file |
| test_worker | `task3-myinit/test_worker.c` | none | run until a signal ends it | child of myinit |
| sparse copier | `task1-sparse/myprogram.c` | offsets, the block in memory, `logical_size` | read, seek over zeroes, write, truncate | the file system |
| scripts, Makefiles, data | `*/runme.sh`, ... | none | drive the programs | what the scripts expect is stated as properties |

What is hard, and hard to test:

* **lockprog**: interleavings of processes at every system call; SIGINT anywhere;
  a process that dies with the lock; a file that changes between check and unlink;
  a pid of any length read back against INT_MAX.
* **server**: lines of many clients cut up in any way; slots that are freed and
  reused; an array indexed by counting slots, while `accept` changes what is
  counted; the end of a stream racing the last replies.
* **clients with the server**: each waits for the other.
* **myinit**: signals between any two statements, a mask, children that have been
  forked and have not reached `execv`, an edit that races the parser, `fork` or
  `calloc` failing half way, and SIGCHLD inherited as ignored.
* **copier**: short reads and writes, errors half way, holes at the end.

`PROJECT.json` lists the hazards by line, each with the properties that would
catch it, or a note that says why none does. A hazard whose step the models contain but
that no text of the repository excludes has a note: the step is there, and no property
calls it wrong.

## 2. The modules

| module | what it is |
|---|---|
| `FileMutex` | what lockprog promises: a lock taken when free and given back by its holder, and a count |
| `LockProg` | lockprog.c, one action per system call on shared state |
| `LockProgProofs` | theorems about `LockProg` |
| `PidFile` | lockprog.c's reading of a lock file, one action per turn of a loop |
| `PidFileProofs` | theorems about `PidFile` |
| `CounterService` | what the server promises: one counter, every number added once and answered |
| `BrownianServer` | server.c with clients that do anything a socket allows |
| `BrownianServerProofs` | theorems about `BrownianServer`: its table, its sockets, its buffers |
| `CounterServiceProofs` | that `BrownianServer` implements `CounterService` |
| `BrownianBot` | extends `BrownianServer`: client.c and test_client.c in place of those clients |
| `BrownianBotProofs` | theorems about `BrownianBot`, the final sum among them |
| `Supervisor` | what myinit promises of its processes |
| `MyInit` | myinit.c, with the kernel's view of its children |
| `MyInitProofs` | theorems about `MyInit` |
| `ConfigLines` | myinit.c's parser of the configuration, with a file that changes under it |
| `ConfigLinesProofs` | theorems about `ConfigLines` |
| `SparseCopy` | myprogram.c |
| `SparseCopyProofs` | theorems about `SparseCopy` |
| `MC...` | instances for TLC; `MCParsers` runs `PidFile` or `ConfigLines` |

`FileMutex`, `CounterService` and `Supervisor` are abstract specifications, and
`ImplementsMutex`, `ImplementsCounter` and `ImplementsSupervisor` say that the
detailed modules implement them.

An operator whose comment begins with `Mutant:` is not part of a model. It is a
plausible mistake in the definition that follows it, kept so that every property
can be shown to notice one (`PROJECT.json`, `mutants`).

### LockProg

`pc[p]` is the place in `main` of process `p`; `Goto` moves it. The lock file is
`lckOwner`, who created the inode now at the path, and `lckText`, what that inode
holds: whose pid, or `Garbage` (empty, cut short, not a pid: what
`parse_pid_file_content` rejects). Keeping the creator apart from the content
separates "the file I made" from "a file with my pid". `created` is a history
of successful creations, and `MaxRounds[p]` bounds it for each process. A sleep
is a location left at any time, so delays and jitter need no clock. `Sigint`
before the handler is installed kills; after, it sets the flag that `CheckStop`
and `LoopOrBreak` read. Two specifications share the actions: `Spec`, with
SIGINT, SIGKILL and an I/O error at every call whose failure ends the program (`IoError`,
`WriteError`, `StatsError`), and `HostileSpec`, with SIGINT and
outsiders that remove or replace the file. An append of a statistics line is one
step: a regular file takes a line of under 128 bytes in one `write` unless it
fails, and a write that fails half way leaves a torn line (`StatsError`), which
the next line runs into.

### PidFile and ConfigLines

What `LockProg` and `MyInit` know of a file is one value. The two parsers that
justify this are modules of their own, because they share nothing with the
processes around them but their result.

`PidFile` is `verify_lock_file_owner` with `parse_pid_file_content`: the read
into a buffer of `BufCap` bytes, the loop over digits, what must follow them, the
loop that adds the digits up in `acc` and compares each time. `IntMax` and
`UllMax` stand for INT_MAX and ULLONG_MAX and are only assumed to leave room for
one digit more (`UllMax >= 10 * IntMax + 9`). `Value` is the reference: the
number that the first characters of a text are the digits of, fixed by the
assumption `DecimalValue` alone.

`ConfigLines` is `parse_config_file` with `push_config_line`. The size is that of
one file and the bytes are those of another, or of the same: that is the edit
between `fstat` and `read`. Reads are short at will. When the file became shorter,
the buffer has a tail after the NUL that nothing wrote; it is any member of
`Leftovers`. The walk goes over all of it, as the code does. The reference
(`LinesIn`, `EntriesIn`) knows nothing of the walk: a line lies between two
neighbouring ends. `MadeOf` says that entries and lines match one to one, in order.
A comment, a line with too few tokens, one with too many and one with a path that
is not absolute are told apart; the letters of a name are not.

### BrownianServer and BrownianBot

`at` is the place in the loop. `Poll` builds `pfds` from the slots occupied then;
`AcceptOne` fills slots; the walk (`ReadEntry`, `ReadChunk`, `ReadEnd`,
`FinishSlot`, `Advance`) visits the slots occupied *now* and reads `pfds` at a
counter of its own. Entries past those just built keep what an earlier iteration
left, and one that was never written (`None`) may say anything, each time it is
read: `pfds` is an array on the stack that nothing initialises. `ReadChunk` is
one `recv` with the whole of `parse_and_queue_lines`. Bytes are digits, newlines
and `Other`, which makes `strtol` reject; a line is its digits, without a sign (section 5); a reply is one unit, its total. `sent` and
`got` are histories of what a client sent and read. `accepted` says whether this
iteration accepted anyone, and only properties read it.

The refinement to `CounterService` maps the counter to `total`, the numbers of a
connection to what `Scanned` finds in the bytes the server has taken from it, and
its replies to `got` with `toClient` and `outbuf` behind it. `Scanned` reads the
whole stream one byte at a time and knows nothing of chunks, slots or `inbuf`, so
the refinement says that none of them matters: not how a stream is cut up, not
who had the slot before, not what else was served in between.

`BrownianServer` leaves the peers open. `BrownianBot` replaces them by the two
programs, each with a location `prog[c]`. `client.c` reads with `fgets`, which ends a
line at its newline, at the end of the input or after `FgetsMax` bytes, whichever
comes first, and it waits for an answer to whatever it has sent.

### MyInit

`pc` begins at `daemonize`: the pid file is written before the handlers are
installed, and a signal in between kills the daemon. `phase` stands for where in
its life the daemon is, which also gives `reloading` and `shutting_down`; SIGHUP
is masked exactly in phase `reloading`. `kids[p]` is the kernel's state of a pid:
`none`, `forked` (before `execv`), `running`, `deaf`, `zombie`; a pid that was reaped can
be given out again. SIGTERM ends a child that is `running` and makes one that is `forked`
`deaf`: that child still has the daemon's handler, which sets a flag nobody reads, and no
child is sent a second SIGTERM. `runs[p]` is the entry a child was forked for. It becomes
`NoEntry` when a `waitpid` fails with an errno of its own (`GiveUp`): in the loop of `main`
the daemon then returns without a shutdown (872-874, `PollError`), and in the wait for its
children it goes on with the reload or the exit as if there were none (663-664,
`ReapError`). `Known` are the unreaped children that were not given up; one that was and
ends later is a stranger to the table (844-847, `PollStranger`). `Kill` ends the daemon
anywhere by a signal it does not catch. `ignored` says that SIGCHLD was ignored by whoever
started the daemon, which inherits it: children then vanish without a zombie, `waitpid`
says ECHILD while the table is full, and the loop of `main` goes round again (`PollAgain`).
The parser is two steps, `Stat` and the read: when the
file changed in between, anything may come out, as `ConfigLines` shows in detail.
Missing, malformed and empty configurations are one value, `Unusable`, because the code
answers them alike; `ParseFails` is also an `open`, a `read` or an allocation that fails on
a file that is usable. The loop that starts all entries is one step per
`fork`; the loop that kills all is one step, as the kills commute with everything
children do in between. The branch of `main` that respawns everything when
`waitpid` says ECHILD (864-871) has no action: it needs a free slot at the poll,
and `FullyStaffed`, which is proved, says that there is none.
Programs are assumed to have the default action for SIGTERM, as `test_worker` has.

### SparseCopy

`Read(n)` and `Write(n)` move any number of bytes from one to what was asked for.
`out` is the content of the output as it would be read, `allocated` the positions
that were written. `Fail` stops anywhere.

## 3. The runs

| run | question | bounds | states |
|---|---|---|---|
| `lock_faults` | is the lock exclusive, accounted for, released or orphaned, taken while someone wants it; are the statistics whole; does SIGINT end a process and leave no file of one that returned; is `FileMutex` implemented? | 3 processes, one of which takes the lock twice | 147,141 |
| `lock_foreign_unlink` | does "refusing to unlink" hold? *violated* | 2 processes and an outsider | |
| `parsers` | is a pid line all that is taken for a pid; are the entries those of the file? | INT_MAX 12, buffer of 6, every text of up to 4 of 5 characters and runs of digits of up to 8; every pair of lines of 12 kinds against every other as what `fstat` saw | 105,175 |
| `server_lines` | is the server a counter, whatever lines of digits, newlines and other bytes are sent and however they are cut up; is it drained before the close? | 1 connection, all scripts of 5 bytes, lines of 2, chunks of 2, inbuf of 4 | 107,635 |
| `server_table` | are slots and sockets consistent, closes justified? | 3 connections, 2 slots, symmetry | 1,366,830 |
| `server_bystander` | is a connection only closed for its own reasons? *violated* | 2 connections, 2 slots, with signals | |
| `bot_live` | does every client end, does the server stop? | client.c and test_client.c, each with a line that is too long, kills, faults | 108,452 |
| `bot_sum` | does nobody lose step, is the state the sum, is the server a counter for several connections? | 3 clients, 2 slots, no fault but a refused connection | 312,058 |
| `bot_unterminated` | does a client with an unterminated last line end? *violated* | 2 clients | |
| `init_reload` | is the table the kernel's, no SIGHUP lost, does a daemon that has started end with no child it has not given up, is `Supervisor` implemented; can only a SIGTERM caught before `execv` block? | 3 pids, configurations of 2 and 1 entries, 2 SIGHUP, 1 edit | 806,963 |
| `init_swallowed` | does SIGHUP always reload? *violated* | 2 pids, 1 SIGHUP | |
| `sparse_copy` | is the copy exact, a failed one a prefix, and sparse? | inputs of up to 6 bytes, blocks of 3 | 18,180 |

Why the bounds are enough. Three processes give every conflict over one file with
a bystander, and the proofs cover more; the second lock of one of them lets a
process meet a file it made before. The number 12 puts INT_MAX between two
numbers of two digits, so that a digit too many and a digit too large both occur,
and a buffer of 6 is met, filled and exceeded. Two lines are enough for one to be
cut, joined or rejected beside another. The server's sizes keep the relations of
the real ones (a chunk and a leftover line fit in `inbuf`, a line may span chunks,
several lines may come in one), and three connections over two slots give reuse, a
full table and a shifted index. Three pids for two entries let a pid be reused by
another entry. One edit and two signals let a reload be overtaken by an edit and
the next signal; more edits add states and no new case, and the proofs hold for
any number. Six bytes with blocks of three give a block cut in two, a hole at the
end and an input that is not a multiple of the block.

The violated runs are disagreements between a text of the repository and its
code; `PROJECT.json` quotes both (`findings`). `ReloadsOrStuck` and `EndsOrStuck` do not
excuse a SIGTERM that was never sent: `Stuck` names the one thing that `init_swallowed`
finds, a child that has caught its SIGTERM, and nothing else may keep the daemon waiting.

### Fairness

* `LockProg`: `WF(Main(p))`. The kernel runs each process, and every sleep ends.
  `TakenWhenWanted` is about all processes together: one process can lose every
  attempt to the others. Nothing in the code keeps it from that; task2-lock/runme.sh TEST 3
  compares the counts of several and only warns when they differ.
* `BrownianServer`, `BrownianBot`: weak fairness of the server's thread and of
  the clients' programs. `poll` has a timeout of a second, so it never blocks.
* `MyInit`: weak fairness of the daemon and of a child on its way to `execv`.
  `waitpid` without WNOHANG is the one call that blocks, and is modelled as such:
  no step of the daemon is enabled while children are left and none is a zombie. A
  `waitpid` that fails is not one of the fair actions: a daemon that waits for ever is not
  rescued by it.
* `PidFile`, `ConfigLines` and `SparseCopy` have no liveness property.

Signals, kills, edits, outsiders and faults that end a process, or make it give its
children up, are never fair. A `fork`, a `calloc` or a read that fails is an alternative of
the step it replaces, and shares that step's fairness. The `server_...` runs
check safety only, although their specifications state fairness.

## 4. The proofs

`tlapm` checks eight proof modules to the last leaf, for every value of the
constants that the named assumptions allow. They say little: that special values
differ from ordinary ones and sizes are positive (`LockConstants`, `LockBound`,
`MyInitConstants`, `SparseCopyConstants`, `ConfigConstants`, `NeverWritten`), what
the text of the code says of sizes (`ServerConstants`: a chunk and a line fit in
`inbuf`; `PidFileConstants`: ULLONG_MAX leaves room for a digit beyond INT_MAX),
what a client is (`BotConstants`: its input is bytes, and `fgets` has room for at
least one), that a test has finitely many clients (`FiniteTest`, only for the final
sum), and what the reference number is (`TextsAreTexts`, `DecimalValue`).

**LockProg.** `MutualExclusion` is not inductive: a process about to create the
file says nothing about who else is inside. `HolderOwnsFile` is the strengthening:
a process inside created the file at the path, so two inside would have created
the same file, and while one is inside, `TryCreateExclusive` of another finds the
file. Its second part, that the pid is in the file once written, is what makes
`VerifyResult` OK, so that nobody gives the file up in the middle
(`ThVerifyNeverSurprised`). `Accounting` is inductive with it: creation raises
`created` and makes the process the owner; unlinking raises `locks` and ends the
ownership. `ThOrphanPersists` is an action property from the same invariant: only
a process inside changes the file, and an orphan's owner is not inside, so by
`HolderOwnsFile` nobody is. `ThImplementsMutex` maps creation to `Acquire`,
unlinking to `Release` and all else to stuttering. `ThNoLeftoverLock` adds
`OwnerHolds`: the owner of the file is inside, or failed or was killed there.
`ThReportsComplete` adds `Reports`, which says in addition who has no line yet and
that a torn line is the trace of a failure. At the append, `OwnerHolds` and
`Accounting` give that the number in the line is the number of files created.

**PidFile.** The invariant (`Scanned`) says that what was scanned are digits, that
`acc` is the `Value` of those added up, and that every value so far is at most
`IntMax`. A text that is refused for its size has a prefix that is too large, and
`ValueGrows` carries that to the whole number. From the bound on `acc` before a
turn and the room in `UllMax` follows that it never overflows.

**ConfigLines.** The invariant says which part of the buffer is the file's, that
`line_start` follows an end, and that the entries are those of the lines that end
before it (`Made`). `WalkLine` adds the one line between two neighbouring ends.
Past the end of the file nothing is claimed of what the tail adds, only that it
comes after all the entries of the file.

**MyInit.** The invariant ties `g_children` to the children in the kernel's table that
were not given up (`TableIsTheKernels`) and says what each location owes to it (`Shape`,
`Childless`): main polls with a full table, and there is no configuration, or no table, only
when there is no such child. `ThEndsAlone` is about these children: it says that a daemon
that has started and then returns, or crashes on a NULL table, has reaped all that it ever
forked, unless a `waitpid` failed. `Fresh` carries the
file from `fstat` to the poll: an edit in between sets `stale`, a signal the
request. All five properties and the refinement follow; a fork maps to a start, a
reap to an end, a reload to a new configuration with nothing running, and giving up to a
switch after which nothing is counted.

**BrownianServer.** The invariant has the sockets and slots (`Sockets`), the place
of the walk (`Place`: the counter that reads `pfds` never overtakes the slot, so it
stays in the array), the room in `inbuf` (`Room`, `LeftoverFits`), and `Match`.
`Match` is the heart: in an iteration that accepted nobody, the entry of each
occupied slot not yet visited is as many entries past the counter as there are
occupied slots between it and the walk, and it says only what is justified for the
connection in that slot: POLLERR only if its peer is gone. A close at the walk takes
one slot and one entry at once; slots behind the walk are not counted any more. So a
client is never closed for the entry of another.
What `parse_and_queue_lines` computes is a set of recursive
functions over the chunk. Their types are shown by taking the least place at which
they fail (`EveryPlace`).

**The counter.** `ImplementsCounter` compares the server with `Scanned`, a scan of
everything a connection ever sent. A scan is a recursive function over the bytes, so
the first lemmas say what it does from one byte to the next, that it can be cut
anywhere and joined again (`ScanConcat`), and that a fault stays a fault. Each is an
induction written out by hand over the least place at which it would fail. The second
group says what `parse_and_queue_lines` makes of `inbuf` and a chunk: the same numbers,
the same rest and the same verdict as a scan. The invariant (`Applied`) then has four
parts for every connection: what was consumed and what is on the way make up `sent`
(`Streams`); `inbuf` is the line that the consumed bytes have begun, with no rejected
line before it (`Inbuf`); nothing is consumed or answered before there is a slot
(`Fresh`); and while it is open, the answers given and those in the socket and in
`outbuf` are as many as its numbers (`Owed`). Without `Inbuf` the property is not
inductive: a number that came in two chunks is in neither of them. Each step then
maps to opening, adding, serving or closing in `CounterService`, or to stuttering.
`ThDrainedBeforeClose` needs `AtEnd` besides: in an iteration that accepted nobody, the
end of a stream is only seen when nothing of it is left in the socket. That comes from
`Match`, and it is what fails in an iteration that accepts.

**BrownianBot.** The two programs only do what `BrownianServer` lets clients do
(`BotIsAny`), so the server's invariants carry over. `BotInv` adds what the programs
know: what was sent is a beginning of the input (`Reads`), the location tells the state
of the socket (`Knows`), and it tells how many complete lines are unanswered (`Counts`).
`InStep` alone is not inductive, as it does not exclude an answer nobody asked for;
`Owed` of the counter's invariant does. A client that ended well has as many answers as
lines, there is at most one number per line, and fewer where a line is rejected
(`LinesScanned`): so none was rejected and all its numbers were added.
`ThFinalSum` needs what the state is before anybody has ended: the sum over all
connections of the numbers consumed (`ThSummed`). The sum is a fold over a set, which
the community modules define by a CHOOSE among recursive functions; that there is such a
function for every finite set, and that a term that grows by a number makes the sum
grow by as much, is proved by taking a smallest subset for which it fails
(`EverySubset`).

**SparseCopy.** The invariant joins the prefix that was written (`IsPrefix`),
the part still missing up to the offset, which is zero in the input
(`HoleIsZero`), the block in memory (`BlockIsNext`) and the offsets (`InStep`).
`HoleIsZero` is what a run cannot see in one state and what `ftruncate` needs: it
turns "nothing was written there" into "there is nothing to write". Lemmas state
once what a write at an offset and a resize return. From it follow `ThExactCopy`,
`ThPrefixOnFailure` and `ThWritesNearData`.

**Only model-checked.** All liveness (`StopTerminates`, `ReleasedOrOrphaned`,
`TakenWhenWanted`, `ClientsEnd`, `StopsWhenAsked`, `ReloadsOrStuck`,
`EndsOrStuck`): fairness and ENABLED are beyond the prover. Every invariant, every
action property and every refinement that a passing run checks is also a theorem. The library's
induction theorems take an operator as parameter, which the installed provers cannot
instantiate; where a proof needs induction, over the places of a sequence or the
subsets of a set, it is written out with a set of those that satisfy the claim.

## 5. Not modelled

Of the data:

* The text of log lines and statistics; options; the letters of names and paths.
* Lines that are numbers but not plain digits. server.c strips a `\r` before the newline
  (133-135), and `strtol` (138) takes a sign and leading blanks and stops at a NUL in the
  line: such lines are accepted, and no sequence of the model stands for them, as `Other`
  is a byte that makes the line rejected. So `total` never falls, and the data of
  task4-brownian-bot/runme.sh whose numbers cancel out is not an instance of `FinalSum`.
  What the theorems about the server and the clients say of all inputs they say of all
  sequences of digits, newlines and `Other`.
* The width of `long` and of `locks`; memory for `outbuf`: a failing `realloc`
  closes the client as a rejected line does.

Of the failures:

* The server: its start-up, which comes before the first state and touches nothing that the
  properties read. `poll` failing with another errno than EINTR (304-309), which ends the
  loop as `Signal` and then `Stop` do. `set_nonblocking` failing on a new connection
  (327-330) is there: it is closed as if there were no slot.
* The clients: client.c exits when its own output fails (152-155) or a reply is longer than
  its buffer (117-118), and test_client likewise. To the server that is a client that is
  killed (`ProgKill`). They start when the server listens: a `connect` that comes too early
  (client.c 132-135) is only seen as one that comes too late.
* myinit: `setsid`, `sigaction` and the other calls of the start failing one by one
  (`StartFails` is any of them before the daemon serves). `sigprocmask` failing when SIGHUP
  is blocked (686-689), which shuts the daemon down without a reload, or unblocked (729-731),
  which shuts it down after one and may leave SIGHUP blocked.
* What is left behind. `EndsAlone` speaks of a daemon that has started (not of `SpawnFails`
  in the first start, 819) and that ends by returning or by the crash on a NULL table; a
  daemon killed by a signal it does not catch leaves its children. After a `waitpid` that
  fails (663-664, 872-874) the children there are count as given up, and `EndsAlone`,
  `TableIsTheKernels` and `ImplementsSupervisor` say nothing of them any more; they may
  outlive the daemon, and in a reload a new configuration may be started beside them.
* That crash itself (`calloc` fails in a reload, and the shutdown reads `g_children[0]`, 643)
  is a step of the model, `SendSigtermCrashes`. No text of the repository says that it cannot
  happen, so no property calls it wrong.
* With SIGCHLD ignored nothing is started again. The model has that daemon, and in it
  src/README.md:76 does not hold; `FullyStaffed` and `TableIsTheKernels` except it in words.

Of the world:

* A second server with the same socket name; the same file as input and output of
  the copier: neither program makes a check that could be stated.
* A client that sends without end keeps the server in its `recv` loop (380), away from
  `g_stop`: the clients of the models send finitely much.
* Programs under myinit that survive SIGTERM once they run.
* Fairness to one process among those that compete for the lock: the back-off is a
  function of the pid, and the code does not provide for it.
* test_worker's output; the scripts and build files, which change no state.

## 6. Plan

Done: lockprog with its proofs, the server, the clients, myinit, the copier with
its proofs; then the two parsers with theirs, `CounterService` and its refinement,
myinit's start and SIGCHLD, the proofs about myinit and about the server, and the
rest of lockprog's safety properties.

Then `CounterService` as proved of the server, and the clients with the final sum.

What could follow: the progress that the liveness properties rest on, as far as it is
safety (what a location's steps need and which of them is always possible); `MyInit`
with programs that survive SIGTERM, which changes what `EndsOrStuck` can say; a second
server on the same socket name, which needs the directory entry as state.
