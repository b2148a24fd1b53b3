----------------------------- MODULE LockProg ------------------------------
(***************************************************************************)
(* task2-lock/lockprog.c: processes that compete for one lock file,        *)
(* <myfile>.lck, created with O_CREAT|O_EXCL.  A process that created the  *)
(* file writes its pid into it, holds it for a second, reads the pid back, *)
(* unlinks the file and counts the lock; a process that found the file     *)
(* sleeps and tries again.  SIGINT sets a flag that the loop reads; the    *)
(* process then appends one line to the statistics file and exits.         *)
(*                                                                         *)
(* One action is one system call on shared state with the local code that  *)
(* follows it.  A sleep is a location the process leaves at any time, so   *)
(* delays, jitter and EINTR (which only shortens a sleep or repeats a      *)
(* call) need no state of their own.                                       *)
(*                                                                         *)
(* A directory entry and its inode are told apart: a process that created  *)
(* the file writes to its inode even when the entry has since been removed *)
(* or replaced, and such a write is invisible at the path.                 *)
(***************************************************************************)
EXTENDS Naturals, Sequences, SequencesExt

CONSTANTS
  Proc,      \* the processes, named by their pids
  NoFile,    \* "no such directory entry"
  Outsider,  \* whoever else touches the lock file, and the pid it may write
  Garbage,   \* file contents parse_pid_file_content rejects: empty, cut short, not a pid
  MaxRounds  \* bound: how often each process may create the lock file

ASSUME LockConstants ==
  /\ NoFile # Outsider
  /\ NoFile \notin Proc
  /\ Outsider \notin Proc
  /\ Garbage \notin Proc

ASSUME LockBound == MaxRounds \in [Proc -> Nat]

VARIABLES
  pc,        \* per process, where it is in main
  stop,      \* per process, stop_flag
  locks,     \* per process, the local counter locks
  lckOwner,  \* who created the inode at <myfile>.lck, or NoFile
  lckText,   \* what that inode holds: a pid or Garbage
  stats,     \* the statistics file, one entry per line
  created    \* history: how often each process created the lock file

vars == <<pc, stop, locks, lckOwner, lckText, stats, created>>
lck  == <<lckOwner, lckText>>

\* Locations that end a process: it returned, left by exit(EXIT_FAILURE),
\* or was killed by a signal.
Final == {"done", "failed", "killed"}

\* Locations between the creation of the lock file and its removal.
Holding == {"write", "hold", "verify", "unlink"}

Locations == {"start", "check", "open", "backoff", "rest", "stats", "close"} \cup Holding \cup Final

\* A line of the statistics file.  A writer that fails may leave a torn line,
\* one without its newline; what is appended next spoils on it.
Line(kind, p, n) == [kind |-> kind, pid |-> p, locks |-> n]
Lines == [kind : {"line", "torn", "spoilt"}, pid : Proc, locks : Nat]

EndsTorn == stats # <<>> /\ Last(stats).kind = "torn"

-----------------------------------------------------------------------------

Init ==
  /\ pc = [p \in Proc |-> "start"]
  /\ stop = [p \in Proc |-> FALSE]
  /\ locks = [p \in Proc |-> 0]
  /\ lckOwner = NoFile
  /\ lckText = Garbage
  /\ stats = <<>>
  /\ created = [p \in Proc |-> 0]

Goto(p, from, to) ==
  /\ pc[p] = from
  /\ pc' = [pc EXCEPT ![p] = to]

\* Every way out of the loop is "if (stop_flag) break", every way round it
\* ends at the same test.
LoopOrBreak(p) == IF stop[p] THEN "stats" ELSE "check"

\* stop_flag is cleared, then the SIGINT handler is installed.
InstallHandler(p) ==
  /\ Goto(p, "start", "check")
  /\ stop' = [stop EXCEPT ![p] = FALSE]
  /\ UNCHANGED <<locks, lck, stats, created>>

\* The test at the head of the loop.
CheckStop(p) ==
  /\ \/ stop[p] /\ Goto(p, "check", "stats")
     \/ ~stop[p] /\ created[p] < MaxRounds[p] /\ Goto(p, "check", "open")
  /\ UNCHANGED <<stop, locks, lck, stats, created>>

\* Mutant: opened without O_EXCL, the file is taken over when it is there.
TryCreateShared(p) ==
  /\ Goto(p, "open", "write")
  /\ lckOwner' = p
  /\ lckText' = Garbage
  /\ created' = [created EXCEPT ![p] = @ + 1]
  /\ UNCHANGED <<stop, locks, stats>>

\* Mutant: the test for EEXIST is turned round, and a file that is there counts as created.
TryCreateEexistIgnored(p) ==
  /\ Goto(p, "open", "write")
  /\ lckOwner' = IF lckOwner = NoFile THEN p ELSE lckOwner
  /\ lckText' = IF lckOwner = NoFile THEN Garbage ELSE lckText
  /\ created' = [created EXCEPT ![p] = IF lckOwner = NoFile THEN @ + 1 ELSE @]
  /\ UNCHANGED <<stop, locks, stats>>

\* open(O_CREAT|O_EXCL): the one step that tests for the file and creates it.
TryCreateExclusive(p) ==
  /\ \/ /\ lckOwner = NoFile
        /\ Goto(p, "open", "write")
        /\ lckOwner' = p
        /\ lckText' = Garbage
        /\ created' = [created EXCEPT ![p] = @ + 1]
     \/ /\ lckOwner # NoFile
        /\ Goto(p, "open", "backoff")
        /\ UNCHANGED <<lck, created>>
  /\ UNCHANGED <<stop, locks, stats>>

\* Mutant: after the sleep the file is tried again without a look at stop_flag.
BackoffThenOpen(p) ==
  /\ Goto(p, "backoff", "open")
  /\ UNCHANGED <<stop, locks, lck, stats, created>>

\* Mutant: the sleep between two attempts ends with a signal only.
BackoffUntilSignal(p) ==
  /\ stop[p]
  /\ Goto(p, "backoff", "check")
  /\ UNCHANGED <<stop, locks, lck, stats, created>>

\* The sleep between two attempts, cut short by SIGINT.
Backoff(p) ==
  /\ Goto(p, "backoff", "check")
  /\ UNCHANGED <<stop, locks, lck, stats, created>>

\* Mutant: the lock file is left empty.
WriteNothing(p) ==
  /\ Goto(p, "write", "hold")
  /\ UNCHANGED <<stop, locks, lck, stats, created>>

\* The pid goes to the inode this process created, then the descriptor is closed.
WritePid(p) ==
  /\ Goto(p, "write", "hold")
  /\ lckText' = IF lckOwner = p THEN p ELSE lckText
  /\ UNCHANGED <<stop, locks, lckOwner, stats, created>>

\* Mutant: SIGINT during the second leaves the loop with the lock held.
HoldThenBreak(p) ==
  /\ Goto(p, "hold", IF stop[p] THEN "stats" ELSE "verify")
  /\ UNCHANGED <<stop, locks, lck, stats, created>>

\* One second with the lock held, cut short by SIGINT.
Hold(p) ==
  /\ Goto(p, "hold", "verify")
  /\ UNCHANGED <<stop, locks, lck, stats, created>>

VerifyResult(p) ==
  CASE lckOwner = NoFile  -> "VANISHED"
    [] lckOwner # NoFile /\ lckText = Garbage -> "BAD_CONTENT"
    [] lckOwner # NoFile /\ lckText # Garbage /\ lckText # p -> "PID_MISMATCH"
    [] lckOwner # NoFile /\ lckText # Garbage /\ lckText = p -> "OK"

\* The path is opened and read again.
VerifyOwner(p) ==
  /\ \/ VerifyResult(p) = "VANISHED" /\ Goto(p, "verify", LoopOrBreak(p))
     \/ VerifyResult(p) \in {"BAD_CONTENT", "PID_MISMATCH"} /\ Goto(p, "verify", "failed")
     \/ VerifyResult(p) = "OK" /\ Goto(p, "verify", "unlink")
  /\ UNCHANGED <<stop, locks, lck, stats, created>>

\* Mutant: SIGINT after unlink leaves the loop before locks is incremented.
UnlinkThenBreak(p) ==
  /\ Goto(p, "unlink", LoopOrBreak(p))
  /\ lckOwner' = NoFile
  /\ lckText' = Garbage
  /\ locks' = [locks EXCEPT ![p] = IF stop[p] THEN @ ELSE @ + 1]
  /\ UNCHANGED <<stop, stats, created>>

\* Mutant: locks counts down.
UnlinkCountsDown(p) ==
  /\ lckOwner # NoFile
  /\ Goto(p, "unlink", "rest")
  /\ lckOwner' = NoFile
  /\ lckText' = Garbage
  /\ locks' = [locks EXCEPT ![p] = @ - 1]
  /\ UNCHANGED <<stop, stats, created>>

\* Mutant: the counter is incremented and the file is kept.
UnlinkForgotten(p) ==
  /\ Goto(p, "unlink", "rest")
  /\ locks' = [locks EXCEPT ![p] = @ + 1]
  /\ UNCHANGED <<stop, lck, stats, created>>

\* unlink works on the path, whatever inode is there by now; only a removal is counted.
Unlink(p) ==
  /\ \/ /\ lckOwner = NoFile
        /\ Goto(p, "unlink", LoopOrBreak(p))
        /\ UNCHANGED <<locks, lck>>
     \/ /\ lckOwner # NoFile
        /\ Goto(p, "unlink", "rest")
        /\ lckOwner' = NoFile
        /\ lckText' = Garbage
        /\ locks' = [locks EXCEPT ![p] = @ + 1]
  /\ UNCHANGED <<stop, stats, created>>

\* The sleep after a lock and the test at the foot of the loop.
Rest(p) ==
  /\ Goto(p, "rest", LoopOrBreak(p))
  /\ UNCHANGED <<stop, locks, lck, stats, created>>

\* Mutant: the file is opened without O_APPEND, and the line replaces what is there.
OverwriteLine(p) ==
  stats' = <<Line("line", p, locks[p])>>

\* One O_APPEND write of the whole line.
AppendLine(p) ==
  stats' = IF EndsTorn
             THEN Append(Front(stats), Line("spoilt", p, locks[p]))
             ELSE Append(stats, Line("line", p, locks[p]))

WriteStats(p) ==
  /\ Goto(p, "stats", "close")
  /\ AppendLine(p)
  /\ UNCHANGED <<stop, locks, lck, created>>

\* The statistics file is closed and main returns EXIT_SUCCESS.
Return(p) ==
  /\ Goto(p, "close", "done")
  /\ UNCHANGED <<stop, locks, lck, stats, created>>

\* Everything main does by itself.
Main(p) ==
  \/ InstallHandler(p)
  \/ CheckStop(p)
  \/ TryCreateExclusive(p)
  \/ Backoff(p)
  \/ WritePid(p)
  \/ Hold(p)
  \/ VerifyOwner(p)
  \/ Unlink(p)
  \/ Rest(p)
  \/ WriteStats(p)
  \/ Return(p)

-----------------------------------------------------------------------------
(* What happens to the processes.                                          *)

\* SIGINT: the default action before the handler is there, stop_flag after.
Sigint(p) ==
  /\ pc[p] \notin Final
  /\ \/ pc[p] = "start" /\ pc' = [pc EXCEPT ![p] = "killed"] /\ UNCHANGED stop
     \/ pc[p] # "start" /\ stop' = [stop EXCEPT ![p] = TRUE] /\ UNCHANGED pc
  /\ UNCHANGED <<locks, lck, stats, created>>

\* SIGKILL, or any signal lockprog does not catch.
Kill(p) ==
  /\ pc[p] \notin Final
  /\ pc' = [pc EXCEPT ![p] = "killed"]
  /\ UNCHANGED <<stop, locks, lck, stats, created>>

\* A system call fails for good and the process leaves with EXIT_FAILURE, without removing
\* the lock file it may have created: sigaction, open, usleep, those of the check, unlink, close.
IoError(p) ==
  /\ pc[p] \in {"start", "open", "backoff", "verify", "unlink", "rest", "close"}
  /\ pc' = [pc EXCEPT ![p] = "failed"]
  /\ UNCHANGED <<stop, locks, lck, stats, created>>

\* The pid cannot be written whole, or it can and the close fails.
WriteError(p) ==
  /\ Goto(p, "write", "failed")
  /\ lckText' \in {lckText, IF lckOwner = p THEN p ELSE lckText}
  /\ UNCHANGED <<stop, locks, lckOwner, stats, created>>

\* The statistics file cannot be opened, or its write fails after a part of the line.
StatsError(p) ==
  /\ Goto(p, "stats", "failed")
  /\ \/ UNCHANGED stats
     \/ ~EndsTorn /\ stats' = Append(stats, Line("torn", p, locks[p]))
  /\ UNCHANGED <<stop, locks, lck, created>>

\* Someone else removes the lock file (rm -f), or puts another file in its place.
ExternalRemove ==
  /\ lckOwner # NoFile
  /\ lckOwner' = NoFile
  /\ lckText' = Garbage
  /\ UNCHANGED <<pc, stop, locks, stats, created>>

ExternalReplace ==
  /\ lckOwner' = Outsider
  /\ lckText' \in {Outsider, Garbage}
  /\ UNCHANGED <<pc, stop, locks, stats, created>>

-----------------------------------------------------------------------------

\* All processes have ended: nothing more happens.
Ended ==
  /\ \A p \in Proc : pc[p] \in Final
  /\ UNCHANGED vars

CleanNext == (\E p \in Proc : Main(p) \/ Sigint(p)) \/ Ended
Next == CleanNext \/ \E p \in Proc : Kill(p) \/ IoError(p) \/ WriteError(p) \/ StatsError(p)
HostileNext == CleanNext \/ ExternalRemove \/ ExternalReplace

\* A process that can run does run: the kernel schedules it and every sleep ends.
\* Signals, faults and outsiders owe nothing.
Fairness == \A p \in Proc : WF_vars(Main(p))

Spec        == Init /\ [][Next]_vars /\ Fairness        \* and crashes and I/O errors
HostileSpec == Init /\ [][HostileNext]_vars /\ Fairness \* signals and outsiders

-----------------------------------------------------------------------------
(* Properties.                                                             *)

TypeOK ==
  /\ pc \in [Proc -> Locations]
  /\ stop \in [Proc -> BOOLEAN]
  /\ locks \in [Proc -> Nat]
  /\ lckOwner \in Proc \cup {NoFile, Outsider}
  /\ lckText \in Proc \cup {Outsider, Garbage}
  /\ stats \in Seq(Lines)
  /\ created \in [Proc -> Nat]

\* No two processes are between the creation of the lock file and its removal
\* (lockprog.c main, 393-428), whatever crashes or fails on the way.
MutualExclusion ==
  \A p, q \in Proc : pc[p] \in Holding /\ pc[q] \in Holding => p = q

\* The strengthening that makes MutualExclusion inductive: a process that holds
\* the lock created the file that is at the path now, and its pid is in it once
\* it has been written (lockprog.c 393-407).
HolderOwnsFile ==
  \A p \in Proc :
    /\ pc[p] \in Holding => lckOwner = p
    /\ pc[p] \in Holding \ {"write"} => lckText = p

\* Unless an outsider interferes, the defensive branches of main (413-437) are
\* dead: a process that verifies finds its own pid, and one that unlinks removes
\* the file it created.
VerifyNeverSurprised ==
  \A p \in Proc :
    /\ pc[p] = "verify" => VerifyResult(p) = "OK"
    /\ pc[p] = "unlink" => lckOwner = p

\* The counter agrees with history: each lock file a process created has been
\* counted exactly once, except the one still at the path (lockprog.c 428-439).
Accounting ==
  \A p \in Proc : created[p] = locks[p] + (IF lckOwner = p THEN 1 ELSE 0)

\* A process leaves at most one line, and exactly one if it returned; the line
\* reads as the number of lock files the process created, and runs into another
\* only when a process failed in the middle of its own (lockprog.c 296-321, 452).
EntriesOf(p) == {i \in DOMAIN stats : stats[i].pid = p /\ stats[i].kind # "torn"}

ReportsComplete ==
  \A p \in Proc :
    /\ pc[p] = "done" => EntriesOf(p) # {}
    /\ \A i \in EntriesOf(p) :
         /\ EntriesOf(p) = {i}
         /\ stats[i].locks = created[p]
         /\ stats[i].kind = "spoilt" => \E q \in Proc : pc[q] = "failed"

\* A process that returns has removed every lock file it created, whenever SIGINT came;
\* only a process that failed or was killed leaves one (runme.sh TEST 4: after SIGINT no
\* .lck file is left).
NoLeftoverLock == \A p \in Proc : pc[p] = "done" => lckOwner # p

Orphaned == lckOwner \in Proc /\ pc[lckOwner] \in Final

\* A lock file whose creator is gone is never touched again: lockprog breaks no
\* stale lock (lockprog.c 393-401 only ever waits).
OrphanPersists == [][Orphaned => UNCHANGED lck]_vars

\* A lock file is removed, unless its creator dies with it.
ReleasedOrOrphaned == (lckOwner # NoFile) ~> (lckOwner = NoFile \/ Orphaned)

\* The lock is not left free for ever while a process that was not interrupted is after it,
\* however the attempts and the sleeps of all of them interleave (lockprog.c 393-401).
Wants(p) ==
  pc[p] \in {"check", "open", "backoff"} /\ ~stop[p] /\ created[p] < MaxRounds[p]

TakenWhenWanted == []<>(lckOwner # NoFile \/ ~\E p \in Proc : Wants(p))

\* SIGINT ends a process from wherever it is, also while an orphaned lock file
\* keeps it from the lock for ever (lockprog.c 388, 414, 430, 447).
StopTerminates == \A p \in Proc : stop[p] ~> pc[p] \in Final

\* "lock file owned by a different pid; refusing to unlink" (lockprog.c 424): a
\* process never removes a lock file another process created.
NeverUnlinksForeignLock ==
  [][\A p \in Proc : locks'[p] # locks[p] => lckOwner = p]_vars

\* The lock file implements the lock: its creator is the holder.
Mutex == INSTANCE FileMutex WITH None <- NoFile, holder <- lckOwner, count <- locks

ImplementsMutex == Mutex!Spec

=============================================================================
