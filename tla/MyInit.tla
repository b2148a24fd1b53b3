------------------------------- MODULE MyInit -------------------------------
(***************************************************************************)
(* task3-myinit/myinit.c: a daemon that runs one process per line of its   *)
(* configuration, starts again what ends, reloads on SIGHUP and stops on   *)
(* SIGTERM.                                                                *)
(*                                                                         *)
(* The daemon is one thread; what interleaves with it are the kernel's     *)
(* signals, which its handlers turn into flags, its children, which exec,  *)
(* exit and die on their own, and whoever edits the configuration file.    *)
(* A file is either one of the usable configurations or Unusable: missing, *)
(* malformed or without an entry, which the code answers alike.            *)
(*                                                                         *)
(* Any call may fail for a reason of its own.  After a waitpid that fails  *)
(* the code goes on as if no child were left: from then on those there are *)
(* have no entry the daemon would know of (GiveUp).                        *)
(***************************************************************************)
EXTENDS Naturals, Sequences, Functions, FiniteSetsExt

CONSTANTS
  Pid,      \* the process ids the kernel can give to children
  Usable,   \* configurations the parser accepts
  Size,     \* the number of entries of a usable configuration
  Unusable, \* any other content of the file
  NoConfig, \* g_config after free_config and memset: no entry
  NoPid,    \* the 0 of a free slot of g_children
  Null,     \* g_children after a failed calloc
  MaxHups,  \* how often SIGHUP is sent
  MaxEdits  \* how often the file is edited

ASSUME MyInitConstants ==
  /\ Size \in [Usable -> Nat \ {0}]
  /\ Unusable \notin Usable
  /\ NoConfig \notin Usable
  /\ NoPid \notin Pid
  /\ Null \notin Seq(Pid \cup {NoPid})
  /\ MaxHups \in Nat
  /\ MaxEdits \in Nat

VARIABLES
  pc,                 \* where main is
  phase,              \* which part of main this is; reloading and shutting_down are flags of the code
  reload_requested,   \* set by the handler of SIGHUP
  shutdown_requested, \* set by the handler of SIGTERM and SIGINT
  hupPending,         \* a SIGHUP waits in the kernel for the mask to be lifted
  disk,               \* the configuration file
  statted,            \* the file as fstat saw it
  config,             \* g_config
  children,           \* g_children
  kids,               \* the kernel's view of every pid
  runs,               \* the entry each child was forked for, or NoEntry if the daemon has given it up
  stale,              \* the file was edited after the last SIGHUP
  hups, edits,        \* how many signals were sent and edits made
  ignored             \* SIGCHLD was ignored by whoever started the daemon, which inherits that

daemonVars == <<pc, phase, config, children, statted>>
signalVars == <<reload_requested, shutdown_requested, hupPending, hups>>
kernelVars == <<kids, runs>>
worldVars == <<disk, stale, edits, ignored>>
vars == <<daemonVars, signalVars, kernelVars, worldVars>>

File == Usable \cup {Unusable}
Ends == {"done", "aborted", "killed", "crashed"}

Count == IF config = NoConfig THEN 0 ELSE Size[config]
Slot == 1..Count
NoEntry == [config |-> NoConfig, index |-> 0]
Unreaped == {p \in Pid : kids[p] # "none"}
Known == {p \in Unreaped : runs[p] # NoEntry}
Zombie == {p \in Pid : kids[p] = "zombie"}
FreeSlot == {i \in Slot : children[i] = NoPid}
Ended == pc \in Ends

Init ==
  /\ pc = "daemonize" /\ phase = "starting"
  /\ reload_requested = FALSE /\ shutdown_requested = FALSE
  /\ hupPending = FALSE /\ hups = 0
  /\ disk \in File /\ statted = disk /\ stale = FALSE /\ edits = 0
  /\ config = NoConfig /\ children = << >>
  /\ ignored \in BOOLEAN
  /\ kids = [p \in Pid |-> "none"]
  /\ runs = [p \in Pid |-> NoEntry]

-----------------------------------------------------------------------------
(* Signals, children and the file.                                         *)

\* Before its handlers are installed, a signal kills the daemon.
Signalled(flagged) ==
  /\ ~Ended
  /\ IF pc \in {"daemonize", "install"}
       THEN pc' = "killed" /\ UNCHANGED <<reload_requested, shutdown_requested, hupPending>>
       ELSE flagged /\ UNCHANGED pc
  /\ UNCHANGED <<phase, config, children, statted, kernelVars>>

\* reload_config keeps SIGHUP blocked; a blocked signal is kept once, however often it is sent.
Hup ==
  /\ hups < MaxHups
  /\ hups' = hups + 1
  /\ stale' = FALSE
  /\ Signalled(IF phase = "reloading"
               THEN hupPending' = TRUE /\ UNCHANGED <<reload_requested, shutdown_requested>>
               ELSE reload_requested' = TRUE /\ UNCHANGED <<hupPending, shutdown_requested>>)
  /\ UNCHANGED <<disk, edits, ignored>>

Term ==
  /\ ~shutdown_requested
  /\ Signalled(shutdown_requested' = TRUE /\ UNCHANGED <<reload_requested, hupPending>>)
  /\ UNCHANGED <<worldVars, hups>>

Edit ==
  /\ edits < MaxEdits
  /\ edits' = edits + 1
  /\ stale' = TRUE
  /\ disk' \in File \ {disk}
  /\ UNCHANGED ignored
  /\ UNCHANGED <<daemonVars, signalVars, kernelVars>>

Becomes(p, from, to) ==
  /\ kids[p] = from
  /\ kids' = [kids EXCEPT ![p] = to]
  /\ UNCHANGED <<daemonVars, signalVars, worldVars, runs>>

\* A child that ended waits to be reaped, unless SIGCHLD is ignored: then it is gone.
Gone == IF ignored THEN "none" ELSE "zombie"

Exec(p) == Becomes(p, "forked", "running")
ExecFails(p) == Becomes(p, "forked", Gone)
Exit(p) == \E state \in {"running", "deaf"} : Becomes(p, state, Gone)

\* SIGTERM ends the program a child runs, which as test_worker.c keeps the default action.
\* Before its execv the child still has the daemon's handler, which sets a flag nobody reads:
\* it is deaf from then on, as no child is sent a second SIGTERM.
Terminated(state) ==
  CASE state = "running" -> Gone
    [] state = "forked" -> "deaf"
    [] OTHER -> state

-----------------------------------------------------------------------------
(* Pieces of the daemon's steps.                                           *)

KeepSignals == UNCHANGED signalVars

\* Mutant: the request is cleared when the reload is over, not before it begins.
UnblockAndClear ==
  /\ reload_requested' = FALSE
  /\ hupPending' = FALSE
  /\ UNCHANGED <<shutdown_requested, hups>>

\* Leaving reload_config restores the mask, and a pending SIGHUP is delivered.
Unblock ==
  /\ reload_requested' = (reload_requested \/ hupPending)
  /\ hupPending' = FALSE
  /\ UNCHANGED <<shutdown_requested, hups>>

\* Mutant: the mask is not restored.
EndPhaseMasked == KeepSignals

EndPhase == IF phase = "reloading" THEN Unblock ELSE KeepSignals

\* Mutant: a failed reload ends the daemon as it is.
FailAndReturn ==
  /\ EndPhase
  /\ IF phase = "starting" THEN pc' = "aborted" ELSE pc' = "done"
  /\ UNCHANGED phase

\* main returns EXIT_FAILURE if it fails at the start, and shuts down otherwise.
Fail ==
  /\ EndPhase
  /\ IF phase = "starting" THEN pc' = "aborted" /\ UNCHANGED phase
                           ELSE pc' = "kill" /\ phase' = "shutting_down"

\* Mutant: the slot of a restarted process keeps its old pid.
ForkUnrecorded(p, i, after) ==
  /\ after[p] = "none"
  /\ kids' = [after EXCEPT ![p] = "forked"]
  /\ runs' = [runs EXCEPT ![p] = [config |-> config, index |-> i]]
  /\ UNCHANGED children

\* The child of a fork gets a pid that the kernel has free.
Fork(p, i, after) ==
  /\ after[p] = "none"
  /\ kids' = [after EXCEPT ![p] = "forked"]
  /\ runs' = [runs EXCEPT ![p] = [config |-> config, index |-> i]]
  /\ children' = [children EXCEPT ![i] = p]

Reaped(p) == [kids EXCEPT ![p] = "none"]

\* After a waitpid that failed nothing will look for the children there are.
GiveUp ==
  /\ runs' = [p \in Pid |-> NoEntry]
  /\ UNCHANGED <<children, kids>>

SlotsOf(p) == {i \in Slot : children[i] = p}

-----------------------------------------------------------------------------
(* The configuration, at the start and at a reload.                        *)

\* The parent has left; setsid, chdir, /dev/null and the log are in place, and the pid file,
\* if one was asked for, tells everybody where to send signals to.
Daemonize ==
  /\ pc = "daemonize" /\ pc' = "install"
  /\ UNCHANGED <<phase, config, children, statted, signalVars, kernelVars, worldVars>>

StartFails ==
  /\ pc \in {"daemonize", "install"} /\ pc' = "aborted"
  /\ UNCHANGED <<phase, config, children, statted, signalVars, kernelVars, worldVars>>

InstallHandlers ==
  /\ pc = "install" /\ pc' = "stat"
  /\ UNCHANGED <<phase, config, children, statted, signalVars, kernelVars, worldVars>>

Stat ==
  /\ pc = "stat" /\ pc' = "read"
  /\ statted' = disk
  /\ UNCHANGED <<phase, config, children, signalVars, kernelVars, worldVars>>

\* A file edited under the reader parses as anything: the old size bounds the new content,
\* and what a shorter file leaves of the buffer is not initialised.
Contents == IF disk = statted THEN {disk} ELSE File

\* The file is Unusable, or an open, a read or an allocation fails on one that is not.
ParseFails ==
  /\ pc = "read"
  /\ config' = NoConfig
  /\ Fail
  /\ UNCHANGED <<children, statted, kernelVars, worldVars>>

\* Mutant: the table of the first configuration is kept.
FirstTable(c) == IF children = << >> THEN [i \in 1..Size[c] |-> NoPid] ELSE children

NewTable(c) == [i \in 1..Size[c] |-> NoPid]

Parse ==
  /\ pc = "read" /\ pc' = "spawn"
  /\ config' \in Contents \ {Unusable}
  /\ children' = NewTable(config')
  /\ UNCHANGED <<phase, statted, signalVars, kernelVars, worldVars>>

CallocFails ==
  /\ pc = "read"
  /\ config' \in Contents \ {Unusable}
  /\ children' = Null
  /\ Fail
  /\ UNCHANGED <<statted, kernelVars, worldVars>>

SpawnNext ==
  /\ pc = "spawn"
  /\ FreeSlot # {}
  /\ \E p \in Pid : Fork(p, Min(FreeSlot), kids)
  /\ UNCHANGED <<pc, phase, config, statted, signalVars, worldVars>>

\* fork fails: spawn_all_children gives up with what it has started.
SpawnFails ==
  /\ pc = "spawn"
  /\ FreeSlot # {}
  /\ Fail
  /\ UNCHANGED <<config, children, statted, kernelVars, worldVars>>

SpawnEnds ==
  /\ pc = "spawn" /\ pc' = "top"
  /\ FreeSlot = {}
  /\ phase' = "serving"
  /\ EndPhase
  /\ UNCHANGED <<config, children, statted, kernelVars, worldVars>>

-----------------------------------------------------------------------------
(* The loop of main.  FullyStaffed shows that the branch that respawns all *)
(* is dead: every slot of the table is taken when waitpid says ECHILD,     *)
(* which it does only if SIGCHLD is ignored.                               *)

TakeShutdown ==
  /\ pc = "top" /\ pc' = "kill"
  /\ shutdown_requested
  /\ phase' = "shutting_down"
  /\ UNCHANGED <<config, children, statted, signalVars, kernelVars, worldVars>>

TakeReload ==
  /\ pc = "top" /\ pc' = "block"
  /\ ~shutdown_requested
  /\ reload_requested
  /\ reload_requested' = FALSE
  /\ UNCHANGED <<phase, config, children, statted, shutdown_requested, hupPending, hups, kernelVars, worldVars>>

TakeNothing ==
  /\ pc = "top" /\ pc' = "poll"
  /\ ~shutdown_requested
  /\ ~reload_requested
  /\ UNCHANGED <<phase, config, children, statted, signalVars, kernelVars, worldVars>>

\* Mutant: the loop goes back to waitpid without a look at its flags.
RestartAndPoll(p) ==
  /\ pc = "poll"
  /\ p \in Zombie
  /\ \E i \in SlotsOf(p), q \in Pid : Fork(q, i, Reaped(p))
  /\ UNCHANGED <<pc, phase, config, statted, signalVars, worldVars>>

\* waitpid(-1, WNOHANG) returns a child that ended, and its entry is started again.
Restart(p) ==
  /\ pc = "poll" /\ pc' = "top"
  /\ p \in Zombie
  /\ \E i \in SlotsOf(p), q \in Pid : Fork(q, i, Reaped(p))
  /\ UNCHANGED <<phase, config, statted, signalVars, worldVars>>

\* Mutant: the failure is only logged.
RestartFailureLogged(p) ==
  /\ pc = "poll" /\ pc' = "top"
  /\ p \in Zombie
  /\ SlotsOf(p) # {}
  /\ kids' = Reaped(p)
  /\ children' = [i \in DOMAIN children |-> IF i \in SlotsOf(p) THEN NoPid ELSE children[i]]
  /\ UNCHANGED <<phase, config, statted, runs, signalVars, worldVars>>

RestartFails(p) ==
  /\ pc = "poll" /\ pc' = "kill"
  /\ p \in Zombie
  /\ SlotsOf(p) # {}
  /\ kids' = Reaped(p)
  /\ children' = [i \in DOMAIN children |-> IF i \in SlotsOf(p) THEN NoPid ELSE children[i]]
  /\ phase' = "shutting_down"
  /\ UNCHANGED <<config, statted, runs, signalVars, worldVars>>

\* A child that was given up has ended: an unknown child, and a warning.
PollStranger(p) ==
  /\ pc = "poll" /\ pc' = "top"
  /\ p \in Zombie
  /\ SlotsOf(p) = {}
  /\ kids' = Reaped(p)
  /\ UNCHANGED <<phase, config, children, statted, runs, signalVars, worldVars>>

\* No child ended, or there is none although the table says so: a short sleep, which a
\* signal cuts short.
PollAgain ==
  /\ pc = "poll" /\ pc' = "top"
  /\ Zombie = {}
  /\ Unreaped # {} \/ FreeSlot # Slot
  /\ UNCHANGED <<phase, config, children, statted, signalVars, kernelVars, worldVars>>

\* waitpid fails otherwise: main returns, with its children as they are.
PollError ==
  /\ pc = "poll" /\ pc' = "done"
  /\ GiveUp
  /\ UNCHANGED <<phase, config, statted, signalVars, worldVars>>

-----------------------------------------------------------------------------
(* Stopping every process, for a reload or for good.                       *)

BlockHup ==
  /\ pc = "block" /\ pc' = "kill"
  /\ phase' = "reloading"
  /\ UNCHANGED <<config, children, statted, signalVars, kernelVars, worldVars>>

SendSigterm ==
  /\ pc = "kill" /\ pc' = "reap"
  /\ children # Null
  /\ kids' = [p \in Pid |-> IF SlotsOf(p) = {} THEN kids[p] ELSE Terminated(kids[p])]
  /\ UNCHANGED <<phase, config, children, statted, runs, signalVars, worldVars>>

\* send_sigterm_to_all_children reads g_children, which is NULL after a failed calloc.
SendSigtermCrashes ==
  /\ pc = "kill" /\ pc' = "crashed"
  /\ children = Null
  /\ UNCHANGED <<phase, config, children, statted, signalVars, kernelVars, worldVars>>

\* waitpid returns a child that ended, one of the table or one that was given up before.
Reap(p) ==
  /\ pc = "reap"
  /\ p \in Zombie
  /\ kids' = Reaped(p)
  /\ children' = [i \in DOMAIN children |-> IF i \in SlotsOf(p) THEN NoPid ELSE children[i]]
  /\ UNCHANGED <<pc, phase, config, statted, runs, signalVars, worldVars>>

\* Mutant: waitpid is asked not to block, and the loop ends with the children that still run.
NoneLeftToReap == Zombie = {}

\* waitpid says ECHILD.
NothingToReap == Unreaped = {}

AfterReap ==
  /\ pc = "reap"
  /\ IF phase = "reloading" THEN pc' = "stat" /\ config' = NoConfig
                            ELSE pc' = "done" /\ UNCHANGED config
  /\ UNCHANGED <<phase, children, statted, signalVars, worldVars>>

ReapEnds == NothingToReap /\ AfterReap /\ UNCHANGED kernelVars

\* waitpid fails otherwise: the wait is over, whoever is still there.
ReapError == GiveUp /\ AfterReap

-----------------------------------------------------------------------------

Daemon ==
  \/ Daemonize \/ StartFails \/ InstallHandlers \/ Stat \/ ParseFails \/ Parse \/ CallocFails
  \/ SpawnNext \/ SpawnFails \/ SpawnEnds
  \/ TakeShutdown \/ TakeReload \/ TakeNothing
  \/ (\E p \in Pid : Restart(p) \/ RestartFails(p) \/ PollStranger(p) \/ Reap(p))
  \/ PollAgain \/ BlockHup \/ SendSigterm \/ SendSigtermCrashes \/ ReapEnds

\* SIGKILL, or any signal myinit does not catch.
Kill ==
  /\ ~Ended
  /\ pc' = "killed"
  /\ UNCHANGED <<phase, config, children, statted, signalVars, kernelVars, worldVars>>

Stopped == Ended /\ UNCHANGED vars

Next ==
  \/ Daemon
  \/ PollError \/ ReapError \/ Kill
  \/ Hup \/ Term \/ Edit
  \/ \E p \in Pid : Exec(p) \/ ExecFails(p) \/ Exit(p)
  \/ Stopped

\* The daemon and the children on their way to execv are scheduled.  Nothing owes a signal,
\* an edit or a waitpid that fails, and a program need never exit by itself.
Fairness == WF_vars(Daemon) /\ \A p \in Pid : WF_vars(Exec(p))

Spec == Init /\ [][Next]_vars /\ Fairness

-----------------------------------------------------------------------------
(* Properties.                                                             *)

Locations == {"daemonize", "install", "stat", "read", "spawn", "top", "poll", "block", "kill", "reap"} \cup Ends
Phases == {"starting", "serving", "reloading", "shutting_down"}

\* The variables have their types; g_children is as long as the configuration it was made for.
TypeOK ==
  /\ pc \in Locations /\ phase \in Phases
  /\ reload_requested \in BOOLEAN /\ shutdown_requested \in BOOLEAN /\ hupPending \in BOOLEAN
  /\ disk \in File /\ statted \in File /\ stale \in BOOLEAN /\ ignored \in BOOLEAN
  /\ config \in Usable \cup {NoConfig}
  /\ children = Null \/ children \in Seq(Pid \cup {NoPid})
  /\ children # Null /\ config # NoConfig => DOMAIN children = Slot
  /\ kids \in [Pid -> {"none", "forked", "running", "deaf", "zombie"}]
  /\ runs \in [Pid -> [config : Usable \cup {NoConfig}, index : Nat]]
  /\ hups \in 0..MaxHups /\ edits \in 0..MaxEdits

\* Every unreaped child that was not given up is in g_children at the entry it was forked for,
\* so that it is stopped when the daemon stops.  Unless SIGCHLD is ignored the table has no other pid: kill
\* never reaches a process that is not the daemon's, and waitpid returns no stranger
\* (myinit.c 527-537, 638-647).
TableIsTheKernels ==
  children # Null /\ ~Ended =>
    /\ \A p \in Known :
         \E i \in SlotsOf(p) : runs[p] = [config |-> config, index |-> i]
    /\ ~ignored =>
         \A i \in Slot : children[i] # NoPid =>
           children[i] \in Known /\ runs[children[i]] = [config |-> config, index |-> i]

\* When the loop of main polls, every entry has a process, so that WNOHANG never says ECHILD;
\* with SIGCHLD ignored every entry is believed to have one, and none is ever started again
\* (myinit.c 841, 864-874).
FullyStaffed ==
  pc = "poll" => FreeSlot = {} /\ (ignored \/ Known # {})

\* No SIGHUP is lost: when the loop polls with no request outstanding, and the file has not been
\* edited since the last SIGHUP, the daemon serves what is in the file, whatever a read that
\* raced an edit returned in between.
UpToDate ==
  pc = "poll" /\ ~reload_requested /\ ~hupPending /\ ~stale => config = disk

\* A daemon that has started ends with no process left behind, whether main returns or a
\* failed calloc crashes it, except for those a failed waitpid made it give up: it stops what a
\* reload that failed half way had started, whichever configuration and table it is left with
\* (myinit.c 638-678, 735-741).  An uncaught signal and a start that fails (819) leave processes
\* behind, and nothing is said of them.
EndsAlone == pc \in {"done", "crashed"} => Known = {}

\* The processes are those the Supervisor allows: one to an entry, all of one configuration.
\* Those a failed waitpid made the daemon give up are no longer counted.
Sup == INSTANCE Supervisor
         WITH Config <- Usable, serving <- config, live <- [p \in Known |-> runs[p]]
ImplementsSupervisor == Sup!SupSpec

\* The daemon waits for a child that caught its SIGTERM in the daemon's handler, and that will
\* not be sent another.
Stuck == pc = "reap" /\ \E p \in Pid : kids[p] = "deaf"

ReloadOwed == reload_requested \/ hupPending \/ phase = "reloading"

\* A SIGHUP is answered by a reload or by the end of the daemon, or the daemon waits for ever
\* for a process that caught its SIGTERM before execv; a process that was sent none is no excuse.
ReloadsOrStuck == []<>(~ReloadOwed \/ Ended) \/ <>[]Stuck

\* The same of a shutdown: nothing but such a process keeps the daemon from its end.
EndsOrStuck == []<>(~shutdown_requested \/ Ended) \/ <>[]Stuck

\* src/README.md 77: on SIGHUP, rereads the configuration and restarts all, unless it is to shut down.
\* False: a child that was forked but has not reached execv catches its SIGTERM in the handler
\* it inherited, and the daemon waits for it.
ReloadsOnSighup == []<>(~ReloadOwed \/ shutdown_requested \/ Ended)

=============================================================================
