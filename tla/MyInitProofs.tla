---------------------------- MODULE MyInitProofs ----------------------------
(***************************************************************************)
(* MyInit keeps its table of children, stops them before it returns,       *)
(* serves the file of the last SIGHUP and implements Supervisor, for every *)
(* set of pids and configurations, any number of signals, edits and calls  *)
(* that fail, and with SIGCHLD ignored or not.                             *)
(***************************************************************************)
EXTENDS MyInit, WellFoundedInduction, TLAPS

USE MyInitConstants

\* Where main is decides the phase, and what there can be of children and configuration.
Shape ==
  /\ pc \in {"daemonize", "install"} => phase = "starting" /\ config = NoConfig
  /\ pc \in {"stat", "read"} => config = NoConfig
  /\ pc \in {"stat", "read", "spawn"} => phase \in {"starting", "reloading"}
  /\ pc = "spawn" => config \in Usable /\ children # Null
  /\ pc \in {"top", "poll", "block"} =>
       phase = "serving" /\ config \in Usable /\ children # Null /\ FreeSlot = {}
  /\ pc \in {"kill", "reap"} => phase \in {"reloading", "shutting_down"}
  /\ pc = "reap" => children # Null

\* When there can be no child that was not given up, and no zombie.
Childless ==
  /\ config = NoConfig \/ children = Null \/ pc \in {"done", "crashed"} => Known = {}
  /\ ignored => \A p \in Pid : kids[p] # "zombie"

\* With no SIGHUP unanswered and no edit after the last, what was read is what is there.
Fresh ==
  ~reload_requested /\ ~hupPending /\ ~stale =>
    /\ pc = "read" => statted = disk
    /\ pc \in {"spawn", "top", "poll"} => config = disk

IInv == TypeOK /\ Shape /\ Childless /\ TableIsTheKernels /\ Fresh

-----------------------------------------------------------------------------

LEMMA InitInv == Init => IInv
<1> SUFFICES ASSUME Init PROVE IInv
  OBVIOUS
<1>1. TypeOK
  <2>1. children = << >> /\ children \in Seq(Pid \cup {NoPid})
    BY DEF Init
  <2>3. /\ pc \in Locations /\ phase \in Phases
        /\ reload_requested \in BOOLEAN /\ shutdown_requested \in BOOLEAN /\ hupPending \in BOOLEAN
        /\ disk \in File /\ statted \in File /\ stale \in BOOLEAN /\ ignored \in BOOLEAN
        /\ runs \in [Pid -> [config : Usable \cup {NoConfig}, index : Nat]]
        /\ config = NoConfig /\ kids \in [Pid -> {"none", "forked", "running", "deaf", "zombie"}]
    BY DEF Init, Locations, Phases, NoEntry
  <2>4. hups \in 0..MaxHups /\ edits \in 0..MaxEdits
    BY DEF Init
  <2> QED
    BY <2>1, <2>3, <2>4 DEF TypeOK
<1>2. Known = {}
  BY DEF Init, Known, Unreaped
<1>4. Shape /\ Childless /\ Fresh
  BY <1>2 DEF Init, Shape, Childless, Fresh
<1>3. TableIsTheKernels
  BY <1>2 DEF Init, TableIsTheKernels, Slot, Count
<1> QED
  BY <1>1, <1>3, <1>4 DEF IInv

\* The entry of a configuration is not that of a child that was given up.
LEMMA EntryKnown ==
  ASSUME config \in Usable, NEW i
  PROVE  [config |-> config, index |-> i] # NoEntry
<1>1. [config |-> config, index |-> i].config # NoEntry.config
  BY DEF NoEntry
<1> QED
  BY <1>1

\* Steps that leave the table, the children and the configuration alone.
Quiet == UNCHANGED <<config, children, kids, runs, ignored>> /\ (Ended => Ended')

LEMMA QuietTable ==
  ASSUME TableIsTheKernels, Quiet
  PROVE  TableIsTheKernels'
  BY DEF TableIsTheKernels, Quiet, Known, Unreaped, SlotsOf, Slot, Count

LEMMA QuietKnown == ASSUME Quiet PROVE Known' = Known
  BY DEF Quiet, Known, Unreaped

LEMMA QuietType ==
  ASSUME TypeOK, Quiet,
         pc' \in Locations, phase' \in Phases,
         reload_requested' \in BOOLEAN, shutdown_requested' \in BOOLEAN, hupPending' \in BOOLEAN,
         disk' \in File, statted' \in File, stale' \in BOOLEAN,
         hups' \in 0..MaxHups, edits' \in 0..MaxEdits
  PROVE  TypeOK'
  BY DEF TypeOK, Quiet, Slot, Count

LEMMA HupInv == IInv /\ Hup => IInv'
<1> SUFFICES ASSUME IInv, Hup PROVE IInv'
  OBVIOUS
<1>1. Quiet
  BY DEF Hup, Signalled, kernelVars, Quiet, Ended, Ends
<1>2. TypeOK'
  <2>1. /\ pc' \in Locations /\ phase' \in Phases
        /\ reload_requested' \in BOOLEAN /\ shutdown_requested' \in BOOLEAN /\ hupPending' \in BOOLEAN
        /\ disk' \in File /\ statted' \in File /\ stale' \in BOOLEAN
    BY DEF IInv, Hup, Signalled, TypeOK, Locations, Ends
  <2>2. hups' \in 0..MaxHups /\ edits' \in 0..MaxEdits
    <3>1. hups \in 0..MaxHups /\ edits \in 0..MaxEdits /\ MaxHups \in Nat
      BY DEF IInv, TypeOK
    <3> QED
      BY <3>1 DEF Hup
  <2> QED
    BY <1>1, <2>1, <2>2, QuietType DEF IInv
<1>3. TableIsTheKernels'
  BY <1>1, QuietTable DEF IInv
<1>4. Shape' /\ Childless' /\ Fresh'
  BY <1>1, <1>2, QuietKnown DEF IInv, Hup, Signalled, Shape, Childless, Fresh, Quiet, FreeSlot, Slot, Count, TypeOK
<1> QED
  BY <1>2, <1>3, <1>4 DEF IInv

LEMMA TermInv == IInv /\ Term => IInv'
<1> SUFFICES ASSUME IInv, Term PROVE IInv'
  OBVIOUS
<1>1. Quiet /\ hups' = hups /\ edits' = edits /\ disk' = disk /\ stale' = stale
  BY DEF Term, Signalled, kernelVars, worldVars, Quiet, Ended, Ends
<1>2. TypeOK'
  <2>1. /\ pc' \in Locations /\ phase' \in Phases /\ statted' \in File
        /\ reload_requested' \in BOOLEAN /\ shutdown_requested' \in BOOLEAN /\ hupPending' \in BOOLEAN
    BY DEF IInv, Term, Signalled, TypeOK, Locations, Ends
  <2> QED
    BY <1>1, <2>1, QuietType DEF IInv, TypeOK
<1>3. TableIsTheKernels'
  BY <1>1, QuietTable DEF IInv
<1>4. Shape' /\ Childless' /\ Fresh'
  BY <1>1, QuietKnown DEF IInv, Term, Signalled, Shape, Childless, Fresh, Quiet, FreeSlot, Slot, Count, TypeOK
<1> QED
  BY <1>2, <1>3, <1>4 DEF IInv

LEMMA EditInv == IInv /\ Edit => IInv'
<1> SUFFICES ASSUME IInv, Edit PROVE IInv'
  OBVIOUS
<1>1. Quiet /\ UNCHANGED daemonVars /\ UNCHANGED signalVars /\ disk' \in File /\ stale' = TRUE
  BY DEF Edit, daemonVars, kernelVars, Quiet, Ended
<1>2. TypeOK'
  <2>1. edits' \in 0..MaxEdits
    <3>1. edits \in 0..MaxEdits /\ MaxEdits \in Nat
      BY DEF IInv, TypeOK
    <3> QED
      BY <3>1 DEF Edit
  <2> QED
    BY <1>1, <2>1, QuietType DEF IInv, TypeOK, daemonVars, signalVars
<1>3. TableIsTheKernels'
  BY <1>1, QuietTable DEF IInv
<1>4. Shape' /\ Childless' /\ Fresh'
  BY <1>1, QuietKnown DEF IInv, daemonVars, signalVars, Shape, Childless, Fresh, Quiet, FreeSlot, Slot, Count
<1> QED
  BY <1>2, <1>3, <1>4 DEF IInv

\* The steps of the daemon that move only main.
Moves ==
  \/ Daemonize \/ StartFails \/ InstallHandlers \/ Stat
  \/ SpawnFails \/ SpawnEnds
  \/ TakeShutdown \/ TakeReload \/ TakeNothing
  \/ PollAgain \/ BlockHup \/ SendSigtermCrashes \/ Kill

LEMMA MovesInv == IInv /\ Moves => IInv'
<1> SUFFICES ASSUME IInv, Moves PROVE IInv'
  OBVIOUS
<1> USE DEF signalVars, kernelVars, worldVars
<1>q. Quiet
  BY DEF Moves, Daemonize, StartFails, InstallHandlers, Stat, SpawnFails, SpawnEnds, TakeShutdown,
         TakeReload, TakeNothing, PollAgain, BlockHup, SendSigtermCrashes, Kill, Quiet, Ended, Ends
<1>w. disk' = disk /\ stale' = stale /\ hups' = hups /\ edits' = edits
  BY DEF Moves, Daemonize, StartFails, InstallHandlers, Stat, SpawnFails, SpawnEnds, TakeShutdown,
         TakeReload, TakeNothing, PollAgain, BlockHup, SendSigtermCrashes, Kill,
         Fail, EndPhase, Unblock, KeepSignals
<1>s. /\ shutdown_requested' \in BOOLEAN /\ reload_requested' \in BOOLEAN /\ hupPending' \in BOOLEAN
      /\ statted' \in File /\ pc' \in Locations /\ phase' \in Phases
  BY DEF IInv, TypeOK, Locations, Phases, Ends,
         Moves, Daemonize, StartFails, InstallHandlers, Stat, SpawnFails, SpawnEnds, TakeShutdown,
         TakeReload, TakeNothing, PollAgain, BlockHup, SendSigtermCrashes, Kill,
         Fail, EndPhase, Unblock, KeepSignals
<1>1. TypeOK'
  BY <1>q, <1>w, <1>s, QuietType DEF IInv, TypeOK
<1>2. TableIsTheKernels'
  BY <1>q, QuietTable DEF IInv
<1>3. FreeSlot' = FreeSlot
  BY <1>q DEF Quiet, FreeSlot, Slot, Count
<1>4. Shape'
  BY <1>q, <1>3 DEF IInv, Shape, Quiet, Ended, Ends, Moves, Daemonize, StartFails, InstallHandlers,
     Stat, SpawnFails, SpawnEnds, TakeShutdown, TakeReload, TakeNothing, PollAgain, BlockHup,
     SendSigtermCrashes, Kill, Fail
<1>5. Childless'
  BY <1>q, QuietKnown DEF IInv, Shape, Childless, Quiet, Moves, Daemonize, StartFails, InstallHandlers,
     Stat, SpawnFails, SpawnEnds, TakeShutdown, TakeReload, TakeNothing, PollAgain, BlockHup,
     SendSigtermCrashes, Kill, Fail
<1>6. Fresh'
  BY <1>q, <1>w DEF IInv, TypeOK, Fresh, Shape, Quiet, Moves, Daemonize, StartFails, InstallHandlers,
     Stat, SpawnFails, SpawnEnds, TakeShutdown, TakeReload, TakeNothing, PollAgain, BlockHup,
     SendSigtermCrashes, Kill, Fail, EndPhase, Unblock, KeepSignals
<1> QED
  BY <1>1, <1>2, <1>4, <1>5, <1>6 DEF IInv

\* Steps of a child: it stays where it is, or is gone because SIGCHLD is ignored.
LEMMA BecomesInv ==
  ASSUME IInv, NEW p \in Pid, NEW from \in {"forked", "running", "deaf"}, NEW to \in {"running", Gone},
         Becomes(p, from, to)
  PROVE  IInv'
<1>1. /\ kids[p] = from /\ kids' = [kids EXCEPT ![p] = to] /\ runs' = runs
      /\ UNCHANGED daemonVars /\ UNCHANGED signalVars /\ UNCHANGED worldVars
  BY DEF Becomes
<1>2. kids \in [Pid -> {"none", "forked", "running", "deaf", "zombie"}]
  BY DEF IInv, TypeOK
<1>3. /\ kids' \in [Pid -> {"none", "forked", "running", "deaf", "zombie"}]
      /\ \A q \in Pid : kids'[q] # "none" => kids[q] # "none"
      /\ ~ignored => \A q \in Pid : kids'[q] # "none" <=> kids[q] # "none"
  BY <1>1, <1>2 DEF Gone
<1>4. Known' \subseteq Known /\ (~ignored => Known' = Known)
  BY <1>1, <1>3 DEF Known, Unreaped
<1>5. /\ Slot' = Slot /\ FreeSlot' = FreeSlot /\ children' = children /\ config' = config
      /\ (\A q : SlotsOf(q)' = SlotsOf(q)) /\ Ended' = Ended
  BY <1>1 DEF daemonVars, FreeSlot, SlotsOf, Slot, Count, Ended
<1>6. TypeOK'
  BY <1>1, <1>3, <1>4, <1>5 DEF IInv, TypeOK, daemonVars, signalVars, worldVars
<1>7. Shape' /\ Fresh'
  BY <1>1, <1>5 DEF IInv, Shape, Fresh, daemonVars, signalVars, worldVars
<1>8. Childless'
  BY <1>1, <1>2, <1>3, <1>4 DEF IInv, Childless, Gone, daemonVars, worldVars
<1>9. TableIsTheKernels'
  BY <1>1, <1>4, <1>5 DEF IInv, TableIsTheKernels, worldVars
<1> QED
  BY <1>6, <1>7, <1>8, <1>9 DEF IInv

LEMMA ChildInv ==
  ASSUME IInv, NEW p \in Pid, Exec(p) \/ ExecFails(p) \/ Exit(p)
  PROVE  IInv'
<1>1. CASE Exec(p)
  BY <1>1, BecomesInv DEF Exec
<1>2. CASE ExecFails(p)
  BY <1>2, BecomesInv DEF ExecFails
<1>3. CASE Exit(p)
  BY <1>3, BecomesInv DEF Exit
<1> QED
  BY <1>1, <1>2, <1>3

-----------------------------------------------------------------------------

\* Without a configuration, and when a new table is made, nobody is in the table.
LEMMA ReadInv == IInv /\ (ParseFails \/ Parse \/ CallocFails) => IInv'
<1> SUFFICES ASSUME IInv, ParseFails \/ Parse \/ CallocFails PROVE IInv'
  OBVIOUS
<1> USE DEF signalVars, kernelVars, worldVars
<1>1. /\ pc = "read" /\ config = NoConfig /\ phase \in {"starting", "reloading"}
      /\ Known = {}
  BY DEF IInv, Shape, Childless, ParseFails, Parse, CallocFails
<1>2. /\ kids' = kids /\ runs' = runs /\ ignored' = ignored /\ disk' = disk /\ stale' = stale
      /\ hups' = hups /\ edits' = edits /\ statted' = statted
      /\ shutdown_requested' = shutdown_requested
  BY DEF ParseFails, Parse, CallocFails, Fail, EndPhase, Unblock, KeepSignals
<1>3. Known' = {}
  BY <1>1, <1>2 DEF Known, Unreaped
<1>4. CASE Parse
  <2>1. /\ pc' = "spawn" /\ phase' = phase /\ config' \in Contents \ {Unusable}
        /\ children' = [i \in 1..Size[config'] |-> NoPid]
        /\ UNCHANGED <<reload_requested, shutdown_requested, hupPending>>
    BY <1>4 DEF Parse, NewTable
  <2>2. config' \in Usable /\ Size[config'] \in Nat /\ (disk = statted => config' = disk)
    <3>1. config' \in Usable /\ (disk = statted => config' = disk)
      BY <2>1 DEF IInv, TypeOK, Contents, File
    <3> QED
      BY <3>1
  <2>3. children' \in Seq(Pid \cup {NoPid}) /\ DOMAIN children' = Slot'
    BY <2>1, <2>2 DEF Slot, Count
  <2>4. children' # Null
    BY <2>3
  <2>5. TypeOK'
    BY <1>2, <1>3, <2>1, <2>2, <2>3, <2>4 DEF IInv, TypeOK, Locations, Phases
  <2>6. Shape' /\ Childless'
    BY <1>1, <1>2, <1>3, <2>1, <2>2, <2>4 DEF IInv, Shape, Childless
  <2>7. TableIsTheKernels'
    BY <1>3, <2>1, <2>3, <2>4 DEF TableIsTheKernels
  <2>8. Fresh'
    BY <1>1, <1>2, <2>1, <2>2 DEF IInv, Fresh
  <2> QED
    BY <2>5, <2>6, <2>7, <2>8 DEF IInv
<1>5. CASE ParseFails \/ CallocFails
  <2>1. Fail
    BY <1>5 DEF ParseFails, CallocFails
  <2>2. IF phase = "starting" THEN pc' = "aborted" /\ phase' = phase
                              ELSE pc' = "kill" /\ phase' = "shutting_down"
    BY <2>1 DEF Fail
  <2>3. reload_requested' \in BOOLEAN /\ hupPending' \in BOOLEAN
    BY <2>1 DEF IInv, TypeOK, Fail, EndPhase, Unblock, KeepSignals
  <2>4. config' \in Usable \cup {NoConfig} /\ (children' = Null \/ (children' = children /\ config' = NoConfig))
    <3>1. Contents \ {Unusable} \subseteq Usable
      BY DEF IInv, TypeOK, Contents, File
    <3>2. CASE ParseFails
      BY <3>2 DEF ParseFails
    <3>3. CASE CallocFails
      BY <3>1, <3>3 DEF CallocFails
    <3> QED
      BY <1>5, <3>2, <3>3
  <2>5. TypeOK'
    BY <1>2, <1>3, <2>2, <2>3, <2>4 DEF IInv, TypeOK, Locations, Phases, Ends
  <2>6. Shape' /\ Fresh'
    BY <2>2 DEF Shape, Fresh
  <2>7. Childless'
    BY <1>2, <1>3 DEF IInv, Childless
  <2>8. TableIsTheKernels'
    <3>1. children' # Null => Slot' = {}
      BY <2>4 DEF Slot, Count
    <3> QED
      BY <1>3, <3>1 DEF TableIsTheKernels
  <2> QED
    BY <2>5, <2>6, <2>7, <2>8 DEF IInv
<1> QED
  BY <1>4, <1>5

-----------------------------------------------------------------------------

\* A set of natural numbers that is not empty has a least element.
LEMMA LeastNat ==
  ASSUME NEW T \in SUBSET Nat, T # {}
  PROVE  Min(T) \in T
<1>1. PICK m \in T : \A n \in T : <<n, m>> \notin OpToRel(<, Nat)
  BY NatLessThanWellFounded, WFMin
<1>2. \A n \in T : ~(n < m)
  BY <1>1 DEF OpToRel
<1>3. \A n \in T : m <= n
  BY <1>2
<1> QED
  BY <1>3 DEF Min

\* A table of the same length is a table.
LEMMA TableOf ==
  ASSUME NEW t \in Seq(Pid \cup {NoPid}), NEW f, DOMAIN f = DOMAIN t,
         f = [i \in DOMAIN t |-> f[i]], \A i \in DOMAIN t : f[i] \in Pid \cup {NoPid}
  PROVE  f \in Seq(Pid \cup {NoPid})
<1>1. DOMAIN t = 1..Len(t) /\ Len(t) \in Nat
  OBVIOUS
<1> QED
  BY <1>1

\* What is known of the table while main is in its loops.
LEMMA Tables ==
  ASSUME IInv, config \in Usable, children # Null
  PROVE  /\ children \in Seq(Pid \cup {NoPid}) /\ DOMAIN children = Slot
         /\ Slot = 1..Size[config] /\ Size[config] \in Nat \ {0}
         /\ FreeSlot \subseteq Slot /\ Slot \subseteq Nat
         /\ \A i \in Slot : children[i] \in Pid \cup {NoPid}
<1>1. children \in Seq(Pid \cup {NoPid}) /\ DOMAIN children = Slot
  BY DEF IInv, TypeOK
<1>2. Slot = 1..Size[config] /\ Size[config] \in Nat \ {0}
  BY DEF Slot, Count
<1>3. \A i \in Slot : children[i] \in Pid \cup {NoPid}
  BY <1>1
<1> QED
  BY <1>1, <1>2, <1>3 DEF FreeSlot

\* A child is forked for entry i, under a pid the kernel has free: no other child has this
\* entry, as slot i was free or is that of the child just reaped.
LEMMA ForkTable ==
  ASSUME IInv, config \in Usable, children # Null,
         NEW after \in [Pid -> {"none", "forked", "running", "deaf", "zombie"}],
         NEW q \in Pid, NEW i \in Slot, Fork(q, i, after), config' = config, ignored' = ignored,
         ~Ended,
         \A r \in Pid : after[r] # "none" => after[r] = kids[r] /\ children[i] # r,
         ~ignored => \A r \in Pid : kids[r] # "none" => after[r] # "none" \/ children[i] = r
  PROVE  /\ children' \in Seq(Pid \cup {NoPid}) /\ DOMAIN children' = Slot /\ Slot' = Slot
         /\ kids' \in [Pid -> {"none", "forked", "running", "deaf", "zombie"}]
         /\ runs' \in [Pid -> [config : Usable \cup {NoConfig}, index : Nat]]
         /\ FreeSlot' = FreeSlot \ {i}
         /\ (\A r \in Pid : kids[r] # "zombie") => (\A r \in Pid : kids'[r] # "zombie")
         /\ TableIsTheKernels'
<1>1. /\ after[q] = "none" /\ kids' = [after EXCEPT ![q] = "forked"]
      /\ runs' = [runs EXCEPT ![q] = [config |-> config, index |-> i]]
      /\ children' = [children EXCEPT ![i] = q]
  BY DEF Fork
<1>2. /\ children \in Seq(Pid \cup {NoPid}) /\ DOMAIN children = Slot /\ Slot' = Slot
      /\ Slot = 1..Size[config] /\ Slot \subseteq Nat
  BY Tables DEF Slot, Count
<1>3. children' \in Seq(Pid \cup {NoPid}) /\ DOMAIN children' = Slot
  BY <1>1, <1>2
<1>4. \A j \in Slot : children'[j] = IF j = i THEN q ELSE children[j]
  BY <1>1, <1>2
<1>5. /\ kids' \in [Pid -> {"none", "forked", "running", "deaf", "zombie"}]
      /\ \A r \in Pid : kids'[r] = IF r = q THEN "forked" ELSE after[r]
  BY <1>1
<1>6. /\ runs' \in [Pid -> [config : Usable \cup {NoConfig}, index : Nat]]
      /\ \A r \in Pid : runs'[r] = IF r = q THEN [config |-> config, index |-> i] ELSE runs[r]
  <2>1. runs \in [Pid -> [config : Usable \cup {NoConfig}, index : Nat]]
    BY DEF IInv, TypeOK
  <2>2. [config |-> config, index |-> i] \in [config : Usable \cup {NoConfig}, index : Nat]
    BY <1>2
  <2> QED
    BY <1>1, <2>1, <2>2
<1>7. FreeSlot' = FreeSlot \ {i}
  BY <1>2, <1>4 DEF FreeSlot
<1>8. /\ \A p \in Known : \E j \in Slot :
           children[j] = p /\ runs[p] = [config |-> config, index |-> j]
      /\ ~ignored => \A j \in Slot : children[j] # NoPid =>
           children[j] \in Known /\ runs[children[j]] = [config |-> config, index |-> j]
  BY DEF IInv, TableIsTheKernels, SlotsOf
<1>9. \A p \in Known' : \E j \in Slot :
        children'[j] = p /\ runs'[p] = [config |-> config, index |-> j]
  <2> SUFFICES ASSUME NEW p \in Known'
               PROVE  \E j \in Slot : children'[j] = p /\ runs'[p] = [config |-> config, index |-> j]
    OBVIOUS
  <2>0. CASE p = q
    <3>1. children'[i] = q /\ runs'[q] = [config |-> config, index |-> i]
      BY <1>4, <1>6
    <3> QED
      BY <2>0, <3>1
  <2>1. SUFFICES ASSUME p # q
                 PROVE  \E j \in Slot : children'[j] = p /\ runs'[p] = [config |-> config, index |-> j]
    BY <2>0
  <2>2. p \in Pid /\ after[p] # "none" /\ p \in Known /\ children[i] # p
    BY <2>1, <1>5, <1>6 DEF Known, Unreaped
  <2>3. PICK j \in Slot : children[j] = p /\ runs[p] = [config |-> config, index |-> j]
    BY <2>2, <1>8
  <2>4. j # i
    BY <2>2, <2>3
  <2> QED
    BY <2>1, <2>2, <2>3, <2>4, <1>4, <1>6
<1>10. ~ignored => \A j \in Slot : children'[j] # NoPid =>
         children'[j] \in Known' /\ runs'[children'[j]] = [config |-> config, index |-> j]
  <2>1. SUFFICES ASSUME ~ignored, NEW j \in Slot, children'[j] # NoPid
                 PROVE  children'[j] \in Known' /\ runs'[children'[j]] = [config |-> config, index |-> j]
    OBVIOUS
  <2>2. CASE j = i
    BY <2>2, <1>4, <1>5, <1>6, EntryKnown DEF Known, Unreaped
  <2>3. CASE j # i
    <3>1. children[j] \in Known /\ runs[children[j]] = [config |-> config, index |-> j]
      BY <2>1, <2>3, <1>4, <1>8
    <3>2. children[i] # children[j]
      <4>1. SUFFICES ASSUME children[i] = children[j] PROVE FALSE
        OBVIOUS
      <4>2. children[i] # NoPid
        BY <4>1, <3>1 DEF Known, Unreaped
      <4>3. runs[children[i]] = [config |-> config, index |-> i]
        BY <4>2, <2>1, <1>8
      <4> QED
        BY <4>1, <4>3, <3>1, <2>3
    <3>3. children[j] \in Pid /\ kids[children[j]] # "none"
      BY <3>1 DEF Known, Unreaped
    <3>4. after[children[j]] # "none"
      BY <2>1, <3>2, <3>3
    <3>5. children[j] # q
      BY <3>4, <1>1
    <3> QED
      BY <2>3, <3>1, <3>3, <3>4, <3>5, <1>4, <1>5, <1>6 DEF Known, Unreaped
  <2> QED
    BY <2>2, <2>3
<1>11. TableIsTheKernels'
  BY <1>2, <1>9, <1>10 DEF TableIsTheKernels, SlotsOf
<1> QED
  BY <1>2, <1>3, <1>5, <1>6, <1>7, <1>11

LEMMA SpawnNextInv == IInv /\ SpawnNext => IInv'
<1> SUFFICES ASSUME IInv, SpawnNext PROVE IInv'
  OBVIOUS
<1> USE DEF signalVars, kernelVars, worldVars
<1>1. /\ pc = "spawn" /\ FreeSlot # {} /\ config \in Usable /\ children # Null /\ ~Ended
      /\ phase \in {"starting", "reloading"}
      /\ UNCHANGED <<pc, phase, config, statted, signalVars, worldVars>>
  BY DEF IInv, Shape, SpawnNext, Ended, Ends
<1>2. Min(FreeSlot) \in FreeSlot
  <2>1. FreeSlot \subseteq Nat
    BY <1>1, Tables
  <2> QED
    BY <1>1, <2>1, LeastNat
<1> DEFINE i == Min(FreeSlot)
<1>3. i \in Slot /\ children[i] = NoPid
  BY <1>2 DEF FreeSlot
<1> HIDE DEF i
<1>4. PICK q \in Pid : Fork(q, i, kids)
  BY DEF SpawnNext, i
<1>5. kids \in [Pid -> {"none", "forked", "running", "deaf", "zombie"}]
  BY DEF IInv, TypeOK
<1>6. /\ children' \in Seq(Pid \cup {NoPid}) /\ DOMAIN children' = Slot /\ Slot' = Slot
      /\ kids' \in [Pid -> {"none", "forked", "running", "deaf", "zombie"}]
      /\ runs' \in [Pid -> [config : Usable \cup {NoConfig}, index : Nat]]
      /\ (\A r \in Pid : kids[r] # "zombie") => (\A r \in Pid : kids'[r] # "zombie")
      /\ TableIsTheKernels'
  BY <1>1, <1>3, <1>4, <1>5, ForkTable
<1>7. TypeOK'
  BY <1>1, <1>6 DEF IInv, TypeOK
<1>8. children' # Null
  BY <1>6
<1>9. Shape' /\ Childless' /\ Fresh'
  BY <1>1, <1>6, <1>8 DEF IInv, Shape, Childless, Fresh
<1> QED
  BY <1>6, <1>7, <1>9 DEF IInv

\* In the loop of main, a zombie that is in the table is there once.
LEMMA ZombieSlot ==
  ASSUME IInv, pc = "poll", NEW p \in Zombie, SlotsOf(p) # {}
  PROVE  /\ ~ignored /\ p \in Pid /\ kids[p] = "zombie"
         /\ config \in Usable /\ children # Null /\ ~Ended /\ FreeSlot = {} /\ phase = "serving"
         /\ \E i \in Slot : SlotsOf(p) = {i} /\ runs[p] = [config |-> config, index |-> i]
<1>1. ~ignored /\ p \in Pid /\ kids[p] = "zombie"
  BY DEF IInv, Childless, Zombie
<1>2. config \in Usable /\ children # Null /\ ~Ended /\ FreeSlot = {} /\ phase = "serving"
  BY DEF IInv, Shape, Ended, Ends
<1>3. PICK i \in SlotsOf(p) : TRUE
  OBVIOUS
<1>4. \A j \in SlotsOf(p) : runs[p] = [config |-> config, index |-> j]
  BY <1>1, <1>2 DEF IInv, TableIsTheKernels, SlotsOf
<1>5. SlotsOf(p) = {i}
  <2>1. \A j \in SlotsOf(p) : [config |-> config, index |-> j].index = [config |-> config, index |-> i].index
    BY <1>4
  <2>2. \A j \in SlotsOf(p) : j = i
    BY <2>1
  <2> QED
    BY <1>3, <2>2
<1>6. i \in Slot
  BY DEF SlotsOf
<1> QED
  BY <1>1, <1>2, <1>4, <1>5, <1>6

LEMMA RestartInv == ASSUME IInv, NEW p \in Pid, Restart(p) PROVE IInv'
<1> USE DEF signalVars, kernelVars, worldVars
<1>1. /\ pc = "poll" /\ pc' = "top" /\ p \in Zombie
      /\ UNCHANGED <<phase, config, statted, signalVars, worldVars>>
  BY DEF Restart
<1>2. /\ ~ignored /\ kids[p] = "zombie" /\ config \in Usable /\ children # Null /\ ~Ended
      /\ FreeSlot = {} /\ phase = "serving"
      /\ \E i \in Slot : SlotsOf(p) = {i}
  <2>1. SlotsOf(p) # {}
    BY DEF Restart
  <2> QED
    BY <1>1, <2>1, ZombieSlot
<1>3. PICK i \in SlotsOf(p), q \in Pid : Fork(q, i, Reaped(p))
  BY DEF Restart
<1>4. i \in Slot /\ children[i] = p
  BY DEF SlotsOf
<1>5. kids \in [Pid -> {"none", "forked", "running", "deaf", "zombie"}]
  BY DEF IInv, TypeOK
<1>6. /\ Reaped(p) \in [Pid -> {"none", "forked", "running", "deaf", "zombie"}]
      /\ \A r \in Pid : Reaped(p)[r] = IF r = p THEN "none" ELSE kids[r]
  BY <1>5 DEF Reaped
<1>7. /\ children' \in Seq(Pid \cup {NoPid}) /\ DOMAIN children' = Slot /\ Slot' = Slot
      /\ kids' \in [Pid -> {"none", "forked", "running", "deaf", "zombie"}]
      /\ runs' \in [Pid -> [config : Usable \cup {NoConfig}, index : Nat]]
      /\ FreeSlot' = FreeSlot \ {i}
      /\ TableIsTheKernels'
  BY <1>1, <1>2, <1>3, <1>4, <1>6, ForkTable
<1>8. TypeOK'
  BY <1>1, <1>7 DEF IInv, TypeOK, Locations
<1>9. children' # Null
  BY <1>7
<1>10. Shape' /\ Childless' /\ Fresh'
  BY <1>1, <1>2, <1>7, <1>9 DEF IInv, Shape, Childless, Fresh
<1> QED
  BY <1>7, <1>8, <1>10 DEF IInv

\* A child is reaped and its slot is free: what both loops do, without what follows.
LEMMA ReapTable ==
  ASSUME IInv, NEW p \in Zombie, ~Ended, children # Null, config' = config, runs' = runs,
         ignored' = ignored, kids' = Reaped(p),
         children' = [i \in DOMAIN children |-> IF i \in SlotsOf(p) THEN NoPid ELSE children[i]]
  PROVE  /\ children' \in Seq(Pid \cup {NoPid}) /\ DOMAIN children' = DOMAIN children
         /\ children' # Null /\ Slot' = Slot
         /\ kids' \in [Pid -> {"none", "forked", "running", "deaf", "zombie"}]
         /\ \A r \in Pid : kids'[r] = IF r = p THEN "none" ELSE kids[r]
         /\ Known' \subseteq Known
         /\ TableIsTheKernels'
<1>1. children \in Seq(Pid \cup {NoPid})
  BY DEF IInv, TypeOK
<1>2. children' \in Seq(Pid \cup {NoPid}) /\ DOMAIN children' = DOMAIN children
  <2>1. \A i \in DOMAIN children : children'[i] \in Pid \cup {NoPid}
    BY <1>1
  <2> QED
    BY <1>1, <2>1, TableOf
<1>3. children' # Null /\ Slot' = Slot
  BY <1>2 DEF Slot, Count
<1>4. /\ kids' \in [Pid -> {"none", "forked", "running", "deaf", "zombie"}]
      /\ \A r \in Pid : kids'[r] = IF r = p THEN "none" ELSE kids[r]
  BY DEF IInv, TypeOK, Reaped
<1>7. Known' \subseteq Known
  BY <1>4 DEF Known, Unreaped
<1>5. config = NoConfig \/ DOMAIN children = Slot
  BY DEF IInv, TypeOK
<1>6. TableIsTheKernels'
  <2>1. CASE config = NoConfig
    <3>1. Known' = {} /\ Slot' = {}
      BY <2>1, <1>3, <1>4 DEF IInv, Childless, Known, Unreaped, Slot, Count
    <3> QED
      BY <3>1 DEF TableIsTheKernels
  <2>2. CASE DOMAIN children = Slot
    <3>1. \A i \in Slot : children'[i] = IF children[i] = p THEN NoPid ELSE children[i]
      BY <2>2 DEF SlotsOf
    <3>2. p \in Pid /\ Known' = Known \ {p}
      BY <1>4 DEF Zombie, Known, Unreaped
    <3>3. \A r \in Known' : \E i \in Slot : children'[i] = r /\ runs[r] = [config |-> config, index |-> i]
      <4>1. SUFFICES ASSUME NEW r \in Known'
                     PROVE  \E i \in Slot : children'[i] = r /\ runs[r] = [config |-> config, index |-> i]
        OBVIOUS
      <4>2. PICK i \in SlotsOf(r) : runs[r] = [config |-> config, index |-> i]
        BY <3>2 DEF IInv, TableIsTheKernels
      <4>3. i \in Slot /\ children[i] = r /\ r # p
        BY <3>2 DEF SlotsOf
      <4> QED
        BY <4>2, <4>3, <3>1
    <3>4. ~ignored => \A i \in Slot : children'[i] # NoPid =>
            children'[i] \in Known' /\ runs[children'[i]] = [config |-> config, index |-> i]
      <4>1. SUFFICES ASSUME ~ignored, NEW i \in Slot, children'[i] # NoPid
                     PROVE  children'[i] \in Known' /\ runs[children'[i]] = [config |-> config, index |-> i]
        OBVIOUS
      <4>2. children'[i] = children[i] /\ children[i] # p /\ children[i] # NoPid
        BY <4>1, <3>1
      <4>3. children[i] \in Known /\ runs[children[i]] = [config |-> config, index |-> i]
        BY <4>1, <4>2 DEF IInv, TableIsTheKernels
      <4>4. children[i] \in Known \ {p}
        BY <4>2, <4>3
      <4>5. children[i] \in Known'
        BY <4>4, <3>2, ZenonT(60)
      <4>6. children'[i] \in Known'
        BY <4>2, <4>5, ZenonT(60)
      <4>7. runs[children'[i]] = [config |-> config, index |-> i]
        BY <4>2, <4>3
      <4> QED
        BY <4>6, <4>7
    <3>5. \A r \in Known' : \E i \in SlotsOf(r)' : runs'[r] = [config |-> config', index |-> i]
      BY <1>3, <3>3 DEF SlotsOf
    <3>6. ~ignored' => \A i \in Slot' : children'[i] # NoPid =>
            children'[i] \in Known' /\ runs'[children'[i]] = [config |-> config', index |-> i]
      BY <1>3, <3>4
    <3> QED
      BY <3>5, <3>6 DEF TableIsTheKernels
  <2> QED
    BY <1>5, <2>1, <2>2
<1> QED
  BY <1>2, <1>3, <1>4, <1>6, <1>7

LEMMA RestartFailsInv == ASSUME IInv, NEW p \in Pid, RestartFails(p) PROVE IInv'
<1> USE DEF signalVars, kernelVars, worldVars
<1>1. /\ pc = "poll" /\ pc' = "kill" /\ p \in Zombie /\ SlotsOf(p) # {} /\ phase' = "shutting_down"
      /\ kids' = Reaped(p)
      /\ children' = [i \in DOMAIN children |-> IF i \in SlotsOf(p) THEN NoPid ELSE children[i]]
      /\ UNCHANGED <<config, statted, runs, signalVars, worldVars>>
  BY DEF RestartFails
<1>2. config \in Usable /\ children # Null /\ ~Ended
  BY <1>1, ZombieSlot
<1>3. /\ children' \in Seq(Pid \cup {NoPid}) /\ DOMAIN children' = DOMAIN children
      /\ children' # Null /\ Slot' = Slot
      /\ kids' \in [Pid -> {"none", "forked", "running", "deaf", "zombie"}]
      /\ \A r \in Pid : kids'[r] = IF r = p THEN "none" ELSE kids[r]
      /\ Known' \subseteq Known
      /\ TableIsTheKernels'
  BY <1>1, <1>2, ReapTable
<1>4. TypeOK'
  BY <1>1, <1>2, <1>3 DEF IInv, TypeOK, Locations, Phases
<1>5. Shape' /\ Fresh'
  BY <1>1 DEF Shape, Fresh
<1>6. Childless'
  BY <1>1, <1>2, <1>3 DEF IInv, Childless
<1> QED
  BY <1>3, <1>4, <1>5, <1>6 DEF IInv

LEMMA ReapInv == ASSUME IInv, NEW p \in Pid, Reap(p) PROVE IInv'
<1> USE DEF signalVars, kernelVars, worldVars
<1>1. /\ pc = "reap" /\ p \in Zombie /\ kids' = Reaped(p)
      /\ children' = [i \in DOMAIN children |-> IF i \in SlotsOf(p) THEN NoPid ELSE children[i]]
      /\ UNCHANGED <<pc, phase, config, statted, runs, signalVars, worldVars>>
  BY DEF Reap
<1>2. children # Null /\ ~Ended
  BY <1>1 DEF IInv, Shape, Ended, Ends
<1>3. /\ children' \in Seq(Pid \cup {NoPid}) /\ DOMAIN children' = DOMAIN children
      /\ children' # Null /\ Slot' = Slot
      /\ kids' \in [Pid -> {"none", "forked", "running", "deaf", "zombie"}]
      /\ \A r \in Pid : kids'[r] = IF r = p THEN "none" ELSE kids[r]
      /\ Known' \subseteq Known
      /\ TableIsTheKernels'
  BY <1>1, <1>2, ReapTable
<1>4. TypeOK'
  BY <1>1, <1>2, <1>3 DEF IInv, TypeOK
<1>5. Shape' /\ Fresh'
  BY <1>1, <1>3 DEF IInv, Shape, Fresh
<1>6. Childless'
  BY <1>1, <1>2, <1>3 DEF IInv, Childless
<1> QED
  BY <1>3, <1>4, <1>5, <1>6 DEF IInv

LEMMA SendSigtermInv == IInv /\ SendSigterm => IInv'
<1> SUFFICES ASSUME IInv, SendSigterm PROVE IInv'
  OBVIOUS
<1> USE DEF signalVars, kernelVars, worldVars
<1>1. /\ pc = "kill" /\ pc' = "reap" /\ children # Null
      /\ kids' = [p \in Pid |-> IF SlotsOf(p) = {} THEN kids[p] ELSE Terminated(kids[p])]
      /\ UNCHANGED <<phase, config, children, statted, runs, signalVars, worldVars>>
  BY DEF SendSigterm
<1>2. kids \in [Pid -> {"none", "forked", "running", "deaf", "zombie"}]
  BY DEF IInv, TypeOK
<1>3. /\ kids' \in [Pid -> {"none", "forked", "running", "deaf", "zombie"}]
      /\ \A p \in Pid : \/ kids'[p] = kids[p]
                        \/ kids[p] = "running" /\ kids'[p] = Gone
                        \/ kids[p] = "forked" /\ kids'[p] = "deaf"
  BY <1>1, <1>2 DEF Terminated, Gone
<1>4. Known' \subseteq Known /\ (~ignored => Known' = Known)
  BY <1>1, <1>2, <1>3 DEF Known, Unreaped, Gone
<1>5. TypeOK'
  BY <1>1, <1>3 DEF IInv, TypeOK, Locations, Slot, Count
<1>6. Shape' /\ Fresh'
  BY <1>1 DEF IInv, Shape, Fresh
<1>7. Childless'
  BY <1>1, <1>2, <1>3, <1>4 DEF IInv, Childless, Gone
<1>8. TableIsTheKernels'
  <2>1. ~Ended /\ Slot' = Slot /\ \A p : SlotsOf(p)' = SlotsOf(p)
    BY <1>1 DEF Ended, Ends, Slot, Count, SlotsOf
  <2> QED
    BY <1>1, <1>4, <2>1 DEF IInv, TableIsTheKernels
<1> QED
  BY <1>5, <1>6, <1>7, <1>8 DEF IInv

\* The wait is over with nobody left that the daemon has not given up.
LEMMA AfterReapInv ==
  ASSUME IInv, AfterReap, kids' = kids, Known' = {},
         runs' \in [Pid -> [config : Usable \cup {NoConfig}, index : Nat]],
         ignored => \A p \in Pid : kids[p] # "zombie"
  PROVE  IInv'
<1> USE DEF signalVars, worldVars
<1>1. /\ pc = "reap"
      /\ IF phase = "reloading" THEN pc' = "stat" /\ config' = NoConfig
                                ELSE pc' = "done" /\ config' = config
      /\ UNCHANGED <<phase, children, statted, signalVars, worldVars>>
  BY DEF AfterReap
<1>2. TypeOK'
  BY <1>1 DEF IInv, TypeOK, Locations, Ends, Slot, Count
<1>3. Shape' /\ Fresh' /\ Childless'
  BY <1>1 DEF IInv, Shape, Fresh, Childless
<1>4. TableIsTheKernels'
  BY <1>1 DEF TableIsTheKernels, Slot, Count, Ended, Ends
<1> QED
  BY <1>2, <1>3, <1>4 DEF IInv

LEMMA ReapEndsInv == IInv /\ ReapEnds => IInv'
<1> SUFFICES ASSUME IInv, ReapEnds PROVE IInv'
  OBVIOUS
<1>1. Unreaped = {} /\ AfterReap /\ kids' = kids /\ runs' = runs
  BY DEF ReapEnds, NothingToReap, kernelVars
<1>2. Known' = {}
  BY <1>1 DEF Known, Unreaped
<1> QED
  BY <1>1, <1>2, AfterReapInv DEF IInv, TypeOK, Childless

\* Nobody is known after GiveUp.
LEMMA GivenUp ==
  ASSUME GiveUp
  PROVE  /\ children' = children /\ kids' = kids /\ Known' = {}
         /\ runs' \in [Pid -> [config : Usable \cup {NoConfig}, index : Nat]]
<1>1. runs' = [p \in Pid |-> NoEntry] /\ children' = children /\ kids' = kids
  BY DEF GiveUp
<1>2. NoEntry \in [config : Usable \cup {NoConfig}, index : Nat]
  BY DEF NoEntry
<1> QED
  BY <1>1, <1>2 DEF Known, Unreaped

LEMMA ReapErrorInv == IInv /\ ReapError => IInv'
  BY AfterReapInv, GivenUp DEF ReapError, IInv, Childless

LEMMA PollErrorInv == IInv /\ PollError => IInv'
<1> SUFFICES ASSUME IInv, PollError PROVE IInv'
  OBVIOUS
<1> USE DEF signalVars, worldVars
<1>1. /\ pc = "poll" /\ pc' = "done" /\ GiveUp
      /\ UNCHANGED <<phase, config, statted, signalVars, worldVars>>
  BY DEF PollError
<1>2. TypeOK'
  BY <1>1, GivenUp DEF IInv, TypeOK, Locations, Ends, Slot, Count
<1>3. Shape' /\ Fresh'
  BY <1>1 DEF Shape, Fresh
<1>4. Childless'
  BY <1>1, GivenUp DEF IInv, Childless
<1>5. TableIsTheKernels'
  BY <1>1 DEF TableIsTheKernels, Ended, Ends
<1> QED
  BY <1>2, <1>3, <1>4, <1>5 DEF IInv

\* A child that is not in the table is reaped.
LEMMA PollStrangerInv == ASSUME IInv, NEW p \in Pid, PollStranger(p) PROVE IInv'
<1> USE DEF signalVars, worldVars
<1>1. /\ pc = "poll" /\ pc' = "top" /\ p \in Zombie /\ SlotsOf(p) = {} /\ kids' = Reaped(p)
      /\ UNCHANGED <<phase, config, children, statted, runs, signalVars, worldVars>>
  BY DEF PollStranger
<1>2. children # Null /\ ~Ended /\ config \in Usable
  BY <1>1 DEF IInv, Shape, Ended, Ends
<1>3. children' = [i \in DOMAIN children |-> IF i \in SlotsOf(p) THEN NoPid ELSE children[i]]
  <2>1. children \in Seq(Pid \cup {NoPid})
    BY <1>2, Tables
  <2> QED
    BY <1>1, <2>1
<1>4. /\ Slot' = Slot /\ TableIsTheKernels'
      /\ kids' \in [Pid -> {"none", "forked", "running", "deaf", "zombie"}]
      /\ \A r \in Pid : kids'[r] = IF r = p THEN "none" ELSE kids[r]
      /\ Known' \subseteq Known
  BY <1>1, <1>2, <1>3, ReapTable
<1>5. TypeOK'
  BY <1>1, <1>4 DEF IInv, TypeOK, Locations
<1>6. FreeSlot' = FreeSlot
  BY <1>1, <1>4 DEF FreeSlot
<1>7. Shape' /\ Fresh'
  BY <1>1, <1>6 DEF IInv, Shape, Fresh
<1>8. Childless'
  BY <1>1, <1>4 DEF IInv, Childless
<1> QED
  BY <1>4, <1>5, <1>7, <1>8 DEF IInv

-----------------------------------------------------------------------------

LEMMA StepInv == IInv /\ [Next]_vars => IInv'
<1> SUFFICES ASSUME IInv, [Next]_vars PROVE IInv'
  OBVIOUS
<1>1. CASE Daemon
  <2>1. CASE Moves
    BY <2>1, MovesInv
  <2>2. CASE ParseFails \/ Parse \/ CallocFails
    BY <2>2, ReadInv
  <2>3. CASE SpawnNext
    BY <2>3, SpawnNextInv
  <2>4. CASE \E p \in Pid : Restart(p) \/ RestartFails(p) \/ PollStranger(p) \/ Reap(p)
    BY <2>4, RestartInv, RestartFailsInv, PollStrangerInv, ReapInv
  <2>5. CASE SendSigterm
    BY <2>5, SendSigtermInv
  <2>6. CASE ReapEnds
    BY <2>6, ReapEndsInv
  <2> QED
    BY <1>1, <2>1, <2>2, <2>3, <2>4, <2>5, <2>6 DEF Daemon, Moves
<1>2. CASE Hup \/ Term \/ Edit
  BY <1>2, HupInv, TermInv, EditInv
<1>5. CASE PollError \/ ReapError \/ Kill
  BY <1>5, PollErrorInv, ReapErrorInv, MovesInv DEF Moves
<1>3. CASE \E p \in Pid : Exec(p) \/ ExecFails(p) \/ Exit(p)
  BY <1>3, ChildInv
<1>4. CASE Stopped \/ UNCHANGED vars
  BY <1>4 DEF Stopped, vars, daemonVars, signalVars, kernelVars, worldVars, IInv, TypeOK, Shape, Childless,
     TableIsTheKernels, Fresh, FreeSlot, Slot, Count, SlotsOf, Known, Unreaped, Ended
<1> QED
  BY <1>1, <1>2, <1>3, <1>4, <1>5 DEF Next

\* The invariant all the following theorems rest on.
THEOREM Invariance == Spec => []IInv
BY InitInv, StepInv, PTL DEF Spec

\* The daemon's variables keep their types, and the table the length of its configuration.
THEOREM ThTypeCorrect == Spec => []TypeOK
<1>1. IInv => TypeOK
  BY DEF IInv
<1> QED
  BY <1>1, Invariance, PTL

\* g_children has every child that was not reaped, where it belongs, and no stranger.
THEOREM ThTableIsTheKernels == Spec => []TableIsTheKernels
<1>1. IInv => TableIsTheKernels
  BY DEF IInv
<1> QED
  BY <1>1, Invariance, PTL

\* When the loop of main asks waitpid, every entry has its process.
THEOREM ThFullyStaffed == Spec => []FullyStaffed
<1>1. IInv => FullyStaffed
  <2> SUFFICES ASSUME IInv, pc = "poll"
               PROVE  FreeSlot = {} /\ (ignored \/ Known # {})
    BY DEF FullyStaffed
  <2>1. FreeSlot = {} /\ config \in Usable /\ children # Null /\ ~Ended
    BY DEF IInv, Shape, Ended, Ends
  <2>2. 1 \in Slot
    <3>1. Slot = 1..Size[config] /\ Size[config] \in Nat \ {0}
      BY <2>1, Tables
    <3> QED
      BY <3>1
  <2>3. children[1] # NoPid
    BY <2>1, <2>2 DEF FreeSlot
  <2>4. ~ignored => children[1] \in Known
    BY <2>1, <2>2, <2>3 DEF IInv, TableIsTheKernels
  <2> QED
    BY <2>1, <2>4
<1> QED
  BY <1>1, Invariance, PTL

\* What is served is what the file held at the last SIGHUP.
THEOREM ThUpToDate == Spec => []UpToDate
<1>1. IInv => UpToDate
  BY DEF IInv, Fresh, UpToDate
<1> QED
  BY <1>1, Invariance, PTL

\* A daemon that started and then returns or crashes leaves no process behind that it was not
\* made to give up.
THEOREM ThEndsAlone == Spec => []EndsAlone
<1>1. IInv => EndsAlone
  BY DEF IInv, Childless, EndsAlone
<1> QED
  BY <1>1, Invariance, PTL

-----------------------------------------------------------------------------
(* The refinement: what Supervisor says of serving and live holds of       *)
(* config and of the children the kernel keeps.                            *)

Live == [p \in Known |-> runs[p]]

LEMMA NobodyLive == ASSUME Known = {} PROVE Live = << >>
  BY DEF Live

\* What keeps the children keeps what the supervisor sees.
LEMMA QuietStutters == ASSUME Quiet PROVE UNCHANGED Sup!supVars
  BY DEF Quiet, Sup!supVars, Known, Unreaped

\* Whatever only takes children away ends them.
LEMMA Ending ==
  ASSUME Known' \subseteq Known, runs' = runs, config' = config
  PROVE  Sup!SupNext
<1>0. PICK gone : gone = Known \ Known'
  OBVIOUS
<1>1. DOMAIN Live = Known
  BY DEF Live
<1>2. Live' = [p \in Known \ gone |-> Live[p]]
  BY <1>0 DEF Live
<1>3. Sup!End(gone)
  BY <1>1, <1>2 DEF Sup!End, Restrict, Sup!Restrict, Live
<1>4. gone \in SUBSET DOMAIN Live
  BY <1>0, <1>1
<1> QED
  BY <1>3, <1>4 DEF Sup!SupNext, Live

LEMMA Switching ==
  ASSUME Known' = {}
  PROVE  Sup!SupNext
<1>1. Live' = << >>
  BY DEF Live
<1> QED
  BY <1>1 DEF Sup!SupNext, Sup!Switch, Live

LEMMA Starting ==
  ASSUME IInv, SpawnNext
  PROVE  Sup!SupNext
<1>1. pc = "spawn" /\ FreeSlot # {} /\ config \in Usable /\ children # Null /\ ~Ended /\ config' = config
  BY DEF IInv, Shape, SpawnNext, Ended, Ends
<1> DEFINE i == Min(FreeSlot)
<1>2. i \in FreeSlot
  <2>1. FreeSlot \subseteq Nat
    BY <1>1, Tables
  <2> QED
    BY <1>1, <2>1, LeastNat
<1>3. i \in Slot /\ children[i] = NoPid /\ Slot = 1..Size[config]
  BY <1>1, <1>2 DEF FreeSlot, Slot, Count
<1> HIDE DEF i
<1>4. PICK q \in Pid : Fork(q, i, kids)
  BY DEF SpawnNext, i
<1>e. PICK e : e = [config |-> config, index |-> i]
  OBVIOUS
<1>5. /\ kids[q] = "none" /\ kids' = [kids EXCEPT ![q] = "forked"]
      /\ runs' = [runs EXCEPT ![q] = e]
  BY <1>4, <1>e DEF Fork
<1>6. /\ kids \in [Pid -> {"none", "forked", "running", "deaf", "zombie"}]
      /\ runs \in [Pid -> [config : Usable \cup {NoConfig}, index : Nat]]
  BY DEF IInv, TypeOK
<1>7. q \notin Known /\ Known' = Known \cup {q} /\ Known \subseteq Pid
  BY <1>1, <1>5, <1>6, <1>e, EntryKnown DEF Known, Unreaped
<1>8. \A r \in Known : runs[r] # e
  <2> SUFFICES ASSUME NEW r \in Known, runs[r] = e PROVE FALSE
    OBVIOUS
  <2>1. PICK j \in SlotsOf(r) : runs[r] = [config |-> config, index |-> j]
    BY <1>1 DEF IInv, TableIsTheKernels
  <2>2. j = i
    <3>1. [config |-> config, index |-> j].index = [config |-> config, index |-> i].index
      BY <2>1, <1>e
    <3> QED
      BY <3>1
  <2>3. children[i] = r
    BY <2>1, <2>2 DEF SlotsOf
  <2> QED
    BY <2>3, <1>3 DEF Known, Unreaped
<1>9. e \in Sup!Unstaffed
  <2>1. e \in Sup!Entry
    BY <1>1, <1>3, <1>e DEF Sup!Entry
  <2>2. e \notin Range(Live)
    BY <1>8 DEF Range, Live
  <2> QED
    BY <2>1, <2>2 DEF Sup!Unstaffed, Sup!Range, Range, Live
<1>10. DOMAIN Live = Known /\ DOMAIN Live' = Known'
  BY DEF Live
<1>11. Live' = [r \in Known \cup {q} |-> IF r = q THEN e ELSE Live[r]]
  <2>1. \A r \in Known \cup {q} : runs'[r] = IF r = q THEN e ELSE runs[r]
    BY <1>5, <1>6, <1>7
  <2> QED
    BY <1>7, <2>1 DEF Live
<1>12. Sup!Start(q, e)
  BY <1>1, <1>7, <1>9, <1>10, <1>11 DEF Sup!Start, Live
<1> QED
  BY <1>9, <1>12 DEF Sup!SupNext

LEMMA Replacing ==
  ASSUME IInv, NEW p \in Pid, Restart(p)
  PROVE  Sup!SupNext
<1>1. pc = "poll" /\ p \in Zombie /\ SlotsOf(p) # {} /\ config' = config
  BY DEF Restart
<1>2. PICK i \in Slot : SlotsOf(p) = {i} /\ runs[p] = [config |-> config, index |-> i]
  BY <1>1, ZombieSlot
<1>c. config \in Usable
  BY <1>1, ZombieSlot
<1>3. PICK q \in Pid : Fork(q, i, Reaped(p))
  BY <1>2 DEF Restart
<1>4. /\ kids \in [Pid -> {"none", "forked", "running", "deaf", "zombie"}]
      /\ runs \in [Pid -> [config : Usable \cup {NoConfig}, index : Nat]]
  BY DEF IInv, TypeOK
<1>5. /\ Reaped(p) \in [Pid -> {"none", "forked", "running", "deaf", "zombie"}]
      /\ \A r \in Pid : Reaped(p)[r] = IF r = p THEN "none" ELSE kids[r]
  BY <1>4 DEF Reaped
<1>6. /\ Reaped(p)[q] = "none" /\ kids' = [Reaped(p) EXCEPT ![q] = "forked"]
      /\ runs' = [runs EXCEPT ![q] = runs[p]]
  BY <1>2, <1>3 DEF Fork
<1>7. /\ p \in Known /\ q \notin Known \ {p} /\ Known \subseteq Pid
      /\ Known' = (Known \ {p}) \cup {q}
  BY <1>1, <1>2, <1>c, <1>4, <1>5, <1>6, EntryKnown DEF Known, Unreaped, Zombie
<1>8. DOMAIN Live = Known
  BY DEF Live
<1>9. Live' = [r \in (Known \ {p}) \cup {q} |-> IF r = q THEN Live[p] ELSE Live[r]]
  <2>1. \A r \in (Known \ {p}) \cup {q} : runs'[r] = IF r = q THEN runs[p] ELSE runs[r]
    BY <1>4, <1>6, <1>7
  <2> QED
    BY <1>7, <2>1 DEF Live
<1>10. Sup!Replace(p, q)
  BY <1>1, <1>7, <1>8, <1>9 DEF Sup!Replace, Live
<1> QED
  BY <1>7, <1>8, <1>10 DEF Sup!SupNext, Live

LEMMA StepRefines == IInv /\ [Next]_vars => [Sup!SupNext]_(Sup!supVars)
<1> SUFFICES ASSUME IInv, [Next]_vars PROVE Sup!SupNext \/ UNCHANGED Sup!supVars
  OBVIOUS
<1> USE DEF daemonVars, signalVars, kernelVars, worldVars
<1>k. kids \in [Pid -> {"none", "forked", "running", "deaf", "zombie"}]
  BY DEF IInv, TypeOK
<1>1. CASE Moves \/ Kill \/ Hup \/ Term \/ Edit \/ Stopped \/ UNCHANGED vars
  <2>1. Quiet
    BY <1>1 DEF Moves, Daemonize, StartFails, InstallHandlers, Stat, SpawnFails, SpawnEnds, TakeShutdown,
       TakeReload, TakeNothing, PollAgain, BlockHup, SendSigtermCrashes, Kill, Hup, Term, Signalled, Edit,
       Stopped, vars, Quiet, Ended, Ends
  <2> QED
    BY <2>1, QuietStutters
<1>2. CASE ParseFails \/ Parse \/ CallocFails
  <2>1. Known = {} /\ kids' = kids /\ runs' = runs
    BY <1>2 DEF IInv, Shape, Childless, ParseFails, Parse, CallocFails
  <2>2. Known' = {}
    BY <2>1 DEF Known, Unreaped
  <2> QED
    BY <2>2, Switching
<1>3. CASE ReapEnds \/ ReapError \/ PollError
  <2>1. Known' = {}
    BY <1>3, GivenUp DEF ReapEnds, ReapError, PollError, NothingToReap, Known, Unreaped
  <2> QED
    BY <2>1, Switching
<1>4. CASE SpawnNext
  BY <1>4, Starting
<1>5. CASE \E p \in Pid : Restart(p)
  BY <1>5, Replacing
<1>6. CASE SendSigterm
  <2>1. Known' \subseteq Known
    BY <1>6, <1>k DEF SendSigterm, Known, Unreaped, Terminated
  <2> QED
    BY <1>6, <2>1, Ending DEF SendSigterm
<1>7. CASE \E p \in Pid : RestartFails(p) \/ PollStranger(p) \/ Reap(p)
  <2>1. Known' \subseteq Known
    BY <1>7, <1>k DEF RestartFails, PollStranger, Reap, Reaped, Known, Unreaped
  <2> QED
    BY <1>7, <2>1, Ending DEF RestartFails, PollStranger, Reap
<1>8. CASE \E p \in Pid : Exec(p) \/ ExecFails(p) \/ Exit(p)
  <2>1. Known' \subseteq Known
    BY <1>8, <1>k DEF Exec, ExecFails, Exit, Becomes, Known, Unreaped
  <2> QED
    BY <1>8, <2>1, Ending DEF Exec, ExecFails, Exit, Becomes
<1> QED
  BY <1>1, <1>2, <1>3, <1>4, <1>5, <1>6, <1>7, <1>8 DEF Next, Daemon, Moves

\* myinit implements the supervisor: one process to an entry, all of one configuration, and no
\* process of a configuration survives into the next.
THEOREM ThImplementsSupervisor == Spec => ImplementsSupervisor
<1>1. Init => Sup!SupInit
  BY NobodyLive DEF Init, Sup!SupInit, Known, Unreaped, Live
<1> QED
  BY <1>1, StepRefines, Invariance, PTL DEF Spec, ImplementsSupervisor, Sup!SupSpec

=============================================================================
