-------------------------- MODULE LockProgProofs ---------------------------
(***************************************************************************)
(* Theorems about LockProg for every set of processes and every bound.     *)
(*                                                                         *)
(* All of them rest on one inductive invariant, IInv.  MutualExclusion     *)
(* alone is not inductive: that the file is there while p holds the lock   *)
(* does not follow from MutualExclusion, and it is what keeps a second     *)
(* creator out.  HolderOwnsFile says it, and says whose file it is, so     *)
(* that an unlink by p is known to remove p's file and leave every other   *)
(* holder's alone.                                                         *)
(***************************************************************************)
EXTENDS LockProg, TLAPS

\* Without outsiders the file at the path was created by one of the processes.
OnlyProcsCreate == lckOwner \in Proc \cup {NoFile}

IInv ==
  /\ TypeOK
  /\ OnlyProcsCreate
  /\ HolderOwnsFile
  /\ Accounting

USE LockConstants

-----------------------------------------------------------------------------

\* AppendLine keeps the statistics file a sequence of lines (lockprog.c 296-321).
LEMMA LineType ==
  ASSUME NEW p \in Proc, NEW n \in Nat, NEW k \in {"line", "torn", "spoilt"}
  PROVE  Line(k, p, n) \in Lines
BY DEF Line, Lines

LEMMA AppendType ==
  ASSUME NEW S, NEW s \in Seq(S), NEW x \in S
  PROVE  Append(s, x) \in Seq(S)
OBVIOUS

LEMMA AppendLineType ==
  ASSUME NEW p \in Proc, stats \in Seq(Lines), locks[p] \in Nat, AppendLine(p)
  PROVE  stats' \in Seq(Lines)
<1>1. CASE EndsTorn
  <2>1. stats # <<>>
    BY <1>1 DEF EndsTorn
  <2>2. Front(stats) \in Seq(Lines)
    BY <2>1 DEF Front
  <2>3. Line("spoilt", p, locks[p]) \in Lines
    BY LineType
  <2> QED
    BY <1>1, <2>2, <2>3 DEF AppendLine
<1>2. CASE ~EndsTorn
  <2>1. Line("line", p, locks[p]) \in Lines
    BY LineType
  <2> QED
    BY <1>2, <2>1 DEF AppendLine
<1> QED
  BY <1>1, <1>2

-----------------------------------------------------------------------------
(* Typing, with outsiders or without.                                      *)

THEOREM InitTypeOK == Init => TypeOK
<1> SUFFICES ASSUME Init PROVE TypeOK
  OBVIOUS
<1>1. stats \in Seq(Lines)
  BY DEF Init
<1> QED
  BY <1>1 DEF Init, TypeOK, Locations, Holding, Final

LEMMA GotoType ==
  ASSUME pc \in [Proc -> Locations], NEW p \in Proc, NEW from, NEW to \in Locations,
         Goto(p, from, to)
  PROVE  pc' \in [Proc -> Locations]
BY DEF Goto

\* Whatever main does by itself keeps the types.
LEMMA MainTypeOK ==
  ASSUME TypeOK, NEW p \in Proc, Main(p)
  PROVE  TypeOK'
<1> USE DEF TypeOK, Locations, Holding, Final, Goto, lck
<1>1. CASE InstallHandler(p)
  BY <1>1 DEF InstallHandler
<1>2. CASE CheckStop(p)
  BY <1>2 DEF CheckStop
<1>3. CASE TryCreateExclusive(p)
  <2>1. CASE lckOwner = NoFile
    <3>1. pc' \in [Proc -> Locations]
      BY <1>3, <2>1 DEF TryCreateExclusive
    <3>2. lckOwner' = p /\ lckText' = Garbage /\ UNCHANGED <<stop, locks, stats>>
      BY <1>3, <2>1 DEF TryCreateExclusive
    <3>3. created' \in [Proc -> Nat]
      BY <1>3, <2>1 DEF TryCreateExclusive
    <3> HIDE DEF Locations, Goto
    <3> QED
      BY <3>1, <3>2, <3>3
  <2>2. CASE lckOwner # NoFile
    BY <1>3, <2>2 DEF TryCreateExclusive
  <2> QED
    BY <2>1, <2>2
<1>4. CASE Backoff(p)
  BY <1>4 DEF Backoff
<1>5. CASE WritePid(p)
  BY <1>5 DEF WritePid
<1>6. CASE Hold(p)
  BY <1>6 DEF Hold
<1>7. CASE VerifyOwner(p)
  <2>1. LoopOrBreak(p) \in Locations
    BY DEF LoopOrBreak
  <2> QED
    BY <1>7, <2>1 DEF VerifyOwner
<1>8. CASE Unlink(p)
  <2>1. LoopOrBreak(p) \in Locations
    BY DEF LoopOrBreak
  <2>2. CASE lckOwner = NoFile
    BY <1>8, <2>1, <2>2 DEF Unlink
  <2>3. CASE lckOwner # NoFile
    <3>1. pc' \in [Proc -> Locations]
      BY <1>8, <2>3 DEF Unlink
    <3>2. lckOwner' = NoFile /\ lckText' = Garbage /\ UNCHANGED <<stop, stats, created>>
      BY <1>8, <2>3 DEF Unlink
    <3>3. locks' \in [Proc -> Nat]
      BY <1>8, <2>3 DEF Unlink
    <3> HIDE DEF Locations, Goto
    <3> QED
      BY <3>1, <3>2, <3>3
  <2> QED
    BY <2>2, <2>3
<1>9. CASE Rest(p)
  <2>1. LoopOrBreak(p) \in Locations
    BY DEF LoopOrBreak
  <2> QED
    BY <1>9, <2>1 DEF Rest
<1>10. CASE WriteStats(p)
  <2>1. stats' \in Seq(Lines)
    BY <1>10, AppendLineType DEF WriteStats
  <2>2. pc' \in [Proc -> Locations]
    BY <1>10 DEF WriteStats
  <2>3. UNCHANGED <<stop, locks, lckOwner, lckText, created>>
    BY <1>10 DEF WriteStats
  <2> HIDE DEF Locations, Goto
  <2> QED
    BY <2>1, <2>2, <2>3
<1>11. CASE Return(p)
  BY <1>11 DEF Return
<1> QED
  BY <1>1, <1>2, <1>3, <1>4, <1>5, <1>6, <1>7, <1>8, <1>9, <1>10, <1>11 DEF Main

\* So do signals and faults.
LEMMA FaultTypeOK ==
  ASSUME TypeOK, NEW p \in Proc,
         Sigint(p) \/ Kill(p) \/ IoError(p) \/ WriteError(p) \/ StatsError(p)
  PROVE  TypeOK'
<1> USE DEF TypeOK, Locations, Holding, Final, Goto, lck
<1>1. CASE Sigint(p)
  BY <1>1 DEF Sigint
<1>2. CASE Kill(p)
  BY <1>2 DEF Kill
<1>3. CASE IoError(p)
  BY <1>3 DEF IoError
<1>4. CASE WriteError(p)
  BY <1>4 DEF WriteError
<1>5. CASE StatsError(p)
  <2>1. Line("torn", p, locks[p]) \in Lines
    BY LineType
  <2>2. stats' \in {stats, Append(stats, Line("torn", p, locks[p]))}
    BY <1>5 DEF StatsError
  <2>3. stats' \in Seq(Lines)
    <3>1. stats \in Seq(Lines)
      OBVIOUS
    <3>2. Append(stats, Line("torn", p, locks[p])) \in Seq(Lines)
      BY <2>1, <3>1, AppendType
    <3> QED
      BY <2>2, <3>1, <3>2
  <2>4. pc' \in [Proc -> Locations]
    BY <1>5 DEF StatsError
  <2>5. UNCHANGED <<stop, locks, lckOwner, lckText, created>>
    BY <1>5 DEF StatsError
  <2> HIDE DEF Locations, Goto
  <2> QED
    BY <2>3, <2>4, <2>5
<1> QED
  BY <1>1, <1>2, <1>3, <1>4, <1>5

\* And outsiders.
LEMMA OutsiderTypeOK ==
  ASSUME TypeOK, ExternalRemove \/ ExternalReplace
  PROVE  TypeOK'
BY DEF TypeOK, ExternalRemove, ExternalReplace

LEMMA StepTypeOK == TypeOK /\ [Next \/ HostileNext]_vars => TypeOK'
<1> SUFFICES ASSUME TypeOK, [Next \/ HostileNext]_vars
             PROVE  TypeOK'
  OBVIOUS
<1>1. ASSUME NEW p \in Proc, Main(p) PROVE TypeOK'
  BY <1>1, MainTypeOK
<1>2. ASSUME NEW p \in Proc,
             Sigint(p) \/ Kill(p) \/ IoError(p) \/ WriteError(p) \/ StatsError(p)
      PROVE  TypeOK'
  BY <1>2, FaultTypeOK
<1>3. CASE ExternalRemove \/ ExternalReplace
  BY <1>3, OutsiderTypeOK
<1>4. CASE Ended \/ UNCHANGED vars
  BY <1>4 DEF Ended, vars, TypeOK
<1> QED
  BY <1>1, <1>2, <1>3, <1>4 DEF Next, HostileNext, CleanNext

\* The type invariant holds in every behaviour, with faults and with outsiders.
THEOREM TypeCorrect == Spec => []TypeOK
<1>1. TypeOK /\ [Next]_vars => TypeOK'
  BY StepTypeOK
<1> QED
  BY <1>1, InitTypeOK, PTL DEF Spec

THEOREM TypeCorrectHostile == HostileSpec => []TypeOK
<1>1. TypeOK /\ [HostileNext]_vars => TypeOK'
  BY StepTypeOK
<1> QED
  BY <1>1, InitTypeOK, PTL DEF HostileSpec

-----------------------------------------------------------------------------
(* The inductive invariant.                                                *)

THEOREM InitIInv == Init => IInv
<1> SUFFICES ASSUME Init PROVE IInv
  OBVIOUS
<1>1. TypeOK
  BY InitTypeOK
<1>2. OnlyProcsCreate
  BY DEF Init, OnlyProcsCreate
<1>3. HolderOwnsFile
  BY DEF Init, HolderOwnsFile, Holding
<1>4. Accounting
  BY DEF Init, Accounting
<1> QED
  BY <1>1, <1>2, <1>3, <1>4 DEF IInv

\* No outsider gets into the lock file by what the processes do.
LEMMA StepOnlyProcs ==
  ASSUME TypeOK, OnlyProcsCreate, [Next]_vars
  PROVE  OnlyProcsCreate'
<1> USE DEF OnlyProcsCreate, lck
<1>1. ASSUME NEW p \in Proc, Main(p) PROVE OnlyProcsCreate'
  BY <1>1 DEF Main, InstallHandler, CheckStop, TryCreateExclusive, Backoff, WritePid,
              Hold, VerifyOwner, Unlink, Rest, WriteStats, Return
<1>2. ASSUME NEW p \in Proc,
             Sigint(p) \/ Kill(p) \/ IoError(p) \/ WriteError(p) \/ StatsError(p)
      PROVE  OnlyProcsCreate'
  BY <1>2 DEF Sigint, Kill, IoError, WriteError, StatsError
<1>3. CASE Ended \/ UNCHANGED vars
  BY <1>3 DEF Ended, vars
<1> QED
  BY <1>1, <1>2, <1>3 DEF Next, CleanNext

\* A step of p that leaves the lock file alone and does not bring p into
\* Holding keeps HolderOwnsFile, provided it does not skip the write.
LEMMA QuietStepHolder ==
  ASSUME TypeOK, HolderOwnsFile, NEW p \in Proc, NEW to \in Locations,
         pc' = [pc EXCEPT ![p] = to], UNCHANGED lck,
         to \in Holding => to # "write" /\ pc[p] \in Holding \ {"write"}
  PROVE  HolderOwnsFile'
BY DEF TypeOK, HolderOwnsFile, Holding, lck

LEMMA MainHolder ==
  ASSUME IInv, NEW p \in Proc, Main(p)
  PROVE  HolderOwnsFile'
<1> USE DEF IInv, Goto
<1>a. LoopOrBreak(p) \in {"stats", "check"}
  BY DEF LoopOrBreak
<1>1. CASE InstallHandler(p)
  BY <1>1, QuietStepHolder DEF InstallHandler, Locations, Holding
<1>2. CASE CheckStop(p)
  BY <1>2, QuietStepHolder DEF CheckStop, Locations, Holding
<1>3. CASE TryCreateExclusive(p)
  <2>1. CASE lckOwner # NoFile
    BY <1>3, <2>1, QuietStepHolder DEF TryCreateExclusive, Locations, Holding
  <2>2. CASE lckOwner = NoFile
    <3>1. \A q \in Proc : pc[q] \notin Holding
      BY <2>2 DEF HolderOwnsFile
    <3>2. pc' = [pc EXCEPT ![p] = "write"] /\ lckOwner' = p
      BY <1>3, <2>2 DEF TryCreateExclusive
    <3>3. \A q \in Proc : pc'[q] \in Holding => q = p /\ pc'[q] = "write"
      BY <3>1, <3>2 DEF TypeOK
    <3> QED
      BY <3>2, <3>3 DEF HolderOwnsFile
  <2> QED
    BY <2>1, <2>2
<1>4. CASE Backoff(p)
  BY <1>4, QuietStepHolder DEF Backoff, Locations, Holding
<1>5. CASE WritePid(p)
  <2>1. lckOwner = p /\ lckOwner' = p /\ lckText' = p
    BY <1>5 DEF WritePid, HolderOwnsFile, Holding
  <2>2. \A q \in Proc : pc'[q] \in Holding => q = p
    BY <1>5, <2>1 DEF WritePid, HolderOwnsFile, TypeOK
  <2> QED
    BY <2>1, <2>2 DEF HolderOwnsFile
<1>6. CASE Hold(p)
  BY <1>6, QuietStepHolder DEF Hold, Locations, Holding
<1>7. CASE VerifyOwner(p)
  BY <1>7, <1>a, QuietStepHolder DEF VerifyOwner, Locations, Holding, Final
<1>8. CASE Unlink(p)
  <2>1. lckOwner = p
    BY <1>8 DEF Unlink, HolderOwnsFile, Holding
  <2>2. pc' = [pc EXCEPT ![p] = "rest"]
    BY <1>8, <2>1 DEF Unlink
  <2>3. \A q \in Proc : pc'[q] \notin Holding
    BY <2>1, <2>2 DEF HolderOwnsFile, TypeOK, Holding
  <2> QED
    BY <2>3 DEF HolderOwnsFile
<1>9. CASE Rest(p)
  BY <1>9, <1>a, QuietStepHolder DEF Rest, Locations, Holding
<1>10. CASE WriteStats(p)
  BY <1>10, QuietStepHolder DEF WriteStats, Locations, Holding, lck
<1>11. CASE Return(p)
  BY <1>11, QuietStepHolder DEF Return, Locations, Holding, Final
<1> QED
  BY <1>1, <1>2, <1>3, <1>4, <1>5, <1>6, <1>7, <1>8, <1>9, <1>10, <1>11 DEF Main

LEMMA FaultHolder ==
  ASSUME IInv, NEW p \in Proc,
         Sigint(p) \/ Kill(p) \/ IoError(p) \/ WriteError(p) \/ StatsError(p)
  PROVE  HolderOwnsFile'
<1> USE DEF IInv, Goto
<1>1. CASE Sigint(p)
  <2>1. CASE UNCHANGED pc
    BY <1>1, <2>1 DEF Sigint, HolderOwnsFile, lck
  <2>2. CASE pc' = [pc EXCEPT ![p] = "killed"]
    BY <1>1, <2>2, QuietStepHolder DEF Sigint, Locations, Holding, Final
  <2> QED
    BY <1>1, <2>1, <2>2 DEF Sigint
<1>2. CASE Kill(p)
  BY <1>2, QuietStepHolder DEF Kill, Locations, Holding, Final
<1>3. CASE IoError(p)
  BY <1>3, QuietStepHolder DEF IoError, Locations, Holding, Final
<1>4. CASE WriteError(p)
  <2>1. lckOwner = p /\ lckOwner' = p
    BY <1>4 DEF WriteError, HolderOwnsFile, Holding
  <2>2. pc' = [pc EXCEPT ![p] = "failed"]
    BY <1>4 DEF WriteError
  <2>3. \A q \in Proc : pc'[q] \notin Holding
    BY <2>1, <2>2 DEF HolderOwnsFile, TypeOK, Holding
  <2> QED
    BY <2>3 DEF HolderOwnsFile
<1>5. CASE StatsError(p)
  BY <1>5, QuietStepHolder DEF StatsError, Locations, Holding, Final, lck
<1> QED
  BY <1>1, <1>2, <1>3, <1>4, <1>5

\* A step that touches neither the lock file nor the counters keeps the account.
LEMMA QuietStepAccounting ==
  ASSUME Accounting, UNCHANGED <<lckOwner, locks, created>>
  PROVE  Accounting'
BY DEF Accounting

LEMMA StepAccounting ==
  ASSUME IInv, [Next]_vars
  PROVE  Accounting'
<1> USE DEF IInv, Goto, lck
<1>1. ASSUME NEW p \in Proc, TryCreateExclusive(p) PROVE Accounting'
  <2>1. CASE lckOwner = NoFile
    <3>1. /\ lckOwner' = p
          /\ created' = [created EXCEPT ![p] = @ + 1]
          /\ UNCHANGED locks
      BY <1>1, <2>1 DEF TryCreateExclusive
    <3>2. \A q \in Proc : created[q] = locks[q]
      BY <2>1 DEF Accounting, TypeOK
    <3> QED
      BY <3>1, <3>2 DEF Accounting, TypeOK
  <2>2. CASE lckOwner # NoFile
    BY <1>1, <2>2, QuietStepAccounting DEF TryCreateExclusive
  <2> QED
    BY <2>1, <2>2
<1>2. ASSUME NEW p \in Proc, Unlink(p) PROVE Accounting'
  <2>1. lckOwner = p
    BY <1>2 DEF Unlink, HolderOwnsFile, Holding
  <2>2. /\ lckOwner' = NoFile
        /\ locks' = [locks EXCEPT ![p] = @ + 1]
        /\ UNCHANGED created
    BY <1>2, <2>1 DEF Unlink
  <2> QED
    BY <2>1, <2>2 DEF Accounting, TypeOK
<1>3. ASSUME NEW p \in Proc,
             \/ InstallHandler(p) \/ CheckStop(p) \/ Backoff(p) \/ WritePid(p) \/ Hold(p)
             \/ VerifyOwner(p) \/ Rest(p) \/ WriteStats(p) \/ Return(p)
             \/ Sigint(p) \/ Kill(p) \/ IoError(p) \/ WriteError(p) \/ StatsError(p)
      PROVE  Accounting'
  BY <1>3, QuietStepAccounting
     DEF InstallHandler, CheckStop, Backoff, WritePid, Hold, VerifyOwner, Rest,
         WriteStats, Return, Sigint, Kill, IoError, WriteError, StatsError
<1>4. CASE Ended \/ UNCHANGED vars
  BY <1>4, QuietStepAccounting DEF Ended, vars
<1> QED
  BY <1>1, <1>2, <1>3, <1>4 DEF Next, CleanNext, Main

THEOREM StepIInv == IInv /\ [Next]_vars => IInv'
<1> SUFFICES ASSUME IInv, [Next]_vars
             PROVE  IInv'
  OBVIOUS
<1>1. TypeOK'
  BY StepTypeOK DEF IInv
<1>2. OnlyProcsCreate'
  BY StepOnlyProcs DEF IInv
<1>3. HolderOwnsFile'
  <2>1. ASSUME NEW p \in Proc, Main(p) PROVE HolderOwnsFile'
    BY <2>1, MainHolder
  <2>2. ASSUME NEW p \in Proc,
               Sigint(p) \/ Kill(p) \/ IoError(p) \/ WriteError(p) \/ StatsError(p)
        PROVE  HolderOwnsFile'
    BY <2>2, FaultHolder
  <2>3. CASE Ended \/ UNCHANGED vars
    BY <2>3 DEF Ended, vars, IInv, HolderOwnsFile
  <2> QED
    BY <2>1, <2>2, <2>3 DEF Next, CleanNext
<1>4. Accounting'
  BY StepAccounting
<1> QED
  BY <1>1, <1>2, <1>3, <1>4 DEF IInv

THEOREM Invariance == Spec => []IInv
BY InitIInv, StepIInv, PTL DEF Spec

-----------------------------------------------------------------------------
(* What follows from it.                                                   *)

\* A process between the creation of the lock file and its removal is alone there.
THEOREM ThMutualExclusion == Spec => []MutualExclusion
<1>1. IInv => MutualExclusion
  BY DEF IInv, HolderOwnsFile, MutualExclusion
<1> QED
  BY <1>1, Invariance, PTL

\* The process that holds the lock created the file at the path, and its pid is in it.
THEOREM ThHolderOwnsFile == Spec => []HolderOwnsFile
<1>1. IInv => HolderOwnsFile
  BY DEF IInv
<1> QED
  BY <1>1, Invariance, PTL

\* The branches of main for a lock file that vanished or changed are dead as
\* long as only lockprog touches it.
THEOREM ThVerifyNeverSurprised == Spec => []VerifyNeverSurprised
<1>1. ASSUME IInv PROVE VerifyNeverSurprised
  <2>1. ASSUME NEW p \in Proc, pc[p] = "verify" PROVE VerifyResult(p) = "OK"
    <3>1. lckOwner = p /\ lckText = p
      BY <1>1, <2>1 DEF IInv, HolderOwnsFile, Holding
    <3>2. lckOwner # NoFile /\ lckText # Garbage
      BY <3>1
    <3> QED
      BY <3>1, <3>2 DEF VerifyResult
  <2>2. ASSUME NEW p \in Proc, pc[p] = "unlink" PROVE lckOwner = p
    BY <1>1, <2>2 DEF IInv, HolderOwnsFile, Holding
  <2> QED
    BY <2>1, <2>2 DEF VerifyNeverSurprised
<1> QED
  BY <1>1, Invariance, PTL

\* LOCKS is the number of lock files the process created, less the one it still has.
THEOREM ThAccounting == Spec => []Accounting
<1>1. IInv => Accounting
  BY DEF IInv
<1> QED
  BY <1>1, Invariance, PTL

\* No step of a living process touches the lock file of a dead one.
THEOREM ThOrphanPersists == Spec => OrphanPersists
<1>1. ASSUME IInv, [Next]_vars, Orphaned PROVE UNCHANGED lck
  <2> USE DEF Goto
  <2>1. lckOwner \in Proc /\ lckOwner # NoFile /\ pc[lckOwner] \in Final
    BY <1>1 DEF Orphaned
  <2>2. \A p \in Proc : pc[p] \notin Holding
    BY <1>1, <2>1 DEF IInv, HolderOwnsFile, Holding, Final
  <2>3. ASSUME NEW p \in Proc, Main(p) PROVE UNCHANGED lck
    BY <2>1, <2>2, <2>3 DEF Main, InstallHandler, CheckStop, TryCreateExclusive, Backoff,
       WritePid, Hold, VerifyOwner, Unlink, Rest, WriteStats, Return, Holding, lck
  <2>4. ASSUME NEW p \in Proc,
               Sigint(p) \/ Kill(p) \/ IoError(p) \/ WriteError(p) \/ StatsError(p)
        PROVE  UNCHANGED lck
    BY <2>2, <2>4 DEF Sigint, Kill, IoError, WriteError, StatsError, Holding, lck
  <2>5. CASE Ended \/ UNCHANGED vars
    BY <2>5 DEF Ended, vars, lck
  <2> QED
    BY <1>1, <2>3, <2>4, <2>5 DEF Next, CleanNext
<1> QED
  BY <1>1, Invariance, PTL DEF Spec, OrphanPersists

\* Every step of lockprog is a step of the abstract lock, or none: creating the
\* file acquires it, removing it releases it, and a crash leaves it held.
THEOREM ThImplementsMutex == Spec => ImplementsMutex
<1>1. Init => Mutex!Init
  BY DEF Init, Mutex!Init
<1>2. ASSUME IInv, [Next]_vars PROVE [Mutex!Next]_(Mutex!vars)
  <2> USE DEF Goto, lck
  <2>1. ASSUME NEW p \in Proc, TryCreateExclusive(p) PROVE [Mutex!Next]_(Mutex!vars)
    BY <2>1 DEF TryCreateExclusive, Mutex!Next, Mutex!Acquire, Mutex!vars
  <2>2. ASSUME NEW p \in Proc, Unlink(p) PROVE [Mutex!Next]_(Mutex!vars)
    <3>1. lckOwner = p /\ lckOwner # NoFile
      BY <1>2, <2>2 DEF Unlink, IInv, HolderOwnsFile, Holding
    <3>2. Mutex!Release(p)
      BY <2>2, <3>1 DEF Unlink, Mutex!Release
    <3> QED
      BY <3>2 DEF Mutex!Next
  <2>3. ASSUME NEW p \in Proc,
               \/ InstallHandler(p) \/ CheckStop(p) \/ Backoff(p) \/ WritePid(p) \/ Hold(p)
               \/ VerifyOwner(p) \/ Rest(p) \/ WriteStats(p) \/ Return(p)
               \/ Sigint(p) \/ Kill(p) \/ IoError(p) \/ WriteError(p) \/ StatsError(p)
        PROVE  UNCHANGED (Mutex!vars)
    BY <2>3 DEF InstallHandler, CheckStop, Backoff, WritePid, Hold, VerifyOwner, Rest,
       WriteStats, Return, Sigint, Kill, IoError, WriteError, StatsError, Mutex!vars
  <2>4. CASE Ended \/ UNCHANGED vars
    BY <2>4 DEF Ended, vars, Mutex!vars
  <2> QED
    BY <1>2, <2>1, <2>2, <2>3, <2>4 DEF Next, CleanNext, Main
<1> QED
  BY <1>1, <1>2, Invariance, PTL DEF Spec, ImplementsMutex, Mutex!Spec

-----------------------------------------------------------------------------
(* What is left behind.                                                    *)

\* The creator of the file at the path is on its way to the unlink, or ended on that way.
OwnerHolds == lckOwner \in Proc => pc[lckOwner] \in Holding \cup {"failed", "killed"}

LEMMA MainOwnerHolds ==
  ASSUME IInv, OwnerHolds, NEW p \in Proc, Main(p)
  PROVE  OwnerHolds'
<1> USE DEF IInv, OwnerHolds, TypeOK, Goto, lck
<1>1. CASE TryCreateExclusive(p)
  BY <1>1 DEF TryCreateExclusive, Holding
<1>2. CASE Unlink(p)
  <2>1. lckOwner = p /\ lckOwner # NoFile
    BY <1>2 DEF Unlink, HolderOwnsFile, Holding
  <2>2. lckOwner' = NoFile
    BY <1>2, <2>1 DEF Unlink
  <2> QED
    BY <2>2, LockConstants
<1>3. CASE VerifyOwner(p)
  <2>1. lckOwner = p /\ lckText = p /\ p # NoFile /\ p # Garbage
    BY <1>3, LockConstants DEF VerifyOwner, HolderOwnsFile, Holding
  <2>2. VerifyResult(p) = "OK"
    BY <2>1 DEF VerifyResult
  <2>3. pc' = [pc EXCEPT ![p] = "unlink"] /\ UNCHANGED lckOwner
    BY <1>3, <2>2 DEF VerifyOwner
  <2> QED
    BY <2>1, <2>3 DEF Holding
<1>4. CASE WritePid(p) \/ Hold(p)
  BY <1>4 DEF WritePid, Hold, Holding
<1>5. CASE \/ InstallHandler(p) \/ CheckStop(p) \/ Backoff(p) \/ Rest(p)
           \/ WriteStats(p) \/ Return(p)
  <2>1. UNCHANGED lckOwner
    BY <1>5 DEF InstallHandler, CheckStop, Backoff, Rest, WriteStats, Return
  <2>2. pc[p] \notin Holding \cup {"failed", "killed"}
    BY <1>5 DEF InstallHandler, CheckStop, Backoff, Rest, WriteStats, Return, Holding
  <2>3. \A q \in Proc \ {p} : pc'[q] = pc[q]
    BY <1>5 DEF InstallHandler, CheckStop, Backoff, Rest, WriteStats, Return
  <2> QED
    BY <2>1, <2>2, <2>3
<1> QED
  BY <1>1, <1>2, <1>3, <1>4, <1>5 DEF Main

LEMMA FaultOwnerHolds ==
  ASSUME IInv, OwnerHolds, NEW p \in Proc,
         Sigint(p) \/ Kill(p) \/ IoError(p) \/ WriteError(p) \/ StatsError(p)
  PROVE  OwnerHolds'
<1> USE DEF IInv, OwnerHolds, TypeOK, Goto, lck
<1>1. UNCHANGED lckOwner
  BY DEF Sigint, Kill, IoError, WriteError, StatsError
<1>2. pc'[p] = pc[p] \/ pc'[p] \in {"failed", "killed"}
  BY DEF Sigint, Kill, IoError, WriteError, StatsError
<1>3. \A q \in Proc \ {p} : pc'[q] = pc[q]
  BY DEF Sigint, Kill, IoError, WriteError, StatsError
<1> QED
  BY <1>1, <1>2, <1>3

LEMMA StepOwnerHolds ==
  ASSUME IInv, OwnerHolds, [Next]_vars
  PROVE  OwnerHolds'
<1>1. CASE Ended \/ UNCHANGED vars
  BY <1>1 DEF Ended, vars, OwnerHolds
<1> QED
  BY <1>1, MainOwnerHolds, FaultOwnerHolds DEF Next, CleanNext

\* A process that returned has left no lock file, whatever signals and faults hit the others;
\* if nothing but SIGINT happens, none is left at all (runme.sh TEST 4).
THEOREM ThNoLeftoverLock == Spec => []NoLeftoverLock
<1>1. Init => IInv /\ OwnerHolds
  BY InitIInv, LockConstants DEF Init, OwnerHolds
<1>2. IInv /\ OwnerHolds /\ [Next]_vars => (IInv /\ OwnerHolds)'
  BY StepIInv, StepOwnerHolds
<1>3. IInv /\ OwnerHolds => NoLeftoverLock
  BY DEF OwnerHolds, NoLeftoverLock, Holding
<1> QED
  BY <1>1, <1>2, <1>3, PTL DEF Spec

-----------------------------------------------------------------------------
(* The statistics.                                                         *)

\* ReportsComplete with what it needs to be inductive: who has no line yet, and
\* that a torn line is the trace of a process that failed.
Reports ==
  /\ \A p \in Proc : pc[p] \in {"close", "done"} => EntriesOf(p) # {}
  /\ \A p \in Proc : pc[p] \notin {"close", "done", "failed", "killed"} => EntriesOf(p) = {}
  /\ \A p \in Proc : \A i \in EntriesOf(p) :
       /\ EntriesOf(p) = {i}
       /\ stats[i].locks = created[p]
       /\ stats[i].kind = "spoilt" => \E q \in Proc : pc[q] = "failed"
  /\ \A i \in DOMAIN stats : stats[i].kind = "torn" => \E q \in Proc : pc[q] = "failed"

LEMMA InitReports == Init => Reports
BY DEF Init, Reports, EntriesOf

\* A step of p that leaves the file alone, and does not undo what p has reported.
LEMMA QuietStepReports ==
  ASSUME TypeOK, Reports, UNCHANGED stats, NEW p \in Proc,
         \A q \in Proc \ {p} : pc'[q] = pc[q] /\ created'[q] = created[q],
         created'[p] = created[p] \/ pc[p] = "open",
         pc[p] = "failed" => pc'[p] = "failed",
         pc'[p] \in {"close", "done"} => pc[p] \in {"close", "done"},
         pc[p] \in {"close", "done", "failed", "killed"}
           => pc'[p] \in {"close", "done", "failed", "killed"}
  PROVE  Reports'
<1>1. \A q \in Proc : EntriesOf(q)' = EntriesOf(q)
  BY DEF EntriesOf
<1>2. \A q \in Proc : pc[q] = "failed" => pc'[q] = "failed"
  OBVIOUS
<1>3. \A q \in Proc : EntriesOf(q) # {} => created'[q] = created[q]
  BY DEF Reports
<1>4. \A q \in Proc : pc'[q] \in {"close", "done"} => EntriesOf(q)' # {}
  BY <1>1 DEF Reports
<1>5. \A q \in Proc : pc'[q] \notin {"close", "done", "failed", "killed"} => EntriesOf(q)' = {}
  BY <1>1 DEF Reports
<1>6. ASSUME NEW q \in Proc, NEW i \in EntriesOf(q)'
      PROVE  /\ EntriesOf(q)' = {i}
             /\ stats'[i].locks = created'[q]
             /\ stats'[i].kind = "spoilt" => \E r \in Proc : pc'[r] = "failed"
  <2>1. i \in EntriesOf(q)
    BY <1>1, <1>6
  <2>2. /\ EntriesOf(q) = {i}
        /\ stats[i].locks = created[q]
        /\ stats[i].kind = "spoilt" => \E r \in Proc : pc[r] = "failed"
    BY <2>1 DEF Reports
  <2> QED
    BY <1>1, <1>2, <1>3, <2>1, <2>2
<1>7. \A i \in DOMAIN stats' : stats'[i].kind = "torn" => \E q \in Proc : pc'[q] = "failed"
  BY <1>2 DEF Reports
<1> QED
  BY <1>4, <1>5, <1>6, <1>7 DEF Reports

\* A process that is about to report has counted every file it created.
LEMMA CountedAtStats ==
  ASSUME IInv, OwnerHolds, NEW p \in Proc, pc[p] = "stats"
  PROVE  locks[p] = created[p]
<1>1. lckOwner # p
  BY DEF OwnerHolds, Holding
<1> QED
  BY <1>1 DEF IInv, Accounting, TypeOK

\* What the append of a line does to the file: one place, new or torn before, gets the line.
LEMMA AppendLineEffect ==
  ASSUME TypeOK, NEW p \in Proc, AppendLine(p)
  PROVE  \E n \in Nat : \E k \in {"line", "spoilt"} :
           /\ DOMAIN stats' = DOMAIN stats \cup {n}
           /\ stats'[n] = Line(k, p, locks[p])
           /\ n \in DOMAIN stats => stats[n].kind = "torn"
           /\ k = "spoilt" => n \in DOMAIN stats
           /\ \A i \in DOMAIN stats \ {n} : stats'[i] = stats[i]
<1> DEFINE n == Len(stats)
<1>0. stats \in Seq(Lines) /\ n \in Nat /\ DOMAIN stats = 1 .. n
  BY DEF TypeOK
<1>1. CASE EndsTorn
  <2>1. stats # <<>> /\ stats[n].kind = "torn"
    BY <1>1 DEF EndsTorn, Last
  <2>2. n \in Nat \ {0}
    BY <1>0, <2>1
  <2>3. Front(stats) = [i \in 1 .. n - 1 |-> stats[i]]
    BY <1>0, <2>2 DEF Front
  <2>4. Front(stats) \in Seq(Lines) /\ Len(Front(stats)) = n - 1
    BY <1>0, <2>2, <2>3
  <2>5. stats' = Append(Front(stats), Line("spoilt", p, locks[p]))
    BY <1>1 DEF AppendLine
  <2>6. Line("spoilt", p, locks[p]) \in Lines
    BY LineType DEF TypeOK
  <2> HIDE DEF n
  <2>7. /\ DOMAIN stats' = 1 .. n
        /\ stats'[n] = Line("spoilt", p, locks[p])
        /\ \A i \in 1 .. n - 1 : stats'[i] = Front(stats)[i]
    BY <2>2, <2>4, <2>5, <2>6
  <2>8. \A i \in DOMAIN stats \ {n} : stats'[i] = stats[i]
    BY <1>0, <2>2, <2>3, <2>7
  <2> QED
    BY <1>0, <2>1, <2>2, <2>7, <2>8
<1>2. CASE ~EndsTorn
  <2>1. stats' = Append(stats, Line("line", p, locks[p]))
    BY <1>2 DEF AppendLine
  <2>2. Line("line", p, locks[p]) \in Lines
    BY LineType DEF TypeOK
  <2> HIDE DEF n
  <2>3. /\ DOMAIN stats' = 1 .. n + 1
        /\ stats'[n + 1] = Line("line", p, locks[p])
        /\ \A i \in 1 .. n : stats'[i] = stats[i]
    BY <1>0, <2>1, <2>2 DEF n
  <2>4. DOMAIN stats' = DOMAIN stats \cup {n + 1} /\ n + 1 \notin DOMAIN stats
    BY <1>0, <2>3
  <2> QED
    BY <1>0, <2>3, <2>4
<1> QED
  BY <1>1, <1>2

LEMMA WriteStatsReports ==
  ASSUME IInv, OwnerHolds, Reports, NEW p \in Proc, WriteStats(p)
  PROVE  Reports'
<1>0. /\ pc[p] = "stats"
      /\ pc' = [pc EXCEPT ![p] = "close"]
      /\ created' = created
      /\ AppendLine(p)
  BY DEF WriteStats, Goto
<1>1. PICK n \in Nat, k \in {"line", "spoilt"} :
        /\ DOMAIN stats' = DOMAIN stats \cup {n}
        /\ stats'[n] = Line(k, p, locks[p])
        /\ n \in DOMAIN stats => stats[n].kind = "torn"
        /\ k = "spoilt" => n \in DOMAIN stats
        /\ \A i \in DOMAIN stats \ {n} : stats'[i] = stats[i]
  BY <1>0, AppendLineEffect DEF IInv
<1>2. stats'[n].kind = k /\ stats'[n].pid = p /\ stats'[n].locks = created[p]
  BY <1>0, <1>1, CountedAtStats DEF Line
<1>3. EntriesOf(p) = {}
  BY <1>0 DEF Reports
<1>4. EntriesOf(p)' = {n}
  BY <1>1, <1>2, <1>3 DEF EntriesOf
<1>5. \A q \in Proc \ {p} : EntriesOf(q)' = EntriesOf(q)
  BY <1>1, <1>2 DEF EntriesOf
<1>6. \A q \in Proc \ {p} : pc'[q] = pc[q]
  BY <1>0 DEF IInv, TypeOK
<1>7. pc'[p] = "close"
  BY <1>0 DEF IInv, TypeOK
<1>8. (\E q \in Proc : pc[q] = "failed") => \E q \in Proc : pc'[q] = "failed"
  BY <1>0, <1>6
<1>9. k = "spoilt" => \E q \in Proc : pc[q] = "failed"
  BY <1>1 DEF Reports
<1>10. ASSUME NEW q \in Proc, NEW i \in EntriesOf(q)'
       PROVE  /\ EntriesOf(q)' = {i}
              /\ stats'[i].locks = created'[q]
              /\ stats'[i].kind = "spoilt" => \E r \in Proc : pc'[r] = "failed"
  <2>1. CASE q = p
    BY <1>0, <1>2, <1>4, <1>8, <1>9, <1>10, <2>1
  <2>2. CASE q # p
    <3>1. i \in EntriesOf(q) /\ EntriesOf(q)' = EntriesOf(q)
      BY <1>5, <1>10, <2>2
    <3>2. /\ EntriesOf(q) = {i}
          /\ stats[i].locks = created[q]
          /\ stats[i].kind = "spoilt" => \E r \in Proc : pc[r] = "failed"
      BY <3>1 DEF Reports
    <3>3. i \in DOMAIN stats /\ i # n
      BY <1>1, <3>1 DEF EntriesOf
    <3>4. stats'[i] = stats[i]
      BY <1>1, <3>3
    <3> QED
      BY <1>0, <1>8, <3>1, <3>2, <3>4
  <2> QED
    BY <2>1, <2>2
<1>11. \A i \in DOMAIN stats' : stats'[i].kind = "torn" => \E q \in Proc : pc'[q] = "failed"
  BY <1>1, <1>2, <1>8 DEF Reports
<1>12. \A q \in Proc : pc'[q] \in {"close", "done"} => EntriesOf(q)' # {}
  BY <1>4, <1>5, <1>6 DEF Reports
<1>13. \A q \in Proc : pc'[q] \notin {"close", "done", "failed", "killed"} => EntriesOf(q)' = {}
  BY <1>5, <1>6, <1>7 DEF Reports
<1> QED
  BY <1>10, <1>11, <1>12, <1>13 DEF Reports

LEMMA TornReports ==
  ASSUME TypeOK, Reports, NEW p \in Proc, pc[p] = "stats",
         pc' = [pc EXCEPT ![p] = "failed"], UNCHANGED created,
         stats' = Append(stats, Line("torn", p, locks[p]))
  PROVE  Reports'
<1> DEFINE n == Len(stats)
<1>0. n \in Nat /\ DOMAIN stats = 1 .. n /\ Line("torn", p, locks[p]) \in Lines
  BY LineType DEF TypeOK
<1>1. /\ DOMAIN stats' = 1 .. n + 1
      /\ stats'[n + 1] = Line("torn", p, locks[p])
      /\ \A i \in 1 .. n : stats'[i] = stats[i]
  BY <1>0 DEF TypeOK
<1> HIDE DEF n
<1>2. /\ DOMAIN stats' = DOMAIN stats \cup {n + 1}
      /\ stats'[n + 1].kind = "torn"
      /\ \A i \in DOMAIN stats : stats'[i] = stats[i]
  BY <1>0, <1>1 DEF Line
<1>3. \A q \in Proc : EntriesOf(q)' = EntriesOf(q)
  BY <1>0, <1>2 DEF EntriesOf
<1>4. pc'[p] = "failed" /\ \A q \in Proc \ {p} : pc'[q] = pc[q]
  BY DEF TypeOK
<1>5. ASSUME NEW q \in Proc, NEW i \in EntriesOf(q)'
      PROVE  EntriesOf(q)' = {i} /\ stats'[i].locks = created'[q]
  <2>1. i \in EntriesOf(q) /\ i \in DOMAIN stats
    BY <1>3, <1>5 DEF EntriesOf
  <2>2. EntriesOf(q) = {i} /\ stats[i].locks = created[q]
    BY <2>1 DEF Reports
  <2> QED
    BY <1>2, <1>3, <2>1, <2>2
<1>6. \A q \in Proc : pc'[q] \in {"close", "done"} => EntriesOf(q)' # {}
  BY <1>3, <1>4 DEF Reports
<1>7. \A q \in Proc : pc'[q] \notin {"close", "done", "failed", "killed"} => EntriesOf(q)' = {}
  BY <1>3, <1>4 DEF Reports
<1> QED
  BY <1>4, <1>5, <1>6, <1>7 DEF Reports

LEMMA StepReports ==
  ASSUME IInv, OwnerHolds, Reports, [Next]_vars
  PROVE  Reports'
<1> USE DEF IInv
<1>1. ASSUME NEW p \in Proc,
             \/ InstallHandler(p) \/ CheckStop(p) \/ TryCreateExclusive(p) \/ Backoff(p)
             \/ WritePid(p) \/ Hold(p) \/ VerifyOwner(p) \/ Unlink(p) \/ Rest(p) \/ Return(p)
      PROVE  Reports'
  <2>1. LoopOrBreak(p) \in {"stats", "check"}
    BY DEF LoopOrBreak
  <2>2. UNCHANGED stats
    BY <1>1 DEF InstallHandler, CheckStop, TryCreateExclusive, Backoff, WritePid, Hold,
                VerifyOwner, Unlink, Rest, Return
  <2>3. \A q \in Proc \ {p} : pc'[q] = pc[q] /\ created'[q] = created[q]
    BY <1>1 DEF InstallHandler, CheckStop, TryCreateExclusive, Backoff, WritePid, Hold,
                VerifyOwner, Unlink, Rest, Return, Goto, TypeOK
  <2>4. created'[p] = created[p] \/ pc[p] = "open"
    BY <1>1 DEF InstallHandler, CheckStop, TryCreateExclusive, Backoff, WritePid, Hold,
                VerifyOwner, Unlink, Rest, Return, Goto
  <2>5. \/ pc[p] \notin {"close", "done", "failed", "killed"} /\ pc'[p] \notin {"close", "done"}
        \/ pc[p] = "close" /\ pc'[p] = "done"
    BY <1>1, <2>1 DEF InstallHandler, CheckStop, TryCreateExclusive, Backoff, WritePid, Hold,
                      VerifyOwner, Unlink, Rest, Return, Goto, TypeOK
  <2> QED
    BY <2>2, <2>3, <2>4, <2>5, QuietStepReports
<1>2. ASSUME NEW p \in Proc, WriteStats(p) PROVE Reports'
  BY <1>2, WriteStatsReports
<1>3. ASSUME NEW p \in Proc, Sigint(p) \/ Kill(p) \/ IoError(p) \/ WriteError(p)
      PROVE  Reports'
  <2>1. UNCHANGED <<stats, created>>
    BY <1>3 DEF Sigint, Kill, IoError, WriteError
  <2>2. \A q \in Proc \ {p} : pc'[q] = pc[q]
    BY <1>3 DEF Sigint, Kill, IoError, WriteError, Goto, TypeOK
  <2>3. pc[p] \notin Final /\ (pc'[p] = pc[p] \/ pc'[p] \in {"failed", "killed"})
    BY <1>3 DEF Sigint, Kill, IoError, WriteError, Goto, TypeOK, Final
  <2> QED
    BY <2>1, <2>2, <2>3, QuietStepReports DEF Final
<1>4. ASSUME NEW p \in Proc, StatsError(p) PROVE Reports'
  <2>1. pc[p] = "stats" /\ pc' = [pc EXCEPT ![p] = "failed"] /\ UNCHANGED created
    BY <1>4 DEF StatsError, Goto
  <2>2. CASE UNCHANGED stats
    BY <2>1, <2>2, QuietStepReports DEF TypeOK
  <2>3. CASE stats' = Append(stats, Line("torn", p, locks[p]))
    BY <2>1, <2>3, TornReports
  <2> QED
    BY <1>4, <2>2, <2>3 DEF StatsError
<1>5. CASE Ended \/ UNCHANGED vars
  <2>1. UNCHANGED <<pc, stats, created>>
    BY <1>5 DEF Ended, vars
  <2> QED
    BY <2>1 DEF Reports, EntriesOf
<1> QED
  BY <1>1, <1>2, <1>3, <1>4, <1>5 DEF Next, CleanNext, Main

\* A process that returns has one line, with the number of files it created, and a line is
\* only spoilt when some process failed (lockprog.c 296-321, 452).
THEOREM ThReportsComplete == Spec => []ReportsComplete
<1>1. Init => IInv /\ OwnerHolds /\ Reports
  BY InitIInv, InitReports, LockConstants DEF Init, OwnerHolds
<1>2. IInv /\ OwnerHolds /\ Reports /\ [Next]_vars => (IInv /\ OwnerHolds /\ Reports)'
  BY StepIInv, StepOwnerHolds, StepReports
<1>3. Reports => ReportsComplete
  BY DEF Reports, ReportsComplete
<1> QED
  BY <1>1, <1>2, <1>3, PTL DEF Spec
=============================================================================
