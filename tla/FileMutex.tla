----------------------------- MODULE FileMutex -----------------------------
(***************************************************************************)
(* What task2-lock promises, with the file system, the signals and the     *)
(* faults left out: a lock that at most one process holds, taken only when *)
(* it is free and given back only by the process that holds it, and a      *)
(* count per process of the times it gave the lock back, which is the      *)
(* number lockprog reports as LOCKS.                                       *)
(*                                                                         *)
(* A holder that dies keeps the lock: nothing else may release it, so      *)
(* every later state keeps that holder.  LockProg implements this module.  *)
(***************************************************************************)
EXTENDS Naturals

CONSTANTS
  Proc,   \* the processes that compete
  None    \* the holder of a lock that is free

VARIABLES
  holder, \* the process that holds the lock, or None
  count   \* per process, how often it has released the lock

vars == <<holder, count>>

Init ==
  /\ holder = None
  /\ count = [p \in Proc |-> 0]

Acquire(p) ==
  /\ holder = None
  /\ holder' = p
  /\ UNCHANGED count

Release(p) ==
  /\ holder = p
  /\ holder' = None
  /\ count' = [count EXCEPT ![p] = @ + 1]

Next == \E p \in Proc : Acquire(p) \/ Release(p)

Spec == Init /\ [][Next]_vars

=============================================================================
