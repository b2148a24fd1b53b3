---------------------------- MODULE MCLockProg -----------------------------
(* Instances of LockProg for TLC. *)
EXTENDS LockProg

CONSTANTS p1, p2, p3

\* One process comes back for the lock.
OneTwice == [p \in Proc |-> IF p = p1 THEN 2 ELSE 1]

=============================================================================
