----------------------------- MODULE Supervisor -----------------------------
(***************************************************************************)
(* What task3-myinit promises of the processes it looks after: each runs   *)
(* one entry of the configuration being served, no entry is run twice, and *)
(* a configuration is replaced only after the last process of the old one  *)
(* is gone.                                                                *)
(***************************************************************************)
EXTENDS Naturals, Functions

CONSTANTS
  Pid,    \* process ids
  Config, \* the configurations that have entries
  Size    \* how many entries a configuration has

VARIABLES
  serving, \* the configuration whose entries may be started
  live     \* the processes that have not been reaped, with what each runs

supVars == <<serving, live>>

Entry ==
  IF serving \in Config THEN {[config |-> serving, index |-> i] : i \in 1..Size[serving]}
                        ELSE {}

SupInit == live = << >>

Unstaffed == Entry \ Range(live)

Start(p, e) ==
  /\ p \notin DOMAIN live
  /\ e \in Unstaffed
  /\ live' = [q \in DOMAIN live \cup {p} |-> IF q = p THEN e ELSE live[q]]
  /\ UNCHANGED serving

\* Some processes end, all at once if one signal ends them.
End(gone) ==
  /\ live' = Restrict(live, DOMAIN live \ gone)
  /\ UNCHANGED serving

\* The entry of a process that ended is started again, under a pid that may be the same.
Replace(p, q) ==
  /\ q \notin DOMAIN live \ {p}
  /\ live' = [r \in (DOMAIN live \ {p}) \cup {q} |-> IF r = q THEN live[p] ELSE live[r]]
  /\ UNCHANGED serving

\* Another configuration is served from the moment on at which no process is left, be it that
\* all that were left are given up then.
Switch == live' = << >>

SupNext ==
  \/ \E p \in Pid, e \in Unstaffed : Start(p, e)
  \/ \E gone \in SUBSET DOMAIN live : End(gone)
  \/ \E p \in DOMAIN live, q \in Pid : Replace(p, q)
  \/ Switch

SupSpec == SupInit /\ [][SupNext]_supVars

=============================================================================
