------------------------------ MODULE MCMyInit ------------------------------
(* Instances of MyInit for TLC: a configuration of two lines and one of one line, as in    *)
(* config_initial.txt and config_reloaded.txt.                                             *)
EXTENDS MyInit, TLC

CONSTANTS two, one

TwoAndOne == (two :> 2) @@ (one :> 1)

=============================================================================
