---------------------------- MODULE MCSparseCopy ----------------------------
(* An instance of SparseCopy for TLC: every input of up to 6 bytes, with blocks of 3. *)
EXTENDS SparseCopy, SequencesExt

CONSTANT MaxInput

AllInputs == BoundedSeq({Zero} \cup Data, MaxInput)

=============================================================================
