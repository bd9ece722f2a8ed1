---------------------------- MODULE MCCheckpoint ----------------------------
(* The ranks of a model write the same kind of file: they may be exchanged. *)
EXTENDS Checkpoint, TLC

Symmetry == Permutations(Ranks)
=============================================================================
