------------------------ MODULE MCCheckpointControl ------------------------
(* CheckpointControl for TLC: the jobs are interchangeable. *)
EXTENDS CheckpointControl, TLC

JobSymmetry == Permutations(Jobs)
=============================================================================
