----------------------- MODULE MCPartialGraphRecovery -----------------------
(* PartialGraphRecovery for TLC.  Nothing tells workers apart. *)
EXTENDS PartialGraphRecovery

WorkerSymmetry == Permutations(Workers)

=============================================================================
