--------------------------- MODULE BarrierPipeline ---------------------------
(***************************************************************************)
(* What one partial graph promises to the checkpoint control that drives   *)
(* it: barriers are injected with increasing epochs, become collected      *)
(* strictly in that order, and are completed strictly in that order, one   *)
(* checkpoint at a time.  Who collects a barrier, and how its collection   *)
(* is noticed, is left out; PartialGraphBarriers shows how the code keeps  *)
(* this promise.                                                           *)
(***************************************************************************)
EXTENDS Naturals

CONSTANT Epochs        \* the epochs a barrier may have as its prev epoch

VARIABLES
  waiting,      \* injected, not yet collected
  ready,        \* collected, not yet taken for completion
  underway,     \* the checkpoint being committed: a set of at most one epoch
  done          \* checkpoints acknowledged as committed

pvars == <<waiting, ready, underway, done>>

PInit ==
  /\ waiting = {}
  /\ ready = {}
  /\ underway = {}
  /\ done = {}

\* A new barrier is younger than every barrier the pipeline knows.
PInject(e) ==
  /\ \A f \in waiting \cup ready \cup underway \cup done : f < e
  /\ waiting' = waiting \cup {e}
  /\ UNCHANGED <<ready, underway, done>>

\* Only the oldest waiting barrier may become ready.
PCollect(e) ==
  /\ e \in waiting
  /\ \A f \in waiting : e <= f
  /\ \A f \in ready : f < e
  /\ waiting' = waiting \ {e}
  /\ ready' = ready \cup {e}
  /\ UNCHANGED <<underway, done>>

\* Taking the oldest ready barriers; T becomes the checkpoint to commit, if
\* any, and is the youngest of those taken.
PTake(S, T) ==
  /\ underway = {}
  /\ S \subseteq ready
  /\ T \subseteq S
  /\ \A e \in S, f \in ready \ S : e < f
  /\ \A e \in S, t \in T : e <= t
  /\ ready' = ready \ S
  /\ underway' = T
  /\ UNCHANGED <<waiting, done>>

PAck ==
  /\ underway # {}
  /\ \A e \in done, f \in underway : e < f
  /\ done' = done \cup underway
  /\ underway' = {}
  /\ UNCHANGED <<waiting, ready>>

\* The graph is reset: whatever was not committed is dropped.
PReset ==
  /\ waiting' = {}
  /\ ready' = {}
  /\ underway' = {}
  /\ UNCHANGED done

PNext ==
  \/ \E e \in Epochs : PInject(e) \/ PCollect(e)
  \/ \E S \in SUBSET ready : \E T \in SUBSET S : PTake(S, T)
  \/ PAck
  \/ PReset

PSpec == PInit /\ [][PNext]_pvars

=============================================================================
