------------------------ MODULE PartialGraphBarriers ------------------------
(***************************************************************************)
(* The barriers of one running partial graph on the meta node:             *)
(* PartialGraphRunningState (meta/src/barrier/partial_graph.rs) and the     *)
(* BarrierItemCollector inside it (meta/src/barrier/utils.rs).             *)
(*                                                                         *)
(* A barrier is known by its prev epoch e; curr[e] is its curr epoch.      *)
(* `inflight' is the key set of inflight_barriers, toCollect[e] the workers *)
(* still to answer, `collected' the VecDeque collected_barriers and         *)
(* `completing' completing_epoch.  Workers answer in any order: the         *)
(* collector relies on no order between epochs.                            *)
(***************************************************************************)
EXTENDS Naturals, Sequences

CONSTANTS
  Workers,      \* compute nodes that may hold actors of the graph
  Epochs        \* epochs a barrier of the graph may have

ASSUME PGEpochsAssumption == Epochs \subseteq Nat \ {0}

VARIABLES
  status,       \* "running" or "resetting" (PartialGraphStatus)
  alive,        \* workers whose control stream is up
  inflight, toCollect, collected, completing,
  curr, isCkpt, \* curr epoch and kind of every injected barrier
  nextPrev,     \* the curr epoch of the last injected barrier, 0 before
  acked         \* checkpoints whose commit was acknowledged

vars == <<status, alive, inflight, toCollect, collected, completing,
          curr, isCkpt, nextPrev, acked>>

None == {}      \* completing_epoch = None; Some(e) is the set {e}

\* The types of the variables.
TypeOK ==
  /\ status \in {"running", "resetting"}
  /\ alive \subseteq Workers
  /\ inflight \subseteq Epochs
  /\ toCollect \in [Epochs -> SUBSET Workers]
  /\ collected \in Seq(Epochs)
  /\ completing \subseteq Epochs
  /\ curr \in [Epochs -> Nat]
  /\ isCkpt \subseteq Epochs
  /\ nextPrev \in Nat
  /\ acked \subseteq Epochs

Init ==
  /\ status = "running"
  /\ alive = Workers
  /\ inflight = {}
  /\ toCollect = [e \in Epochs |-> {}]
  /\ collected = <<>>
  /\ completing = None
  /\ curr = [e \in Epochs |-> 0]
  /\ isCkpt = {}
  /\ nextPrev = 0
  /\ acked = {}

-----------------------------------------------------------------------------

First(e) == e \in inflight /\ \A f \in inflight : e <= f
Promotable(tc) == \E e \in inflight : First(e) /\ tc[e] = {}

\* PartialGraphManager::inject_barrier and enqueue.  The caller's BarrierInfo
\* chains epochs: prev is the curr epoch of the barrier before it (any epoch
\* for the first one of the graph).
Inject(e, c, ck, nodes) ==
  /\ status = "running"
  /\ nextPrev = 0 \/ e = nextPrev
  /\ c > e
  /\ nodes # {}
  /\ nodes \subseteq alive
  /\ inflight' = inflight \cup {e}
  /\ toCollect' = [toCollect EXCEPT ![e] = nodes]
  /\ curr' = [curr EXCEPT ![e] = c]
  /\ isCkpt' = IF ck THEN isCkpt \cup {e} ELSE isCkpt
  /\ nextPrev' = c
  /\ UNCHANGED <<status, alive, collected, completing, acked>>

\* Dropping the running state for a ResetPartialGraphCollector.
Reset ==
  /\ status' = "resetting"
  /\ inflight' = {}
  /\ collected' = <<>>
  /\ completing' = None

\* inject_barrier on a disconnected worker returns an error before enqueue;
\* every caller answers it by resetting the graph.
InjectFails ==
  /\ status = "running"
  /\ alive # Workers
  /\ Reset
  /\ UNCHANGED <<alive, toCollect, curr, isCkpt, nextPrev, acked>>

\* reset_partial_graphs: a worker reported a failure of the graph, its database
\* enters recovery, or the job that owns the graph is dropped.
ResetRequested ==
  /\ status = "running"
  /\ ~Promotable(toCollect)
  /\ Reset
  /\ UNCHANGED <<alive, toCollect, curr, isCkpt, nextPrev, acked>>

\* (Mistake) Any fully answered barrier is moved, not only the first.
PromoteAny(tc) ==
  LET ready == {e \in inflight : tc[e] = {}} IN
  IF ready = {}
    THEN UNCHANGED <<inflight, collected>>
    ELSE \E e \in ready :
           /\ inflight' = inflight \ {e}
           /\ collected' = Append(collected, e)

\* barrier_collected: the first in-flight barrier moves to the collected ones
\* once nobody is left to collect, given the updated to_collect sets tc.
Promote(tc) ==
  LET ready == {e \in inflight : First(e) /\ tc[e] = {}} IN
  IF ready = {}
    THEN UNCHANGED <<inflight, collected>>
    ELSE \E e \in ready :
           /\ inflight' = inflight \ {e}
           /\ collected' = Append(collected, e)

\* next_event_inner begins by polling the graph: a barrier all of whose
\* workers had answered before its predecessor's did is noticed here.
PollCollected ==
  /\ status = "running"
  /\ Promotable(toCollect)
  /\ Promote(toCollect)
  /\ UNCHANGED <<status, alive, toCollect, completing, curr, isCkpt, nextPrev,
                 acked>>

\* PartialGraphStatus::collect on a CompleteBarrier response.
Collect(e, w) ==
  /\ status = "running"
  /\ ~Promotable(toCollect)
  /\ w \in alive
  /\ e \in inflight
  /\ w \in toCollect[e]
  /\ toCollect' = [toCollect EXCEPT ![e] = @ \ {w}]
  /\ Promote(toCollect')
  /\ UNCHANGED <<status, alive, completing, curr, isCkpt, nextPrev, acked>>

\* The control stream of w breaks; is_valid_after_worker_err decides whether
\* the graph is affected, and an affected graph is reset by its database.
ValidIfFirstIsValid(w) ==      \* (Mistake) only the first barrier is asked
  \A e \in inflight : First(e) => w \notin toCollect[e]

IsValidAfterWorkerErr(w) == \A e \in inflight : w \notin toCollect[e]

WorkerError(w) ==
  /\ ~Promotable(toCollect)
  /\ w \in alive
  /\ alive' = alive \ {w}
  /\ IF status = "running" /\ ~IsValidAfterWorkerErr(w)
       THEN Reset
       ELSE UNCHANGED <<status, inflight, collected, completing>>
  /\ UNCHANGED <<toCollect, curr, isCkpt, nextPrev, acked>>

\* start_completing(bound): pop_front while prev epoch < bound, stopping at the
\* first checkpoint.  The first k collected barriers are the ones popped.  A
\* bound above every collected epoch is the code's Unbounded.
PoppedPastCheckpoint(k, bound) ==   \* (Mistake) no stop at a checkpoint
  \A i \in 1..k : collected[i] < bound

Popped(k, bound) ==
  /\ \A i \in 1..k : collected[i] < bound
  /\ \A i \in 1..(k - 1) : collected[i] \notin isCkpt

CompleteCheckpoint(k, bound) ==
  /\ Popped(k, bound)
  /\ collected[k] \in isCkpt
  /\ completing' = {collected[k]}

CompleteNonCheckpoint(k, bound) ==
  /\ Popped(k, bound)
  /\ collected[k] \notin isCkpt
  /\ k < Len(collected) => collected[k + 1] >= bound
  /\ UNCHANGED completing

StartCompletingAgain(bound) ==      \* (Mistake) a checkpoint is under way
  /\ status = "running"
  /\ \E k \in 1..Len(collected) :
       /\ CompleteCheckpoint(k, bound) \/ CompleteNonCheckpoint(k, bound)
       /\ collected' = SubSeq(collected, k + 1, Len(collected))
  /\ UNCHANGED <<status, alive, inflight, toCollect, curr, isCkpt, nextPrev,
                 acked>>

StartCompleting(bound) ==
  /\ status = "running"
  /\ completing = None
  /\ \E k \in 1..Len(collected) :
       /\ CompleteCheckpoint(k, bound) \/ CompleteNonCheckpoint(k, bound)
       /\ collected' = SubSeq(collected, k + 1, Len(collected))
  /\ UNCHANGED <<status, alive, inflight, toCollect, curr, isCkpt, nextPrev,
                 acked>>

AckCompleted ==
  /\ status = "running"
  /\ completing # None
  /\ acked' = acked \cup completing
  /\ completing' = None
  /\ UNCHANGED <<status, alive, inflight, toCollect, collected, curr, isCkpt,
                 nextPrev>>

Next ==
  \/ \E e, c \in Epochs, ck \in BOOLEAN, nodes \in SUBSET Workers :
       Inject(e, c, ck, nodes)
  \/ InjectFails
  \/ ResetRequested
  \/ PollCollected
  \/ \E e \in Epochs, w \in Workers : Collect(e, w)
  \/ \E w \in Workers : WorkerError(w)
  \/ \E bound \in Epochs : StartCompleting(bound)
  \/ AckCompleted

\* The worker loop polls the manager, and a live worker answers what it was
\* sent; new barriers and completions come when they come.
Fairness ==
  /\ WF_vars(PollCollected)
  /\ \A e \in Epochs, w \in Workers : WF_vars(Collect(e, w))

Spec == Init /\ [][Next]_vars
FairSpec == Spec /\ Fairness

-----------------------------------------------------------------------------
(***************************************************************************)
(* Properties                                                              *)
(***************************************************************************)

Ready == {collected[i] : i \in 1..Len(collected)}

\* No assertion of the collector fires: epochs on the collected queue are
\* contiguous, and the barrier promoted next continues the queue's last one
\* (assert_eq! in barrier_collected and in enqueue).
Contiguous ==
  /\ \A i \in 1..Len(collected) :
       i < Len(collected) => curr[collected[i]] = collected[i + 1]
  /\ \A e \in inflight :
       First(e) /\ collected # <<>> => curr[collected[Len(collected)]] = e
  /\ \A e, f \in inflight : e < f => curr[e] <= f

\* A checkpoint handed to the commit (start_completing) or acknowledged means
\* every worker answered it and every earlier barrier of the graph.
PrefixCollected ==
  \A e \in completing \cup acked, f \in Epochs : f <= e => toCollect[f] = {}

\* Completion skips no checkpoint: when a checkpoint is being committed, every
\* older checkpoint of the graph has been acknowledged.
NoCheckpointSkipped ==
  \A e \in completing \cup acked, f \in isCkpt : f < e => f \in acked

\* Checkpoints are committed in order: one that is handed to the commit or
\* acknowledged has been answered by every worker, with every barrier before
\* it, and no older checkpoint was passed over.
CommitOrder == PrefixCollected /\ NoCheckpointSkipped

\* The graph keeps the promise of BarrierPipeline.
Pipeline == INSTANCE BarrierPipeline
              WITH waiting <- inflight, ready <- Ready,
                   underway <- completing, done <- acked

PipelineSpec == Pipeline!PSpec

\* No barrier of a running graph waits for ever: each is collected, or the
\* graph is reset because a worker it waits for has gone.
EveryBarrierLeaves == \A e \in Epochs : e \in inflight ~> e \notin inflight


-----------------------------------------------------------------------------
(***************************************************************************)
(* The inductive invariant behind the safety properties                    *)
(***************************************************************************)

\* In-flight barriers chain through their curr epochs up to nextPrev.
InflightChain ==
  /\ \A e \in inflight : e < nextPrev /\ e < curr[e]
  /\ \A e \in inflight : curr[e] \in inflight \/ curr[e] = nextPrev
  /\ \A e \in inflight : curr[e] <= nextPrev
  /\ \A e, f \in inflight : e < f => curr[e] <= f

\* The collected queue is increasing, contiguous, older than what is in flight
\* and ends where the in-flight barriers begin.
CollectedChain ==
  /\ \A i, j \in 1..Len(collected) : i < j => collected[i] < collected[j]
  /\ \A i \in 1..Len(collected) :
       i < Len(collected) => curr[collected[i]] = collected[i + 1]
  /\ \A i \in 1..Len(collected) : collected[i] < nextPrev
  /\ \A i \in 1..Len(collected), f \in inflight : collected[i] < f
  /\ collected # <<>> =>
       LET c == curr[collected[Len(collected)]] IN
       /\ c \in inflight \/ c = nextPrev
       /\ c <= nextPrev
       /\ \A f \in inflight : c <= f

\* What is being committed is older than what is collected, and what was
\* committed is older still.
CompletionOrder ==
  /\ \A e, f \in completing : e = f
  /\ \A e \in completing \cup acked :
       /\ e < nextPrev
       /\ \A f \in inflight : e < f
       /\ \A i \in 1..Len(collected) : e < collected[i]
  /\ \A e \in acked, f \in completing : e < f

\* A running graph forgets no checkpoint and no missing answer.
Accounting ==
  /\ \A f \in isCkpt : f < nextPrev
  /\ status = "running" =>
       /\ isCkpt \subseteq acked \cup completing \cup Ready \cup inflight
       /\ \A f \in Epochs : toCollect[f] # {} => f \in inflight
  /\ status # "running" => completing = None /\ inflight = {} /\ collected = <<>>

\* The inductive invariant: the two safety properties that speak of the past
\* hold because the queue positions of all barriers are ordered.
IInv ==
  /\ TypeOK
  /\ InflightChain
  /\ CollectedChain
  /\ CompletionOrder
  /\ Accounting
  /\ PrefixCollected
  /\ NoCheckpointSkipped
=============================================================================
