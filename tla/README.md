# Checkpointing in RisingWave: a TLA+ development

RisingWave's consistency rests on barriers. The meta node injects a barrier with
an epoch into every streaming graph, compute nodes answer when all their actors
have passed it, and when a barrier that is a checkpoint has been answered
everywhere the meta node commits its epoch to Hummock. This directory models
that machinery from both ends. On the meta node: how one graph's barriers are
collected and completed, which barriers are checkpoints, how the checkpoints of
a database are kept consistent with those of the streaming jobs that are being
created beside it, and how databases fail and are rebuilt. On the compute nodes:
how a barrier is issued to actors and collected from them, how it travels
through the exchange channels, and how an actor aligns the copies it receives.

Paths below are relative to `src/src/`; `barrier/` stands for `meta/src/barrier/`.

## 1. The system

| Component | State | Operations | Talks to | Hard parts | What makes it correct |
|---|---|---|---|---|---|
| Partial graph (`barrier/partial_graph.rs`, `barrier/utils.rs`) | per graph: in-flight, collected and completing barriers; or resetting / initializing | inject, collect, poll, start completing, acknowledge, reset, remove | compute nodes by control streams; checkpoint control by events | answers out of order, a worker lost in between, reset while a commit runs | collection and completion in epoch order; no barrier stuck |
| Periodic barriers (`barrier/schedule.rs`) | frequencies, per-database counter, timers, forced databases, command queues | next barrier, force a checkpoint, change frequency/interval | barrier worker | timers, commands and forced checkpoints compete; nothing may be injected for a barrier handed out | a checkpoint every *n* barriers handed out; a forced checkpoint is next |
| Database checkpoint control (`barrier/checkpoint/control.rs`, `state.rs`) | in-flight epoch, job controls, finishing-jobs collector, pending subscriptions to drop, inflight info | handle a new barrier, collect, start / acknowledge a task, graph reset | scheduler, partial graphs, completing task | two graphs commit one merge; drops at any time | atomic merge, no job forgotten, no subscription leaked |
| Creating jobs (`barrier/checkpoint/independent_job/…`) | Initial/Ready, phase, fake epoch, queued barriers, finish epoch | follow upstream barrier, update progress, start consuming upstream, start completing, drop, recover | database checkpoint control | back-pressure, phase change under load, recovery mid-phase | no upstream epoch skipped or committed twice |
| Completing task (`barrier/complete_task.rs`) | at most one task | commit, post-collect, finish jobs, acknowledge | Hummock manager, catalog | a failure between any two steps | persisted state is always recoverable |
| Recovery (`barrier/context/recovery.rs`, `barrier/rpc.rs`, `barrier/checkpoint/recovery.rs`) | recovery stage per database | reset graphs, back off, load persisted state, clean dirty jobs, resolve logs, inject initial barriers | catalog, Hummock, partial graphs | what was persisted is a mixture of several steps; failures during recovery | its assertions hold; it ends |
| Change-log truncation (`meta/src/hummock/manager/table_change_log.rs`) | – | read the catalog, truncate later | catalog, versions | acts on stale information | the log some job needs is kept |
| Global barrier worker and control streams (`barrier/worker.rs`, `barrier/rpc.rs`) | the select loop, global recovery, one stream per worker | dispatch events, connect, send requests, take answers | all of the above, compute nodes | answers carry no term; streams break with messages under way; global recovery races failures | an answer is never taken for one of another life of a graph |
| Compute-node barrier manager (`stream/src/task/barrier_worker`, `stream/src/task/barrier_manager`) | per graph: barriers in flight of each actor, subscriptions, barriers being completed, reports | create, issue, register, collect, complete, suspend, reset | actors, state store, meta | actors subscribe while barriers are issued, stop and fail between epochs; syncs end out of order | answers exactly the epochs all actors passed, in order, with their reports |
| Exchange channels (`stream/src/executor/exchange`, `compute/src/rpc/service/stream_exchange_service.rs`) | two semaphores, a queue, permits on their way back | send, receive, forward, add permits, drop | dispatchers, merges | permits return in batches; either end or the connection goes away | a bounded FIFO; no send waits for ever |
| Merge executor (`stream/src/executor/merge.rs`, `mod.rs`, `watermark/mod.rs`) | active and blocked upstreams, pre-applied barriers, watermark heap, chunk builder | poll an upstream, fetch a barrier, connect inputs, emit | exchange, barrier manager | upstreams are added and removed while the barrier manager's copies run ahead | consistent cuts, every barrier comes out |
| Log stores, Hummock uploader, versions/GC, sink coordination, election | see `PROJECT.json` | | | | |

The frontend, batch engine, connectors and expressions have no protocol state of
their own and are left out.

## 2. Modules

| Module | Models | Composes |
|---|---|---|
| `BarrierPipeline` | the promise of one partial graph: barriers become ready and are completed in epoch order, one checkpoint at a time | – |
| `PartialGraphBarriers` | `PartialGraphRunningState` and `BarrierItemCollector` | implements `BarrierPipeline` |
| `PartialGraphBarriersProofs` | proofs | |
| `PeriodicBarriers` | `PeriodicBarriers` and the places in `handle_new_barrier` and the event loop that inject nothing for what it handed out | – |
| `PeriodicBarriersProofs` | proofs | |
| `CheckpointControl` | one database, its table `T`, the jobs created over `T`, the completing task, change-log truncation, failure and recovery | uses the order that `PartialGraphBarriers` establishes |
| `CheckpointControlProofs` | proofs | |
| `ChangeLogProofs` | proofs about the change log and the jobs that read it | |
| `MCCheckpointControl` | symmetry of the jobs for TLC | |
| `PartialGraphRecovery` | the graphs of several databases on the meta node, the control streams, and the graphs on every compute node, through failures and recovery | both ends of the streams |
| `PartialGraphRecoveryProofs` | proofs | |
| `MCPartialGraphRecovery` | symmetry of the workers for TLC | |
| `ManagedBarrierState` | one graph on one compute node at the level of its actors | refines the compute node of `PartialGraphRecovery` informally: there its actors are one unit |
| `ManagedBarrierStateProofs` | proofs | |
| `ExchangeFifo` | the promise of an exchange channel: a FIFO of bounded size that may break | – |
| `PermitChannel` | `permit.rs`, the local and the remote input, the exchange service | implements `ExchangeFifo` |
| `PermitChannelProofs` | proofs | |
| `MergeExecutor` | `MergeExecutor` over `DynamicReceivers`, `DispatchBarrierBuffer`, `BufferedWatermarks` and `BufferChunks` | its upstreams' channels are FIFOs, as `PermitChannel` shows |
| `MergeExecutorProofs` | proofs | |

A definition whose comment says *(Mistake)* is a plausible bug in the definition
that follows it. No specification uses one; each is put in place of its
neighbour to see that a property notices.

### 2.1 PartialGraphBarriers

A barrier is its prev epoch `e`; `curr[e]` is its curr epoch. `inflight`,
`collected`, `completing` are the fields of the running state, `toCollect[e]`
the workers still to answer, `alive` the workers whose control stream is up.

* `Inject` is `inject_barrier` and `enqueue`; `InjectFails` is its early error.
* `Collect` is a `CompleteBarrier` response. It promotes at most one barrier, as
  `PartialGraphStatus::collect` does; a later barrier that had all its answers
  already is found by `PollCollected`, the loop at the head of
  `next_event_inner`, which runs before any other event is awaited (the guard
  `~Promotable`).
* `WorkerError` applies `is_valid_after_worker_err`; a graph that waits for the
  lost worker is reset. `ResetRequested` is every other reset: a reported graph
  failure, recovery of the database, a dropped job.
* `StartCompleting(bound)` pops collected barriers below the bound up to the
  first checkpoint; `AckCompleted` ends its commit.

### 2.2 PeriodicBarriers

`next_barrier` prefers a forced database, then a scheduled command, then a
timer; `ForcedBarrier`, `CommandBarrier` / `CommandSkipped` and `Tick` are the
three branches, each with what follows in `handle_new_barrier`. The counter `num`
is updated when a barrier is handed out. A periodic barrier is then `Injected`, or
`Skipped` because its database is not running, has no job (`populated`) or is at
the in-flight limit. A command's barrier is injected whatever is pending
(`CommandBarrier`), unless the command has nothing left to do or is rejected
(`CommandSkipped`): all jobs it drops were still being created, the reschedule is
blocked or has no plan, a job may not be created while paused, an upstream is not
found, the database is empty. `run` (barriers injected since the last injected
checkpoint), `missed` (checkpoints handed out since then and not injected) and
`owed` are history variables; no guard reads them but the bound on `missed`.

### 2.3 CheckpointControl

A creating job first reads `T` at its snapshot epoch under fake epochs (physical
time zero in the code, below `Base` in the model), then the change log of `T`
barrier by barrier, and is merged into the database's graph at a checkpoint.
`Base` is above every fake epoch `MaxEpoch` barriers can lead to, as the
physical time of a real epoch is. `log` is the change log flattened to its
epochs, with a mark on the checkpoints.

* Variables above the line `persisted` are memory; `Crash` and `TaskFails` lose
  them, and `Recover` rebuilds them from what the catalog, the committed epochs
  and the change log say.
* `PeriodicBarrier`, `CreateJob`, `DropInDatabase` are `handle_new_barrier` with
  the matching branch of `apply_command`, including the merge of ready jobs, the
  forward to every job (`Forward`) and the removal of pending subscriptions.
  `OtherCommand(S, mutates)` is a command that changes nothing here: a flush, or
  a throttle of the creating jobs `S`; it ignores the in-flight limit.
* `Forward` queues a barrier for a job whose graph is at its limit, except that
  in the snapshot phase a barrier with a mutation for the job goes past the
  limit. The mutation is a throttle or the start of backfill nodes: `toStart` are
  the jobs with nodes to start, at creation, after recovery, and for `Ordered`
  jobs whenever a node is done (`JobFinishesNode`). `over` is a history variable:
  how many barriers went past the limit since there last was room.
* `DropInCatalog`, `DropIndependently`, `JobReset` are the three steps of a
  cancelled job.
* `DbCollect`, `JobCollect`, `JobFinishesSnapshot`, `JobFinishesLogStore` are
  collected barriers with what the backfill executor reports on them. When the
  executor lets a barrier pass is modelled from
  `stream/src/executor/backfill/snapshot_backfill/executor.rs`: a checkpoint
  read from the log waits until `T` has committed it.
* `StartTask` is `next_complete_barrier_task` for the jobs and then the
  database; `TaskCommit`, `TaskPostCollect`, `TaskFinishJobs`, `TaskAck` are the
  steps of the task, between which everything else may happen.
* The worker loop tries to start a task before it waits for events: every other
  step of the database is guarded by `Settled`.
* `TruncateFetch` and `TruncateApply` are the two halves of the truncation loop.

Abstractions. There is one upstream table. A commit is one step (Hummock's
version change is one transaction). A barrier's kind is chosen freely, so every
frequency and every forced checkpoint is covered. Recovery drops jobs that are still Initial; the
legacy mode in which it also drops foreground jobs is left out. A failure of the database, of the task and of the
meta node are one action: the code waits for a running task before it resets one
database, which is a special case.

### 2.4 PartialGraphRecovery

A database has a graph `Main(d)` and, while it creates a job, `JobOf(d)`. The
meta node's side is `graph` (the statuses of `PartialGraphManager`), `stage`,
`waits` and `backoff` (`DatabaseRecoveringState`) and `job`. `reqs` and `resps`
are the two directions of each worker's control stream, `cn` the
`PartialGraphStatus` of each graph on each compute node, `batches` the sets of
graphs reset together. A message carries a graph's id; the `term` in the model's
answers is read by properties only.

* `EnterReset`, `EnterInitializing`, `FailInitializing`, `FailReload`,
  `RemoveDatabase`, `BackoffPasses`, `EnterRunning` are the transitions of
  `checkpoint/recovery.rs`; `NewResets` decides which graphs a failed database
  still has to reset.
* `MetaRecv` is one answer in `next_event_inner` with what the worker loop does
  on the event; `ResetCollected` is the poll that ends a reset;
  `WorkerError`, `Reconnect` are the loss of a stream, with everything on it,
  and the new connection that starts with the existing graphs.
* `GlobalRecover`, `GlobalInject`, `GlobalDone` are `recovery_inner`: it connects
  anew, goes through the databases (phase `injecting`; a database is `pending`
  until its turn), and then polls events, which it handles differently
  (`Polling`) until all databases are collected.
* `CreateDatabase`, `CreateJob`, `DropJob`, `FinishJob`, `StopJob` and their
  failing variants change the set of graphs.
* `CnHandle` takes a request (`CnCreate`, `CnInject`, `CnRemove`, `CnReset`);
  `CnComplete`, `CnFail`, `CnResetDone` are what a compute node reports.
* `XSend`, `XDeliver`: an exchange request of another worker, which may arrive
  before its graph is created there or after it was rebuilt.

An assertion of the code that fails sets `panic`. One barrier is in flight per
graph (several are `PartialGraphBarriers`' subject), per-database failure
isolation is enabled, ids of dropped jobs are never reused, and a send on a
stream that is dead but not yet noticed is the loss of that stream.

### 2.5 ManagedBarrierState

`states[a]` is an actor's `InflightActorState`: `inflight` barriers, `first`
(the barriers kept for late subscriptions, empty once the status is `Running`),
the highest barrier issued, whether it is stopping, its senders. `map` is
`epoch_barrier_state_map`, `prevTables` is `prev_barrier_table_ids`,
`completing` the queue of completion futures.

* `Inject…` are barriers the meta node sends: the first one, plain ones,
  commands that build and stop actors, and barriers that go elsewhere because
  this worker has no actor of the graph. Each is handled by `TransformToIssued`,
  which panics where the code does and suspends the graph where a send fails.
* `Subscribe`, `Run`, `Pass`, `Fail`, `NotifyFailure` are an actor's task:
  executors subscribe while the actor is built; reports precede the collection
  on the event channel; a failed actor's receivers are gone before its failure
  is known.
* `PollFailure`, `PollCollected`, `PollRegister`, `PollReport`, `PollCollect` are
  `poll_next_event`, failures first, collected barriers next; `SyncDone` and
  `OnEpochCompleted` complete a barrier. The loop's `select!` is biased, hence
  the guards `NoEvent` and `NextCompleted = {}`.
* `live`, `tables` and `barriers` are the meta node's side: the actors and
  tables of this worker, and the barriers sent and not answered, each with the
  tables its sync is due for. `passed` and `reported` record what actors did, for
  the properties.

The barrier with prev epoch `e` has curr epoch `e + 1`. The delay of the control
stream is left out. Reports of all kinds are one: made by `Reporters` at every
barrier and, like most of them, ignored for a barrier not in flight. A failed
sync (it resets the control stream), local output requests and the reset of a
suspended graph are left out; the last is in `PartialGraphRecovery`.

### 2.6 ExchangeFifo and PermitChannel

A message has a kind (rows, barrier, none) and its permits. `Send` starts a call
of `Sender::send`, `SendSucceeds` acquires and enqueues, `SendFails` finds the
semaphore closed. `LocalRecv` takes a message and puts its permits back.
Remotely, `ServeMessage` moves it to the response stream, `RemoteRecv` reads it
and accumulates its permits, sends a batch back (`AddBack`), and
`ServeAddPermits` applies it. `Disconnect` breaks the call with what is on it;
`DropSender`, `DropInput`, `ServeEnded`, `ServeCancelled` are the two ends going
away. `total` counts permits past each stage, for `PermitsAccounted` (part of `ChannelInv`) only.

### 2.7 MergeExecutor

A barrier is injected to the actor through `injected` (the barrier manager) and
sent by every upstream. `FetchBarrier` and `CreateInputs` are
`DispatchBarrierBuffer`: mutations are pre-applied there, ahead of the
executor, with the upstream fragment followed separately (`bufFragment` and
`fragment`). `PollRow`, `PollWatermark`, `PollBarrier` are one `poll_next` of
`DynamicReceivers` under `BufferChunks`; `EmitBarrier` is what `execute_inner`
does with an aligned barrier: remove and add upstreams, replace the fragment,
flush watermarks. The loop of `check_watermark_heap` is taken one turn at a time:
`HeapPop` takes the smallest first watermark, and `HeapChecked` ends the loop and
returns the one popped last. A chunk is its rows, there is one watermark column, and a
watermark of an upstream is its number.

## 3. Runs

| Run | Instance | Shows |
|---|---|---|
| `partial_graph` | 2 workers, 5 epochs | `IInv`, `CommitOrder`; `PipelineSpec` (refinement); `EveryBarrierLeaves` (liveness) |
| `periodic` | 2 databases, frequencies 1–3, limit 2, 1 missed checkpoint | `PInv`, `CheckpointEveryNInjected`, `ForcedComesNext` |
| `checkpoint_job` | 1 job that may be cancelled, its limit 2, 5 epochs, 2 barriers in flight, 1 failure, truncation, fair | `RecoverableAtAnyTime`, `CommittedOnce`, `NoUpstreamEpochSkipped`, `NeededLogPresent`, `NoSubscriberLeaks`, `CreatedOnlyWhenCaughtUp`; `MergedJobFinishes` (liveness) |
| `checkpoint_two_jobs` | 2 jobs with a backfill order that may be throttled, their limit 3, 4 epochs, 1 failure | `NoJobForgotten`, `MergeIsAtomic`, `JobPendingBounded` |
| `permit_channel` | local and remote; 4 permits, 2 of them left out, batches of 3, chunks of 0 and 5 rows, 4 messages | `ChannelInv`, `StarvedOnlyByBatch`; `SendResolves`, `EndReachesInput` (liveness); `CarriesInOrder` (refinement of `ExchangeFifo`) |
| `merge` | 3 upstreams in 2 fragments, 2 barriers, channels of 1 | `NeverMisaligned`, `ConsistentCut`, `UpstreamsFollowUpdates`; `BarriersComeOut` (liveness) |
| `merge_watermarks` | the same with 3 watermarks per upstream and a staging buffer of 1, 1 barrier | `WatermarkPromised`, `NoWatermarkHeldBack` |
| `recovery_jobs` | 2 workers, 1 database with a job, 1 failure | `NoAssertFails`, `AnswersAreCurrent`, `OldActorsGone`, `RecoveryTracksGraphs` |
| `recovery_ends` | 2 workers, 1 database, 2 failures, 1 exchange request, fair | `InjectedActorsExist`, `ExchangeSameTerm`; `RecoveryEnds` (liveness) |
| `managed_barriers` | 2 actors with 2 subscriptions, 4 barriers, 2 in flight, 1 failing actor | `NoPanic`, `SubscribersInStep`, `AnsweredWhenPassed`, `AnswersComplete`; `EveryBarrierAnswered` (liveness) |
| `checkpoint_recoverable` | 2 jobs, 4 epochs | **violated**: `RecoverableAtAnyTime` |
| `recovery_global` | 2 workers, 2 databases, 1 failure | **violated**: `InjectedActorsExist` |

The modules' type invariants are checked as conjuncts of `IInv`, `PInv`,
`JobPendingBounded`, `ChannelInv`, `NoWatermarkHeldBack`, `RecoveryTracksGraphs`
and `SubscribersInStep`.

Bounds. Five epochs let a graph hold in-flight, collected, completing and
acknowledged barriers at once. `PendingBound` lets commands exceed the limit by one;
`MissedBound = 1` lets one checkpoint be missed in each database, and a second one
only starts another period of the same kind (the theorem is for any bound). `MaxEpoch` bounds the barriers of the
database: five epochs are enough for creation, back-pressure (a job's limit is 2),
merge, finish, and a recovery in every phase. In `checkpoint_two_jobs` the limit is
one higher, so that a job can merge one barrier earlier, while the other one is
still full of mutation barriers or reads its log; `InFlightNums = 1` holds periodic
barriers only, commands put more in flight. That both jobs merge at one barrier
needs an epoch more than TLC can afford there; what is checked is proved for any
number of jobs and epochs (section 4). `StarvedOnlyByBatch` was also checked with an input
batch of 4. `MaxCrashes = 1` suffices for the recovery properties since
they speak of the persisted state before the failure and of the job afterwards.
Two failures in `recovery_ends` let the second fall into the recovery from
the first; with one in `recovery_jobs` every kind of failure meets every state of
a job. Four barriers in `managed_barriers` let a worker lose its actors, miss a
barrier and get new actors; two in flight let an actor subscribe late and a
barrier without a sync overtake one with. In `permit_channel` the chunk is larger
than the channel, so that it is clamped, and the input's batch is the largest with
which no send may starve: two permits can be held back, as many as are left out. Two
barriers in `merge` let the barrier manager run ahead by one that changes the
upstreams again.
Every run but `periodic` ends when its bounds are used up, so deadlock is
checked there only. Jobs and workers are interchangeable; symmetry is used only
in runs that check no liveness.

Fairness. `PartialGraphBarriers`: the loop polls the manager (`PollCollected`),
and a live worker answers what it was sent (`Collect`). A lost worker owes
nothing; `EveryBarrierLeaves` holds because the graph is then reset.
`CheckpointControl`: collection of injected barriers and the steps of the task
are weakly fair, since the worker loop and the spawned task run on. New
barriers, user commands, reports of finished backfill and failures are not
fair; `MergedJobFinishes` needs none of them.
`PartialGraphRecovery`: both ends' loops take what is there, resets end, workers
reconnect and the backoff passes; failures are bounded and need not happen.
`ManagedBarrierState`: the worker's loop and the actors' tasks are polled when
they can go on, and syncs end. `PermitChannel`: the channel's tasks run on; no
actor has to send or to drop anything. `MergeExecutor`: its poll is weakly fair
for each upstream and for the barrier manager's channel. The select at
`executor/mod.rs:1843` is biased towards the upstreams, but each has finitely many
messages before the barrier that blocks it, so none of the others waits for ever.
An upstream's barrier is strongly fair, for the same reason: it comes although the
channel fills up again and again.

## 4. Proofs

`PartialGraphBarriersProofs`, for every set of workers and every set of positive
epochs:

* `Invariance`: `Spec => []IInv`. Safety speaks of the past ("every older
  checkpoint is acknowledged"), so it is not inductive alone. `IInv` adds where
  each barrier sits: in-flight barriers chain through their curr epochs up to
  `nextPrev` (`InflightChain`), the collected queue is increasing, contiguous
  and ends where they begin (`CollectedChain`), what is completing is older
  than that and what is acknowledged older still (`CompletionOrder`), and a
  running graph has lost no checkpoint and no missing answer (`Accounting`).
* `ContiguousAlways`: the collector's contiguity assertions never fail.
  `CommitsInOrder`: `Spec => []CommitOrder`.
* `Refinement`: `Spec => PipelineSpec`. Each step is a step of `BarrierPipeline`
  under `inflight`, the set of collected epochs, `completing` and `acked`, or
  stutters.

`PeriodicBarriersProofs`, for every set of databases, every set of positive
frequencies and every limit:

* `PInvariance`: the scheduler's counter is below the frequency *n*; it counts
  every barrier injected since a checkpoint was last handed out, so with *m*
  checkpoints missed at most *m·n* plus the counter were injected since the last
  injected one; and an owed checkpoint is still flagged.
* `FrequencyHolds` (fewer than *(m+1)·n* barriers), `ForcedNext`: the two
  properties of the run.

`PermitChannelProofs`, for every capacity, batch size and set of chunk sizes:

* `PermitsAreAccounted`: `Spec => []ChannelInv`. That the permits of a
  semaphore and of everything under way add up is not inductive as a sum over
  queues, which the prover cannot fold. Instead each message and each batch
  carries the running total up to it, and `Chain` says that a queue's totals
  increase by each element's share, from what has left it to what has entered
  it: appending and taking the head keep it (`ChainAppend`, `ChainTail`).
* `SendStarvedOnlyByBatch`: `Spec => []StarvedOnlyByBatch`, with no assumption on
  the two batch sizes. With all queues empty the only permits missing are the
  fewer than `InputBatched` held back, and a chunk asks for at most
  `InitialPermits - ChannelBatched`; so a send starves only when a remote input
  holds back more than `ChannelBatched` (section 5).
  The corollary `OneConfigurationSuffices` is that with one configuration at both
  ends no send starves.

`MergeExecutorProofs`, for every set of actors and fragments, any number of
barriers and watermarks and any staging capacity:

* `MergeInvariant`: `Spec => []MInv`. The meta node, the barrier buffer and the
  executor are at three places of one history of updates (`History`, `Places`):
  that is what makes a pre-applied update meet the fragment it speaks of. Each
  channel holds the barriers between the executor's and the upstream's epoch and
  rows of the epochs between them (`ChanOk`), and its watermarks continue the ones
  read (`WmOk`); the builder holds rows of the open epoch.
* `NeverMisalignedTheorem`, `ConsistentCutTheorem`,
  `UpstreamsFollowUpdatesTheorem`, `WatermarkPromisedTheorem`,
  `NoWatermarkHeldBackTheorem`: the safety properties of the runs `merge` and
  `merge_watermarks`.

`ManagedBarrierStateProofs`, for every set of actors and tables, any number of
subscriptions, barriers and failing actors:

* `ManagedInvariant`: `Spec => []MBInv`. `MapOk` ties the worker's map to the
  barriers sent: the oldest are completing, the others wait for exactly the
  actors that have them in flight. `StateOk` and `ActorOk` relate what is in
  flight, what late subscriptions are given and what the actor passed;
  `EventsInv` says that what an actor passed and the worker has not seen is on
  the event queue, each report before its collection; `TablesInv` that the
  tables of the barrier before are those of the meta node.
* `NoPanicTheorem`, `SubscribersInStepTheorem`, `AnsweredWhenPassedTheorem`,
  `AnswersCompleteTheorem`: the safety properties of `managed_barriers`.

`CheckpointControlProofs`, for every set of jobs, all limits, any number of
barriers and failures, with and without truncation and cancelled jobs:

* `CheckpointInvariant`: `Spec => []Inv`, with one lemma per action. None of the
  properties is inductive alone: what may be committed depends on what is queued,
  which depends on how it was resolved from the log by a recovery. `Inv` has two
  halves. `CCInv` says who owns what: exactly the jobs with a control that has
  not merged subscribe (`SubsInv`), a running job among the database's tables has
  merged, at a barrier not later, and is waited for (`MergeInv`), an Initial job
  still has its first barrier ahead (`InitialInv`), and nothing is in memory
  while the database is down (`MemoryInv`). `EpochInv` orders the epochs: a job's
  collected, in-flight and queued barriers increase and chain up to the
  database's newest one (`JobOk`), after everything it has committed (`JobAfter`),
  and are fake or not before its snapshot (`JobEpoch`); the database's barriers
  are after what its tables have committed (`DbInv`); the task's epochs are before
  all that is left (`TaskInv`); and the log increases up to the committed epoch
  (`PersistedInv`), so that what recovery resolves from it is such a queue again
  (`ResolveIs`, `RecoveredJobIs`).
* `JobPendingBoundedTheorem`, `NoJobForgottenTheorem`, `MergeIsAtomicTheorem`,
  `CommittedOnceTheorem`, `NoUpstreamEpochSkippedTheorem`,
  `NoSubscriberLeaksTheorem` and the action property
  `CreatedOnlyWhenCaughtUpTheorem`: all safety properties of the two passing runs but
  `RecoverableAtAnyTime` and `NeededLogPresent`. The bound of `JobPendingBounded` includes `over`, so its proof
  adds `HistoryInv`: a graph over its limit got there by mutation barriers only.
* `NoFinishedJobPassedTheorem`: the assertion in `next_complete_barrier_task` that
  the checkpoint taken is not past a finished job (`control.rs:1089`). It rests on
  `AwaitedInv`: what a finishing or finished job waits for is a checkpoint the
  database has still to take. It also justifies `FinishedNow`, which asks for
  equal epochs only.

`ChangeLogProofs`, for all limits, any number of barriers and failures, with and
without truncation and cancelled jobs:

* `NeededLogKept`: for any number of jobs, `NeededLogPresent` holds in every behaviour
  in which the loop, when it truncates, has listed every running job
  (`TruncationSeesJobs`). Without that it is violated (section 5), so
  the theorem says that an incomplete list is the only way to lose log; that the
  list is old, and that listed jobs have gone on, failed or been dropped since, does
  no harm. The invariant `KeptInv` says of each running job that every checkpoint
  after its snapshot that it has still to complete is in the log, under commit or
  pending in the database (`Somewhere`), and that a commit that does not write the
  log is older than its snapshot; it rests on the shape of the log (`LogShape`), on
  `Inv`, and on subscribers keeping the log. Its corollary for at most one job,
  `OneJobNeededLog`, needs no hypothesis on truncation.
* `OneJobLogged`, `OneJobRecoverable`: with at most one job `RecoverableAtAnyTime`
  holds; with two it is violated (`checkpoint_recoverable`), so the hypothesis is
  needed. What recovery finds depends on what the log was told to keep several
  commits earlier, so `LogInv` follows each checkpoint of `T` from the barrier to the
  log. For a running job (`JobLogged`): what it has reached, and every checkpoint it
  has still to complete, is in the log, under commit or pending in the database
  (`Logged`); it has still to complete every committed, committing and pending
  checkpoint after what it has reached, up to the one that merges it (`Follows`); and
  the log is kept from its snapshot epoch on (`Attended`). For a Creating job without
  a control, its tables are committed by every checkpoint of the database
  (`InDatabase`). `WaitedFor` says that whom the database waits for has merged and
  still runs. One job is used in three steps only: when a task is started
  (`TakenTogether`: what the job completes is in the log or in the same task), in
  truncation (`ApplyLogged`: the loop knows the one job there is) and in recovery
  (`RecoverLogged`: the oldest start is the job's own).

`PartialGraphRecoveryProofs`, for every set of workers, every finite set of
databases, with and without jobs, and any number of failures:

* `RecoveryInvariant`: `Spec => []RInv`, with one lemma per action (`…Keeps`). The
  properties speak of one end or of one message; what keeps them true is that the
  two ends and everything under way between them fit together. `StreamsOK` says so
  for each worker and graph (`CellOK`): which requests and answers about a graph
  may be under way together, in which order (`Good`: a queue's messages about one
  graph have increasing ranks), and in which state of the graph at the meta node
  and at the compute node. It abstracts a queue to the set of messages about a
  graph (`Pend`), which appending and taking the head change by one element.
  `MetasOK` ties the stage of a database to the statuses of its graphs, `CnsOK`
  what a compute node has of a graph, and of its reset batches, to its status;
  `RemovedForGood` is why a removed job's graph is never created again.
* `AnswersAreCurrentHolds`, `OldActorsGoneHolds`, `ExchangeSameTermHolds`,
  `RecoveryTracksGraphsHolds`: the safety properties of `recovery_jobs` and
  `recovery_ends`, for any number of databases.
* `OnlyMissingActorsPanic`: where `InjectedActorsExist` holds, no assertion fails.
* `PanicsOnlyInGlobalRecovery`: `InjectedActorsExist` and `NoAssertFails` hold in
  every behaviour in which no worker that an already collected database runs on is
  lost while global recovery waits for the others (`NoCollectedFails`). This is the
  case of `recovery_global` (section 5), and the theorem says that it is the only
  one. Its invariant `ActorsOK` adds that a graph that should have actors on a
  worker has them there, or has a request under way that builds them, and that no
  other barrier is ahead of that request.
* `OneDatabaseActorsExist`, `OneDatabaseNoAssertFails`: with one database global
  recovery ends when it is collected, so both hold without that hypothesis.

Assumptions are the named ASSUMEs of the modules only (`PGEpochsAssumption`,
`PeriodicAssumption`, `ChannelAssumption`, `MergeAssumption`,
`ManagedAssumption`, `CCAssumption`, `RecoveryAssumption`). The bounds on epochs, failures and
watermarks are constants there, of any size. The inductive invariants were
checked with TLC on the instances of section 3 before they were proved, `ActorsOK`
also with two databases under `NoCollectedFails`.

Only model-checked:

* Liveness (`EveryBarrierLeaves`, `MergedJobFinishes`, `SendResolves`,
  `EndReachesInput`, `BarriersComeOut`, `RecoveryEnds`, `EveryBarrierAnswered`):
  fairness is out of the prover's reach. So is the refinement `CarriesInOrder`,
  whose promise bounds a sum over a queue, an induction over data.

## 5. Where code and text disagree

1. **A job can be committed past its upstream** (`checkpoint_recoverable`).
   `creating_job::start_completing` lets a job complete what the database has
   *collected*. The database may have to wait with its own completion for
   another job's finish. A job whose executor already reads upstream directly,
   but which has not merged, then commits an epoch that `T` has not. After a
   failure at that point recovery stops at its own checks ("downstream epoch {}
   later than upstream epoch {} of table {}").
2. **A worker lost in global recovery** (`recovery_global`). While
   `recovery_inner` waits for the databases' first barriers, a `WorkerError`
   resets only databases that are still collecting. One that was already
   collected and has actors on that worker is kept; the worker reconnects with
   empty graphs, and the next barrier asks it for actors that are not there,
   where `transform_to_issued` panics ("should exist").

Met while modelling, and left as prose; the models contain the behaviour:

* **An Initial job does not veto truncation.** The comment at `table_change_log.rs:71`
  says a job without a snapshot epoch "vetoes truncation even when another consumer
  provides a concrete cutoff"; the catalog query (`controller/streaming_job.rs:276`)
  lists `Creating` jobs (and refreshed ones) only. A younger job that became Creating
  first is the other consumer, and its cutoff is past the snapshot epoch of the Initial
  one. With the constants of `checkpoint_job`, but two jobs, no cancel, no failure and
  `MaxLagged = 1`, TLC finds `NeededLogPresent` violated: the older job has still to
  read a checkpoint that is gone. `checkpoint_job` has one job, where this cannot
  happen; `NeededLogKept` (section 4) says that nothing else can go wrong with several.
* **A job can merge before its creation is completed**
  (`creating_job/mod.rs:965`). The job is `Initial` until the task with its
  snapshot epoch is acknowledged. A task that is slow after `commit_epoch` leaves
  time for the job to read a short snapshot and log and to merge; its first
  completion is then the creation barrier, which `start_completing` asserts
  cannot be (`AssertionFails` in `CheckpointControl`, reached with three barriers
  in flight; the panic is part of `TaskFails`).
* **Fewer checkpoints than one every *n* barriers.** `checkpoint_frequency` is
  described as "There will be a checkpoint for every n barriers."
  (`common/src/system_param/mod.rs:85`). The scheduler resets its counter when it
  hands a checkpoint out (`schedule.rs:499`); when nothing is injected for it, at
  the in-flight limit or for a command like a DROP of jobs still being created, it is
  not made up for. With frequency 3, two timer barriers, such a DROP and a third timer
  barrier are three barriers without a checkpoint. `CheckpointEveryNInjected` is what
  does hold. For the same reason the comment on `force_checkpoint_in_next_barrier`
  ("Make the `checkpoint` of the next barrier must be true.") holds for the barrier
  handed out, not for one that is injected.
* **Two batch sizes.** `permit.rs:161` says the batch is subtracted from the capacity
  "to avoid deadlock with batching". The channel subtracts the batch size of the
  upstream worker's configuration (`managed_state.rs:858`), the remote input uses that
  of its job, which may override it (`input.rs:195`, `actor_manager.rs:546`). With
  `InputBatched = 4` and `ChannelBatched = 2` TLC finds a send that waits for permits
  that are never returned; `StarvedOnlyByBatch` says that this is the only such case.
* **A closed upstream of a remote input.** `executor/mod.rs:1600` says that an input
  whose other side closes yields an error. The exchange service selects over the
  receiver and the returned permits (`stream_exchange_service.rs:126`) and ends only
  when both have; a remote input whose sender was dropped goes on polling.
  `EndReachesInput` therefore speaks of a local input, and of a broken call.

Cancelling a job between its merge and its finish makes `finish_creating_job`
fail, and the database recovers (`TaskFails`); `checkpoint_job` shows that
the state it recovers from is sound.

## 6. Not modelled, and the plan

In this order:

1. `ManagedBarrierState` shown to implement the compute node of
   `PartialGraphRecovery`; several barriers in flight there.
2. The `BarrierScheduler` queues of `schedule.rs`: blocked and ready databases,
   cancelled commands, notifiers.
3. `CheckpointControl`: creation since a timestamp, forced checkpoints wired to `PeriodicBarriers`,
   batch refresh jobs.
4. Hummock: uploader, versions with pins and garbage collection.
5. KV log store and sink coordination.

Stream operators, compaction policy, leader election, and everything above the
streaming layer are left out; `PROJECT.json` gives the reason for each.
