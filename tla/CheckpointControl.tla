-------------------------- MODULE CheckpointControl --------------------------
(***************************************************************************)
(* The checkpoints of one database while streaming jobs are created over   *)
(* its materialized view T by snapshot backfill: DatabaseCheckpointControl  *)
(* (meta/src/barrier/checkpoint/control.rs, state.rs), the jobs' own        *)
(* control (independent_job/, creating_job/), the task that commits what    *)
(* has been collected (complete_task.rs), and recovery from the persisted   *)
(* state (context/recovery.rs, rpc.rs).                                    *)
(*                                                                         *)
(* A creating job runs in a partial graph of its own.  It first reads T as *)
(* of its snapshot epoch under fake epochs, then the change log of T       *)
(* barrier by barrier, and finally merges into the database's graph at a   *)
(* checkpoint barrier.  Both graphs are committed by one task at a time.   *)
(*                                                                         *)
(* Each graph's barriers are sets ordered by prev epoch: that they are     *)
(* collected and completed in that order is what PartialGraphBarriers      *)
(* shows.  Real epochs are above Base, fake epochs below it.               *)
(***************************************************************************)
EXTENDS Integers, Sequences, FiniteSets, FiniteSetsExt, SequencesExt

CONSTANTS
  Jobs,            \* jobs that may be created over T
  InFlightNums,    \* in_flight_barrier_nums
  MaxPending,      \* max_pending_barrier_num of a creating job
  MaxLagged,       \* snapshot_backfill_finish_max_lagged_barriers
  MayDrop,         \* jobs a user may cancel
  Ordered,         \* jobs with a backfill order: some fragments start later
  Commands,        \* commands that change nothing here but may throttle jobs:
                   \* the sets of jobs they throttle, {} for a flush
  Truncation,      \* whether the change-log truncation loop runs
  MaxEpoch,        \* bound: number of barriers of the database
  MaxCrashes       \* bound: number of failures

ASSUME CCAssumption ==
  /\ InFlightNums \in Nat \ {0} /\ MaxPending \in Nat \ {0}
  /\ MaxLagged \in Nat /\ MaxEpoch \in Nat \ {0} /\ MaxCrashes \in Nat
  /\ MayDrop \subseteq Jobs /\ Truncation \in BOOLEAN
  /\ Ordered \subseteq Jobs /\ Commands \subseteq SUBSET Jobs

Base == MaxEpoch + 1            \* every fake epoch is below, T starts here
Unbounded == 2 * Base           \* above every epoch
None == -1                      \* no committed epoch

VARIABLES
  \* in memory
  up,           \* the database is Running (DatabaseCheckpointControlStatus)
  nextEpoch,    \* in_flight_prev_epoch: prev epoch of the next barrier
  nonCkpt,      \* pending_non_checkpoint_barriers
  db,           \* the database's partial graph
  job,          \* independent_checkpoint_job_controls, with their graphs
  dbJobs,       \* jobs whose fragments are in database_info
  dbCreating,   \* those of them still tracked as creating after a recovery
  subs,         \* registered snapshot-backfill subscribers of T
  pendSubs,     \* pending_independent_job_subscriptions_to_drop
  finWait,      \* finishing_jobs_collector: <<epoch, job>> still to finish
  finGot,       \* finishing_jobs_collector: <<epoch, job>> finished
  task,         \* the completing task, with the step it does next
  dropReq,      \* DropStreamingJobs commands not yet handled
  toStart,      \* jobs whose tracker has pending_backfill_nodes: a mutation
                \* for the next barrier of their snapshot phase
  truncInfo,    \* jobs read by the truncation loop, not yet applied
  \* persisted
  dbCommitted,  \* committed epoch of T and the database's tables
  jobCommitted, \* committed epoch of each job's tables
  catalog,      \* job status in the catalog
  catSnap,      \* snapshot epoch filled into the job's fragments
  log,          \* change log of T: its epochs, and which are checkpoints
  crashes,      \* failures so far
  over          \* history, per job: mutation barriers forwarded to its full
                \* graph since a barrier last found room there

memory == <<up, nextEpoch, nonCkpt, db, job, dbJobs, dbCreating, subs,
            pendSubs, finWait, finGot, task, dropReq, toStart>>
persisted == <<dbCommitted, jobCommitted, catalog, catSnap, log>>
vars == <<memory, persisted, truncInfo, crashes, over>>

Barrier(p, c, k) == [prev |-> p, curr |-> c, ckpt |-> k]
EmptyGraph == [inflight |-> {}, collected |-> {}, completing |-> {}]

\* A job that is not in independent_checkpoint_job_controls.
NoJob ==
  [ctl |-> "none", ready |-> FALSE, phase |-> "snapshot", snap |-> 0,
   fake |-> 0, pend |-> <<>>, inLog |-> FALSE, logDone |-> FALSE, finishAt |-> 0, graph |-> EmptyGraph]

NoTask == [step |-> "none", db |-> {}, jobs |-> {}, fin |-> {}, log |-> FALSE]

Init ==
  /\ up = TRUE
  /\ nextEpoch = Base + 1
  /\ nonCkpt = <<>>
  /\ db = EmptyGraph
  /\ job = [j \in Jobs |-> NoJob]
  /\ dbJobs = {} /\ dbCreating = {}
  /\ subs = {} /\ pendSubs = {}
  /\ finWait = {} /\ finGot = {}
  /\ task = NoTask
  /\ dropReq = {}
  /\ toStart = {}
  /\ truncInfo = {}
  /\ dbCommitted = Base
  /\ jobCommitted = [j \in Jobs |-> None]
  /\ catalog = [j \in Jobs |-> "none"]
  /\ catSnap = [j \in Jobs |-> None]
  /\ log = <<>>
  /\ crashes = 0
  /\ over = [j \in Jobs |-> 0]

-----------------------------------------------------------------------------
(***************************************************************************)
(* Graphs                                                                  *)
(***************************************************************************)

FirstOf(S) == CHOOSE b \in S : \A c \in S : b.prev <= c.prev
FirstInflight(g) == IF g.inflight = {} THEN Unbounded ELSE FirstOf(g.inflight).prev

\* pending_barrier_num
PendingNum(g) ==
  Cardinality(g.inflight) + Cardinality(g.collected) + Cardinality(g.completing)

\* What start_completing pops below `bound': up to the first checkpoint.
PoppedFrom(g, bound) ==
  LET below == {b \in g.collected : b.prev < bound}
      ckpts == {b \in below : b.ckpt}
  IN IF ckpts = {} THEN below
     ELSE {b \in below : b.prev <= FirstOf(ckpts).prev}

CheckpointOf(popped) == {b \in popped : b.ckpt}

StartCompletingGraph(g, bound) ==
  [g EXCEPT !.collected = @ \ PoppedFrom(g, bound),
            !.completing = {b.prev : b \in CheckpointOf(PoppedFrom(g, bound))}]

InjectInto(g, barriers) == [g EXCEPT !.inflight = @ \cup barriers]

CollectFirst(g) ==
  [g EXCEPT !.inflight = @ \ {FirstOf(g.inflight)},
            !.collected = @ \cup {FirstOf(g.inflight)}]

-----------------------------------------------------------------------------
(***************************************************************************)
(* Creating jobs                                                           *)
(***************************************************************************)

Running(j) == job[j].ctl = "running"

\* on_new_upstream_barrier / on_new_upstream_epoch: how a job follows the
\* database's new barrier b, with room for Capacity(r) more barriers.
CapacityInflightOnly(r) ==             \* (Mistake) collected ones not counted
  Max({0, MaxPending - Cardinality(r.graph.inflight)})

Capacity(r) == Max({0, MaxPending - PendingNum(r.graph)})

\* next_fake_barrier: its kind follows the upstream barrier's.
NextFakeBarrier(r, ck) == Barrier(r.fake, r.fake + 1, ck)

\* finish_snapshot_barrier: from the fake epochs to the snapshot epoch.
FinishSnapshotBarrier(r) == Barrier(r.fake, r.snap, TRUE)

\* drain_pending_barriers: the first n queued barriers are injected.
DrainPendingBarriers(r, pend, n) ==
  [r EXCEPT !.pend = SubSeq(pend, n + 1, Len(pend)),
            !.graph = InjectInto(@, {pend[i] : i \in 1..n})]

ForwardLossy(r, b, mu) ==              \* (Mistake) a full graph loses the barrier
  LET pend == Append(r.pend, b)
      n    == Min({Len(pend), Capacity(r)})
  IN CASE r.ctl # "running" \/ r.phase = "finishing" \/ Capacity(r) = 0 -> r
       [] r.ctl = "running" /\ r.phase = "snapshot" /\ Capacity(r) > 0 ->
            [r EXCEPT !.pend = pend, !.fake = @ + 1,
                      !.graph = InjectInto(@, {NextFakeBarrier(r, b.ckpt)})]
       [] r.ctl = "running" /\ r.phase = "log" /\ Capacity(r) > 0 ->
            DrainPendingBarriers(r, pend, n)

\* While the job reads the snapshot, a barrier with a mutation for it (`mu') is
\* forwarded even to a full graph.
Forward(r, b, mu) ==
  LET pend == Append(r.pend, b)
      n    == Min({Len(pend), Capacity(r)})
  IN CASE r.ctl # "running" \/ r.phase = "finishing" -> r
       [] r.ctl = "running" /\ r.phase = "snapshot" ->
            IF Capacity(r) = 0 /\ ~mu
              THEN [r EXCEPT !.pend = pend]
              ELSE [r EXCEPT !.pend = pend, !.fake = @ + 1,
                             !.graph = InjectInto(@, {NextFakeBarrier(r, b.ckpt)})]
       [] r.ctl = "running" /\ r.phase = "log" ->
            DrainPendingBarriers(r, pend, n)

\* What the history counts of that forward.
OverAfter(r, n, mu) ==
  IF r.ctl # "running" \/ r.phase = "finishing" THEN n
  ELSE IF Capacity(r) > 0 THEN 0
  ELSE IF r.phase = "snapshot" /\ mu THEN n + 1 ELSE n

\* CreatingStreamingJobControl::new: the job starts with a fake checkpoint
\* barrier, and waits for the database to commit its snapshot epoch.
NewJob(snap) ==
  [NoJob EXCEPT !.ctl = "running", !.snap = snap, !.fake = 1,
                !.graph = InjectInto(EmptyGraph, {Barrier(0, 1, TRUE)})]

IsReadyToMerge(r) == r.ctl = "running" /\ r.phase = "log" /\ r.pend = <<>> /\ r.logDone

ShouldMergeToUpstream(r) == IsReadyToMerge(r) /\ PendingNum(r.graph) <= MaxLagged

\* start_consume_upstream: the job's last barrier is the database's b.
StartConsumeUpstream(r, b) ==
  [r EXCEPT !.phase = "finishing", !.finishAt = b.prev,
            !.graph = InjectInto(@, {b})]

-----------------------------------------------------------------------------
(***************************************************************************)
(* What the completing task would take next (next_complete_barrier_task)    *)
(***************************************************************************)

JobUnbounded(j) == Unbounded           \* (Mistake) the upstream is not asked

\* creating_job::start_completing: a job never completes a barrier the
\* database has not collected, except past its own finish epoch.
JobBound(j) ==
  LET upstream == FirstInflight(db) IN
  IF job[j].phase = "finishing" /\ upstream >= job[j].finishAt
    THEN Unbounded ELSE upstream

ReadyJobs == {j \in Jobs : Running(j) /\ job[j].ready}

JobPopped(j) == PoppedFrom(job[j].graph, JobBound(j))

\* Jobs whose finish epoch is taken now; they leave the map and their graph.
FinishingNow ==
  {j \in ReadyJobs : /\ job[j].phase = "finishing"
                     /\ \E b \in CheckpointOf(JobPopped(j)) : b.prev = job[j].finishAt}

FinWaitAfter == finWait \ {<<job[j].finishAt, j>> : j \in FinishingNow}
FinGotForgotten == finGot              \* (Mistake) the finished job is dropped

FinGotAfter == finGot \cup {<<job[j].finishAt, j>> : j \in FinishingNow}

DbDoesNotWait == Unbounded             \* (Mistake) the collector is not asked

\* The database waits below the first epoch some finishing job has not
\* reached.
DbBound == IF FinWaitAfter = {} THEN Unbounded ELSE Min({w[1] : w \in FinWaitAfter})

DbPopped == PoppedFrom(db, DbBound)

\* take_collected_if: the finished jobs that belong to the checkpoint taken.
FinishedNow == {w \in FinGotAfter : \E b \in CheckpointOf(DbPopped) : b.prev = w[1]}

PollEnabled ==
  /\ up /\ task = NoTask
  /\ DbPopped # {} \/ \E j \in ReadyJobs : JobPopped(j) # {}

\* start_completing of a finishing job asserts that the barrier it takes is not
\* the one that created the job.
AssertionFails ==
  \E j \in ReadyJobs : /\ job[j].phase = "finishing"
                       /\ \E b \in CheckpointOf(JobPopped(j)) : b.prev = 0

\* (Mistake) no event is handled before the task and the merges are complete.
SettledWhenIdle == up /\ task = NoTask /\ ~PollEnabled /\ finWait = {}

\* The worker loop tries to start a task before it waits for any event.
Settled == up /\ ~PollEnabled

-----------------------------------------------------------------------------
(***************************************************************************)
(* New barriers (handle_new_barrier, apply_command)                        *)
(***************************************************************************)

Epochs == Base .. (Base + MaxEpoch)

\* next_barrier_info, and inject_barrier on the database's graph.  `tabs' are
\* the jobs whose tables the barrier commits.
InjectDb(ck, tabs) ==
  /\ nextEpoch + 1 \in Epochs
  /\ nextEpoch' = nextEpoch + 1
  /\ nonCkpt' = IF ck THEN <<>> ELSE Append(nonCkpt, nextEpoch)
  /\ db' = [db EXCEPT !.inflight = @ \cup
              {[prev |-> nextEpoch, curr |-> nextEpoch + 1, ckpt |-> ck,
                eps |-> Append(nonCkpt, nextEpoch), tabs |-> tabs]}]

TablesBeforeMerge(merged) == dbJobs    \* (Mistake) the merge adds no tables

\* table_ids_to_commit of a barrier: a merge adds the tables of its jobs.
TableIdsToCommit(merged) == dbJobs \cup merged

\* take_pending_independent_job_subscriptions_to_drop, and the subscriptions of
\* the jobs that merge.
SubsAfterBarrier(merged) == subs \ (merged \cup pendSubs)

\* The forward of a new barrier to every job but the merged ones, whose last
\* barrier it is.  The mutation of a job is the throttle the command has for it,
\* or else the start of its pending backfill nodes, which are taken then.
JobsAfterBarrier(merged, b, throttled) ==
  /\ job' = [j \in Jobs |->
               IF j \in merged THEN StartConsumeUpstream(job[j], b)
               ELSE Forward(job[j], b, j \in throttled \cup toStart)]
  /\ over' = [j \in Jobs |->
               IF j \in merged THEN over[j]
               ELSE OverAfter(job[j], over[j], j \in throttled \cup toStart)]
  /\ toStart' = toStart \cap throttled

\* A periodic barrier, skipped at the in-flight limit.  A checkpoint merges
\* the jobs that are ready, and any such barrier carries the subscriptions of
\* dropped jobs away.
PeriodicBarrier(ck) ==
  LET b      == Barrier(nextEpoch, nextEpoch + 1, ck)
      merged == {j \in Jobs : ck /\ ShouldMergeToUpstream(job[j])}
  IN
  /\ Settled
  /\ PendingNum(db) < InFlightNums
  /\ InjectDb(ck, TableIdsToCommit(merged))
  /\ JobsAfterBarrier(merged, b, {})
  /\ dbJobs' = dbJobs \cup merged
  /\ finWait' = finWait \cup {<<nextEpoch, j>> : j \in merged}
  /\ subs' = SubsAfterBarrier(merged)
  /\ pendSubs' = {}
  /\ UNCHANGED <<up, dbCreating, finGot, task, dropReq, persisted, truncInfo, crashes>>

\* A command that changes nothing of this model but may throttle the creating
\* jobs S: its barrier is a checkpoint, is injected whatever is pending, and
\* merges no job.  The subscriptions of dropped jobs go with it unless it has a
\* mutation of its own for the database's graph (`mutates').
OtherCommand(S, mutates) ==
  LET b == Barrier(nextEpoch, nextEpoch + 1, TRUE) IN
  /\ Settled
  /\ S \in Commands
  /\ \A j \in S : Running(j) /\ job[j].phase # "finishing"
  /\ InjectDb(TRUE, TableIdsToCommit({}))
  /\ JobsAfterBarrier({}, b, S)
  /\ subs' = IF mutates THEN subs ELSE SubsAfterBarrier({})
  /\ pendSubs' = IF mutates THEN pendSubs ELSE {}
  /\ UNCHANGED <<up, dbJobs, dbCreating, finWait, finGot, task, dropReq, persisted,
                 truncInfo, crashes>>

\* CreateStreamingJob by snapshot backfill: the snapshot epoch is the prev
\* epoch of the barrier that carries the command.  The same barrier is forwarded
\* to the new job, and starts its first backfill nodes.
CreateJob(j) ==
  LET b == Barrier(nextEpoch, nextEpoch + 1, TRUE) IN
  /\ Settled
  /\ catalog[j] = "none"
  /\ catalog' = [catalog EXCEPT ![j] = "initial"]
  /\ InjectDb(TRUE, TableIdsToCommit({}))
  /\ job' = [i \in Jobs |-> Forward(IF i = j THEN NewJob(nextEpoch) ELSE job[i], b,
                                    i \in {j} \cup toStart)]
  /\ over' = [i \in Jobs |-> OverAfter(IF i = j THEN NewJob(nextEpoch) ELSE job[i],
                                       over[i], i \in {j} \cup toStart)]
  /\ toStart' = {}
  /\ subs' = subs \cup {j}
  /\ UNCHANGED <<up, dbJobs, dbCreating, pendSubs, finWait, finGot, task, dropReq,
                 dbCommitted, jobCommitted, catSnap, log, truncInfo, crashes>>

\* A user cancels a job: the catalog first, the command afterwards.
DropInCatalog(j) ==
  /\ up
  /\ j \in MayDrop
  /\ catalog[j] \in {"initial", "creating"}
  /\ catalog' = [catalog EXCEPT ![j] = "dropped"]
  /\ dropReq' = dropReq \cup {j}
  /\ UNCHANGED <<up, nextEpoch, nonCkpt, db, job, dbJobs, dbCreating, subs,
                 pendSubs, finWait, finGot, task, dbCommitted, jobCommitted,
                 catSnap, log, truncInfo, crashes, toStart, over>>

CanDropIndependently(r) == r.ctl = "running" /\ r.phase # "finishing"

\* IndependentCheckpointJobControl::drop: the graph is reset.
DroppedJob(r) == [r EXCEPT !.ctl = "resetting", !.graph = EmptyGraph]

\* DropStreamingJobs for a job that can be dropped by resetting its graph:
\* no barrier is injected, and the pins stay until the reset is answered.
DropIndependently(j) ==
  /\ Settled
  /\ j \in dropReq
  /\ CanDropIndependently(job[j])
  /\ dropReq' = dropReq \ {j}
  /\ toStart' = toStart \ {j}
  /\ job' = [job EXCEPT ![j] = DroppedJob(@)]
  /\ UNCHANGED <<up, nextEpoch, nonCkpt, db, dbJobs, dbCreating, subs, pendSubs,
                 finWait, finGot, task, persisted, truncInfo, crashes, over>>

JobResetForgetsSubscription(j) ==      \* (Mistake)
  /\ Settled
  /\ job[j].ctl = "resetting"
  /\ job' = [job EXCEPT ![j] = NoJob]
  /\ UNCHANGED <<up, nextEpoch, nonCkpt, db, dbJobs, dbCreating, subs, pendSubs,
                 finWait, finGot, task, dropReq, persisted, truncInfo, crashes,
                 toStart, over>>

\* on_partial_graph_reset
JobReset(j) ==
  /\ Settled
  /\ job[j].ctl = "resetting"
  /\ job' = [job EXCEPT ![j] = NoJob]
  /\ pendSubs' = pendSubs \cup {j}
  /\ UNCHANGED <<up, nextEpoch, nonCkpt, db, dbJobs, dbCreating, subs, finWait,
                 finGot, task, dropReq, persisted, truncInfo, crashes, toStart, over>>

\* DropStreamingJobs for a job that has merged: a database barrier stops its
\* actors; its tables are committed by this barrier and no longer after it.
DropInDatabase(j) ==
  LET b == Barrier(nextEpoch, nextEpoch + 1, TRUE) IN
  /\ Settled
  /\ j \in dropReq
  /\ ~CanDropIndependently(job[j])
  /\ dropReq' = dropReq \ {j}
  /\ InjectDb(TRUE, TableIdsToCommit({}))
  /\ dbJobs' = dbJobs \ {j}
  /\ dbCreating' = dbCreating \ {j}
  /\ JobsAfterBarrier({}, b, {})
  /\ UNCHANGED <<up, subs, pendSubs, finWait, finGot, task, persisted, truncInfo, crashes>>

-----------------------------------------------------------------------------
(***************************************************************************)
(* Collection                                                              *)
(***************************************************************************)

DbCollect ==
  /\ Settled
  /\ db.inflight # {}
  /\ db' = CollectFirst(db)
  /\ UNCHANGED <<up, nextEpoch, nonCkpt, job, dbJobs, dbCreating, subs, pendSubs,
                 finWait, finGot, task, dropReq, persisted, truncInfo, crashes,
                 toStart, over>>

\* The backfill executor (stream/src/executor/backfill/snapshot_backfill)
\* passes barrier b of its job: a checkpoint read from the log needs T to have
\* committed it; once it consumes upstream directly it does not.
ExecutorPasses(r, b) ==
  \/ b.prev <= r.snap
  \/ ~b.ckpt
  \/ r.logDone
  \/ dbCommitted >= b.prev

\* Barrier b of job j is collected, and the job's record becomes r; S are the
\* jobs with backfill nodes to start.
JobCollects(j, b, r, S) ==
  /\ Settled
  /\ job' = [job EXCEPT ![j] = [r EXCEPT !.graph = CollectFirst(@),
                                         !.inLog = @ \/ b.prev > job[j].snap]]
  /\ toStart' = S
  /\ UNCHANGED <<up, nextEpoch, nonCkpt, db, dbJobs, dbCreating, subs, pendSubs,
                 finWait, finGot, task, dropReq, persisted, truncInfo, crashes, over>>

FirstOfJob(j, b) ==
  /\ Running(j)
  /\ b \in job[j].graph.inflight
  /\ b = FirstOf(job[j].graph.inflight)

\* A barrier collected without news about the job's progress.
JobCollect(j) ==
  \E b \in job[j].graph.inflight :
    /\ FirstOfJob(j, b)
    /\ ExecutorPasses(job[j], b)
    /\ JobCollects(j, b, job[j], toStart)

\* The barrier reports that a fragment has read its snapshot, and others come
\* after it in the backfill order (BackfillNodeFinished): the next barrier of
\* the database will start them.
JobFinishesNode(j) ==
  \E b \in job[j].graph.inflight :
    /\ FirstOfJob(j, b)
    /\ j \in Ordered
    /\ job[j].phase = "snapshot"
    /\ dbCommitted >= job[j].snap
    /\ JobCollects(j, b, job[j], toStart \cup {j})

\* The barrier reports the snapshot as consumed: update_progress turns the
\* job to the log store, behind a barrier from the fake to the snapshot epoch.
JobFinishesSnapshot(j) ==
  \E b \in job[j].graph.inflight :
    /\ FirstOfJob(j, b)
    /\ job[j].phase = "snapshot"
    /\ dbCommitted >= job[j].snap
    /\ JobCollects(j, b,
         [job[j] EXCEPT !.phase = "log",
                        !.pend = <<FinishSnapshotBarrier(job[j])>> \o @],
         toStart \ {j})

\* The barrier reports the log store as consumed, and from here on the executor
\* reads the upstream directly: at a checkpoint read from the log, or at the
\* first barrier if the log need not be read at all.
JobFinishesLogStore(j) ==
  \E b \in job[j].graph.inflight :
    /\ FirstOfJob(j, b)
    /\ job[j].phase = "log" /\ ~job[j].logDone
    /\ b.prev > job[j].snap
    /\ ~job[j].inLog \/ (b.ckpt /\ dbCommitted >= b.prev)
    /\ JobCollects(j, b, [job[j] EXCEPT !.logDone = TRUE], toStart)

-----------------------------------------------------------------------------
(***************************************************************************)
(* Completion                                                              *)
(***************************************************************************)

\* The checkpoints of job graphs, with their jobs, that are taken now.
TakenEpochs ==
  UNION {{<<j, b.prev>> : b \in CheckpointOf(JobPopped(j))} : j \in ReadyJobs \ FinishingNow}

\* next_complete_barrier_task.  `more' are recovered jobs in the database's
\* graph whose backfill the completed barriers report as finished.
StartTask(more) ==
  LET remaining == {j \in Jobs : job[j].ctl # "none"} \ FinishingNow
      dbCkpt    == CheckpointOf(DbPopped)
  IN
  /\ PollEnabled
  /\ ~AssertionFails
  /\ more \subseteq dbCreating
  /\ dbCkpt = {} => more = {}
  /\ job' = [j \in Jobs |->
               IF j \in FinishingNow THEN NoJob
               ELSE IF j \in ReadyJobs
                 THEN [job[j] EXCEPT !.graph = StartCompletingGraph(@, JobBound(j))]
                 ELSE job[j]]
  /\ db' = StartCompletingGraph(db, DbBound)
  /\ finWait' = FinWaitAfter
  /\ finGot' = FinGotAfter \ FinishedNow
  /\ dbCreating' = dbCreating \ more
  /\ task' = IF dbCkpt = {} /\ TakenEpochs = {} THEN NoTask
             ELSE [step |-> "commit", db |-> dbCkpt,
                   jobs |-> TakenEpochs,
                   fin |-> {w[2] : w \in FinishedNow} \cup more,
                   log |-> subs # {} \/ remaining # {}]
  /\ UNCHANGED <<up, nextEpoch, nonCkpt, dbJobs, subs, pendSubs, dropReq, persisted,
                 truncInfo, crashes, toStart, over>>

\* The epoch of job j's tables once the task is committed: they are among the
\* database's tables, or the job's own graph is, or neither.
EpochAfterCommit(j) ==
  IF \E b \in task.db : j \in b.tabs THEN FirstOf(task.db).prev
  ELSE IF \E e \in 0..Unbounded : <<j, e>> \in task.jobs
    THEN CHOOSE e \in 0..Unbounded : <<j, e>> \in task.jobs
    ELSE jobCommitted[j]

\* The log of one checkpoint: its non-checkpoint epochs, and its own.
EpochLog(eps) == [i \in 1..Len(eps) |-> [epoch |-> eps[i], ckpt |-> i = Len(eps)]]

\* collect_commit_epoch_info: the change log of T grows by the checkpoint, or
\* is dropped when nobody needs it.
LogAfterCommit ==
  IF task.db = {} THEN log
  ELSE IF task.log THEN log \o EpochLog(FirstOf(task.db).eps) ELSE <<>>

\* commit_epoch: one version change for every graph of the task.
TaskCommit ==
  /\ task.step = "commit"
  /\ task' = [task EXCEPT !.step = "post"]
  /\ dbCommitted' = IF task.db = {} THEN dbCommitted ELSE FirstOf(task.db).prev
  /\ jobCommitted' = [j \in Jobs |-> EpochAfterCommit(j)]
  /\ log' = LogAfterCommit
  /\ UNCHANGED <<up, nextEpoch, nonCkpt, db, job, dbJobs, dbCreating, subs,
                 pendSubs, finWait, finGot, dropReq, catalog, catSnap, truncInfo,
                 crashes, toStart, over>>

\* New jobs whose first barrier the task commits.
NewlyCreating == {j \in Jobs : <<j, 0>> \in task.jobs /\ catalog[j] = "initial"}

\* post_collect_command: the first barrier of a new job makes it Creating and
\* persists its snapshot epoch.
TaskPostCollect ==
  /\ task.step = "post"
  /\ task' = [task EXCEPT !.step = "finish"]
  /\ catalog' = [j \in Jobs |-> IF j \in NewlyCreating THEN "creating" ELSE catalog[j]]
  /\ catSnap' = [j \in Jobs |-> IF j \in NewlyCreating THEN job[j].snap ELSE catSnap[j]]
  /\ UNCHANGED <<up, nextEpoch, nonCkpt, db, job, dbJobs, dbCreating, subs,
                 pendSubs, finWait, finGot, dropReq, dbCommitted, jobCommitted, log,
                 truncInfo, crashes, toStart, over>>

\* finish_creating_job for every finished job; it fails on a job that is gone.
TaskFinishJobs ==
  /\ task.step = "finish"
  /\ \A j \in task.fin : catalog[j] = "creating"
  /\ task' = [task EXCEPT !.step = "ack"]
  /\ catalog' = [j \in Jobs |-> IF j \in task.fin THEN "created" ELSE catalog[j]]
  /\ UNCHANGED <<up, nextEpoch, nonCkpt, db, job, dbJobs, dbCreating, subs,
                 pendSubs, finWait, finGot, dropReq, dbCommitted, jobCommitted,
                 catSnap, log, truncInfo, crashes, toStart, over>>

\* on_upstream_database_ack_completed: an Initial job becomes Ready once its
\* snapshot epoch is committed.
ReadyAfterAck(j) ==
  job[j].ready \/ (Running(j) /\ \E b \in task.db : b.prev >= job[j].snap)

\* The acknowledgement of a job dropped meanwhile is skipped.
AckedJob(j) == \E e \in job[j].graph.completing : <<j, e>> \in task.jobs

\* ack_completed: the database's graph first, which makes jobs Ready, then
\* the jobs.
TaskAck ==
  /\ task.step = "ack"
  /\ task' = NoTask
  /\ db' = [db EXCEPT !.completing = {}]
  /\ job' = [j \in Jobs |->
               [job[j] EXCEPT
                  !.ready = ReadyAfterAck(j),
                  !.graph.completing = IF AckedJob(j) THEN {} ELSE @]]
  /\ UNCHANGED <<up, nextEpoch, nonCkpt, dbJobs, dbCreating, subs, pendSubs,
                 finWait, finGot, dropReq, persisted, truncInfo, crashes, toStart,
                 over>>

-----------------------------------------------------------------------------
(***************************************************************************)
(* Truncation of the change log (meta/src/hummock)                         *)
(***************************************************************************)

\* The loop reads which jobs are creating ...
TruncateFetch ==
  /\ Truncation
  /\ truncInfo = {}
  /\ truncInfo' = {j \in Jobs : catalog[j] = "creating"}
  /\ truncInfo' # {}
  /\ UNCHANGED <<memory, persisted, crashes, over>>

TruncateBelowUpstream == dbCommitted   \* (Mistake) the jobs are not asked

\* ... and later truncates below the oldest epoch one of them needs, unless a
\* job of the list is gone by then.
TruncateEpoch == Min({Max({jobCommitted[j], catSnap[j]}) : j \in truncInfo})

\* TableChangeLog::truncate: older checkpoints go, and so do the older
\* non-checkpoint epochs of the first one that stays.
TruncatedLog ==
  LET older == {i \in 1..Len(log) : log[i].epoch < TruncateEpoch}
  IN SubSeq(log, Cardinality(older) + 1, Len(log))

TruncateApply ==
  /\ truncInfo # {}
  /\ truncInfo' = {}
  /\ \/ log' = TruncatedLog
     \/ (\E j \in truncInfo : catalog[j] = "dropped") /\ UNCHANGED log
  /\ UNCHANGED <<memory, dbCommitted, jobCommitted, catalog, catSnap, crashes, over>>

-----------------------------------------------------------------------------
(***************************************************************************)
(* Failure and recovery                                                    *)
(***************************************************************************)

\* Everything in memory is lost.
LoseMemory ==
  /\ up' = FALSE
  /\ nonCkpt' = <<>>
  /\ db' = EmptyGraph
  /\ job' = [j \in Jobs |-> NoJob]
  /\ dbJobs' = {} /\ dbCreating' = {}
  /\ subs' = {} /\ pendSubs' = {}
  /\ finWait' = {} /\ finGot' = {}
  /\ task' = NoTask
  /\ dropReq' = {}
  /\ toStart' = {}
  /\ truncInfo' = {}
  /\ over' = [j \in Jobs |-> 0]
  /\ UNCHANGED <<nextEpoch, persisted>>

\* A failure of the meta node, of the database, or of the completing task, at
\* any point.
Crash ==
  /\ up
  /\ crashes < MaxCrashes
  /\ crashes' = crashes + 1
  /\ LoseMemory

\* The task fails on a job that is gone from the catalog, which is answered by
\* recovery; an assertion panics, which restarts the meta node.
TaskFails ==
  /\ up
  /\ \/ task.step = "finish" /\ \E j \in task.fin : catalog[j] # "creating"
     \/ PollEnabled /\ AssertionFails
  /\ LoseMemory
  /\ UNCHANGED crashes

CreatingJobs == {j \in Jobs : catalog[j] = "creating"}
StartEpoch(j) == Max({jobCommitted[j], catSnap[j]})
LogCheckpoints == {log[i].epoch : i \in {k \in 1..Len(log) : log[k].ckpt}}
OldestStart == Min({StartEpoch(j) : j \in CreatingJobs})

\* resolve_hummock_version_epochs and resolve_upstream_log_epochs succeed on
\* the persisted state.
Resolvable ==
  CreatingJobs # {} =>
    /\ OldestStart <= dbCommitted
    /\ OldestStart < dbCommitted => OldestStart \in LogCheckpoints
    /\ \A j \in CreatingJobs :
         jobCommitted[j] # dbCommitted =>
           IF OldestStart = dbCommitted THEN StartEpoch(j) = dbCommitted
                                   ELSE StartEpoch(j) \in LogCheckpoints

\* resolve_upstream_log_epochs: what the log holds after the checkpoint e,
\* nothing if no job is behind T, and the barriers from epoch e up to the
\* barrier the recovery injects (prev dbCommitted, curr new).
LogAfter(e) ==
  LET at == CHOOSE i \in 1..Len(log) : log[i].ckpt /\ log[i].epoch = e
  IN IF OldestStart = dbCommitted THEN <<>> ELSE SubSeq(log, at + 1, Len(log))

ResolveFrom(e, new) ==
  LET after == LogAfter(e)
      n     == Len(after) + 1
      prev(i) == IF i = 1 THEN e ELSE after[i - 1].epoch
      curr(i) == IF i = n THEN new ELSE after[i].epoch
  IN [i \in 1..n |->
        Barrier(prev(i), curr(i), i = 1 \/ after[i - 1].ckpt)]

RecoveredAtCommittedEpoch(j, new) ==   \* (Mistake) the fake epoch is not advanced
  LET todo == ResolveFrom(StartEpoch(j), new)
      r    == [NoJob EXCEPT !.ctl = "running", !.ready = TRUE, !.snap = catSnap[j]]
  IN IF jobCommitted[j] < catSnap[j]
       THEN [r EXCEPT !.fake = jobCommitted[j], !.pend = todo]
       ELSE [r EXCEPT !.phase = "log", !.pend = Tail(todo)]

\* recover_consuming_snapshot: the fake epochs go on after the committed one.
RecoverConsumingSnapshot(r, j, todo) ==
  [r EXCEPT !.fake = jobCommitted[j] + 1, !.pend = todo]

\* recover_consuming_log_store: the first barrier to replay is the Initial one.
RecoverConsumingLogStore(r, todo) == [r EXCEPT !.phase = "log", !.pend = Tail(todo)]

\* The job's control after recovery: the first barrier of its graph is the
\* Initial one, which is collected before the database runs again.
RecoveredJob(j, new) ==
  LET todo == ResolveFrom(StartEpoch(j), new)
      r    == [NoJob EXCEPT !.ctl = "running", !.ready = TRUE, !.snap = catSnap[j]]
  IN IF jobCommitted[j] < catSnap[j]
       THEN RecoverConsumingSnapshot(r, j, todo)
       ELSE RecoverConsumingLogStore(r, todo)

\* Creating jobs that are found at the database's epoch join its graph.
CaughtUpJobs == {j \in CreatingJobs : jobCommitted[j] = dbCommitted}

\* clean_dirty_streaming_jobs: Initial jobs are dropped.
CleanedCatalog ==
  [j \in Jobs |-> IF catalog[j] = "initial" THEN "dropped" ELSE catalog[j]]

Recover ==
  LET own == CreatingJobs \ CaughtUpJobs
      new == nextEpoch + 1
  IN
  /\ ~up
  /\ Resolvable
  /\ new \in Epochs
  /\ up' = TRUE
  /\ nextEpoch' = new
  /\ job' = [j \in Jobs |-> IF j \in own THEN RecoveredJob(j, new) ELSE NoJob]
  /\ dbJobs' = CaughtUpJobs \cup {j \in Jobs : catalog[j] = "created"}
  /\ dbCreating' = CaughtUpJobs
  /\ subs' = own
  /\ toStart' = {j \in own : jobCommitted[j] < catSnap[j]}
  /\ catalog' = CleanedCatalog
  /\ UNCHANGED <<nonCkpt, db, pendSubs, finWait, finGot, task, dropReq, dbCommitted,
                 jobCommitted, catSnap, log, truncInfo, crashes, over>>

Next ==
  \/ \E ck \in BOOLEAN : PeriodicBarrier(ck)
  \/ \E S \in Commands, mutates \in BOOLEAN : OtherCommand(S, mutates)
  \/ \E j \in Jobs :
       \/ CreateJob(j)
       \/ DropInCatalog(j)
       \/ DropIndependently(j)
       \/ JobReset(j)
       \/ DropInDatabase(j)
       \/ JobCollect(j)
       \/ JobFinishesNode(j)
       \/ JobFinishesSnapshot(j)
       \/ JobFinishesLogStore(j)
  \/ DbCollect
  \/ \E more \in SUBSET Jobs : StartTask(more)
  \/ TaskCommit \/ TaskPostCollect \/ TaskFinishJobs \/ TaskAck
  \/ TruncateFetch \/ TruncateApply
  \/ Crash \/ TaskFails \/ Recover

\* The compute nodes answer, and the worker loop runs the completing task.
Fairness ==
  /\ WF_vars(DbCollect)
  /\ \A j \in Jobs : WF_vars(JobCollect(j))
  /\ WF_vars(\E more \in SUBSET Jobs : StartTask(more))
  /\ WF_vars(TaskCommit) /\ WF_vars(TaskPostCollect)
  /\ WF_vars(TaskFinishJobs) /\ WF_vars(TaskAck)
  /\ WF_vars(TaskFails)

Spec == Init /\ [][Next]_vars
FairSpec == Spec /\ Fairness

-----------------------------------------------------------------------------
(***************************************************************************)
(* Properties                                                              *)
(***************************************************************************)

\* Types, and at most one checkpoint of a graph under commit.
CCTypeOK ==
  /\ up \in BOOLEAN
  /\ nextEpoch \in Epochs
  /\ dbJobs \subseteq Jobs /\ dbCreating \subseteq dbJobs
  /\ subs \subseteq Jobs /\ pendSubs \subseteq subs
  /\ toStart \subseteq Jobs /\ over \in [Jobs -> Nat]
  /\ \A j \in Jobs :
       /\ job[j].ctl \in {"none", "running", "resetting"}
       /\ Cardinality(job[j].graph.completing) <= 1
       /\ jobCommitted[j] \in {None} \cup 0..(Base + MaxEpoch)
       /\ catalog[j] \in {"none", "initial", "creating", "created", "dropped"}
  /\ Cardinality(db.completing) <= 1
  /\ dbCommitted \in Epochs
  /\ task.step \in {"none", "commit", "post", "finish", "ack"}

\* Whatever has been persisted when a failure strikes, recovery finds the
\* change log and the epochs it asserts (resolve_hummock_version_epochs,
\* resolve_upstream_log_epochs): no job is ahead of T, and the log of T
\* reaches back to the checkpoint of the job furthest behind.
RecoverableAtAnyTime == Resolvable

\* A job the catalog calls Creating is always in somebody's hands while the
\* database runs: its own control, the finishing-jobs collector, the task, or
\* the database's tracker of a recovered job (next_complete_barrier_task moves
\* it between them).
NoJobForgotten ==
  \A j \in Jobs : up /\ catalog[j] = "creating" =>
    \/ Running(j)
    \/ \E w \in finGot : w[2] = j
    \/ j \in task.fin
    \/ j \in dbCreating

\* No epoch is committed twice or out of order for any table, whichever graph
\* commits it, across merge and recovery (assert! in
\* IndependentJobControl::ack_completed).
CommittedOnce ==
  task.step = "commit" =>
    /\ \A b \in task.db :
         b.prev > dbCommitted /\ \A j \in b.tabs : b.prev > jobCommitted[j]
    /\ \A p \in task.jobs : p[2] > jobCommitted[p[1]]

\* The database commits a barrier that carries a merged job's tables only after
\* the job's own graph delivered everything up to that barrier
\* (finishing_jobs_collector).
MergeIsAtomic ==
  task.step = "commit" => \A b \in task.db : \A j \in b.tabs : ~Running(j)

\* A job is reported as created (finish_creating_job) only when its tables are
\* committed up to the database's epoch.
CreatedOnlyWhenCaughtUp ==
  [][\A j \in Jobs : catalog[j] = "creating" /\ catalog'[j] = "created"
       => jobCommitted[j] = dbCommitted]_vars

Outstanding(r) == r.graph.inflight \cup r.graph.collected
Chained(S, end) == \A b \in S : b.curr = end \/ \E c \in S : c.prev = b.curr

\* A job sees every barrier of its upstream: what it still has to process is a
\* contiguous chain up to the database's newest barrier, through back-pressure
\* (drain_pending_barriers), phase changes and recovery.
NoUpstreamEpochSkipped ==
  \A j \in Jobs : Running(j) =>
    LET r      == job[j]
        queued == ToSet(r.pend)
    IN CASE r.phase = "snapshot" ->
              /\ Chained(Outstanding(r), r.fake)
              /\ Chained(queued, nextEpoch)
              /\ queued # {} /\ FirstOf(queued).prev = r.snap
         [] r.phase = "log" -> Chained(Outstanding(r) \cup queued, nextEpoch)
         [] r.phase = "finishing" -> Chained(Outstanding(r), r.finishAt + 1)

\* The change log of T holds every checkpoint a job has yet to read from it
\* (resolve_table_change_log_truncate_epochs).  With one job this holds, since the
\* truncation loop does nothing before it finds that job in the catalog; with
\* several it acts for the jobs it has found there, which need not be all.
NeededLogPresent ==
  \A j \in Jobs : Running(j) /\ ~job[j].logDone =>
    \A b \in job[j].graph.inflight \cup ToSet(job[j].pend) :
      b.ckpt /\ job[j].snap < b.prev /\ b.prev <= dbCommitted
        => b.prev \in LogCheckpoints

\* The state is well typed, and a job's graph holds at most its limit
\* (snapshot_backfill_max_pending_barrier_num), the barrier that merges it and
\* the mutation barriers it was sent since it last had room, across queueing,
\* draining and the change of phase.
JobPendingBounded ==
  /\ CCTypeOK
  /\ \A j \in Jobs : PendingNum(job[j].graph) <= MaxPending + 1 + over[j]

\* No subscriber of T outlives its job: it has a control that will remove it,
\* or the next barrier will (on_partial_graph_reset hands it over).  A leaked
\* one would keep the change log for ever.
NoSubscriberLeaks == \A j \in subs : job[j].ctl # "none" \/ j \in pendSubs

\* A job that has merged is created, dropped, or fails with its database: the
\* database waits for the job and the job for the database, and neither waits
\* for ever.
MergedJobFinishes ==
  \A j \in Jobs :
    (Running(j) /\ job[j].phase = "finishing")
      ~> (catalog[j] \in {"created", "dropped"} \/ ~up)

=============================================================================
