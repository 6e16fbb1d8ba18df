-------------------------- MODULE ChangeLogProofs --------------------------
(***************************************************************************)
(* The change log of T and the jobs that read it.  Every checkpoint of T   *)
(* is followed from the database's barrier through the completing task to  *)
(* the log, next to the jobs' own copies of it.  With one job, whatever    *)
(* fails, what the job has reached is in the log.  With any number of jobs, *)
(* what they have yet to read is there unless truncation misses a job.     *)
(***************************************************************************)
EXTENDS CheckpointControlProofs

------------------------------------------------------------------------------
(* The invariant. *)

\* The checkpoints of the database under commit, and those still to be taken.
CommitEpochs == IF task.step = "commit" THEN {b.prev : b \in task.db} ELSE {}
DbCheckpoints == {b.prev : b \in {c \in DbPending : c.ckpt}}

\* The checkpoints of T that a job has still to complete.
Held(r) == Outstanding(r) \cup {r.pend[i] : i \in 1 .. Len(r.pend)}
JobCheckpoints(r) == {b.prev : b \in {c \in Held(r) : c.ckpt /\ c.prev >= r.snap}}

\* The checkpoint of T a job has reached, and the one the task makes it reach.
Begun(c, v) == IF c >= v THEN c ELSE v
TakenBy(j) ==
  {e \in Nat : task.step = "commit" /\ <<j, e>> \in task.jobs /\ e >= job[j].snap}

\* A job with snapshot epoch v that has reached b and is to reach T and to
\* complete K finds all of them in the log L of the epochs up to d, or the
\* database still has them, under commit in C or pending in P.
Logged(K, b, v, T, L, d, C, P) ==
  /\ K \subseteq L \cup C \cup P
  /\ T \subseteq L \cup C
  /\ IF d >= v THEN b \in L ELSE v \in C \cup P

\* It completes every checkpoint in D after that, up to the one that merges it.
Follows(K, b, T, D, fin, at) ==
  \A e \in D : e > b /\ (\A t \in T : e > t) /\ (fin => e <= at) => e \in K

\* Nothing of a job is committed before its snapshot epoch, the log is kept for
\* it from there, and once it has merged the database commits its tables.
Attended(j) ==
  /\ dbCommitted < job[j].snap =>
       /\ ~job[j].ready /\ catalog[j] # "creating" /\ jobCommitted[j] < job[j].snap
       /\ \A p \in task.jobs : p[1] # j
  /\ ~task.log => \A e \in CommitEpochs : e < job[j].snap
  /\ job[j].phase = "finishing" /\ catalog[j] # "dropped" =>
       j \in dbJobs /\ \A b \in DbPending : b.prev >= job[j].finishAt => j \in b.tabs

JobLogged(j) ==
  /\ Logged(JobCheckpoints(job[j]), Begun(jobCommitted[j], job[j].snap), job[j].snap,
            TakenBy(j), LogCheckpoints, dbCommitted, CommitEpochs, DbCheckpoints)
  /\ Follows(JobCheckpoints(job[j]), Begun(jobCommitted[j], job[j].snap), TakenBy(j),
             {dbCommitted} \cup CommitEpochs \cup DbCheckpoints,
             job[j].phase = "finishing", job[j].finishAt)
  /\ Attended(j)

\* A job in creation that has no control: the database commits its tables.
InDatabase(j) ==
  /\ j \in dbJobs
  /\ \A b \in DbPending : b.ckpt => j \in b.tabs
  /\ task.step = "commit" =>
       (\A b \in task.db : j \in b.tabs) /\ \A p \in task.jobs : p[1] # j

\* Where recovery finds a job in creation: at the database's epoch, or in the log.
Found(j) ==
  /\ Begun(jobCommitted[j], catSnap[j]) <= dbCommitted
  /\ jobCommitted[j] = dbCommitted \/ Begun(jobCommitted[j], catSnap[j]) \in LogCheckpoints

JobState(j) ==
  /\ Running(j) => JobLogged(j)
  /\ catalog[j] = "creating" => Found(j)
  /\ up /\ catalog[j] = "creating" /\ ~Running(j) => InDatabase(j)

\* The log ends with the committed checkpoint, and a barrier's epochs with its own.
EndsAtCommitted == log # <<>> => log[Len(log)].epoch = dbCommitted /\ log[Len(log)].ckpt
EpochsEndAtBarrier == \A b \in DbPending \cup task.db : Len(b.eps) > 0 /\ b.eps[Len(b.eps)] = b.prev
TaskCommitted == task.step \notin {"none", "commit"} => \A b \in task.db : b.prev = dbCommitted
TruncationKnows == \A j \in truncInfo : catSnap[j] # None

LogShape == EndsAtCommitted /\ EpochsEndAtBarrier /\ TaskCommitted /\ TruncationKnows

LogInv ==
  /\ LogShape
  /\ \A j \in Jobs : JobState(j)

\* The epochs in the log, under commit and pending, in this order.
LEMMA CheckpointOrder ==
  ASSUME Inv
  PROVE  /\ dbCommitted \in Nat
         /\ \A e \in LogCheckpoints : e \in Nat /\ e <= dbCommitted
         /\ \A e \in CommitEpochs : e \in Nat /\ dbCommitted < e
         /\ \A e \in DbCheckpoints : e \in Nat /\ dbCommitted < e
         /\ \A e \in CommitEpochs, f \in DbCheckpoints : e < f
<1>1. TypeInv /\ DbInv /\ TaskInv /\ PersistedInv
      BY DEF Inv, CCInv, EpochInv
<1>2. \A e \in LogCheckpoints : e \in Nat /\ e <= dbCommitted
  <2> SUFFICES ASSUME NEW i \in 1 .. Len(log) PROVE log[i].epoch \in Nat /\ log[i].epoch <= dbCommitted
      BY DEF LogCheckpoints
  <2>1. log \in Seq(LogRecords) /\ log[i].epoch <= dbCommitted
        BY <1>1 DEF TypeInv, PersistedInv
  <2>2. log[i] \in LogRecords
        BY <2>1
  <2> QED  BY <2>1, <2>2 DEF LogRecords
<1>3. \A b \in DbPending \cup task.db : b \in DbBarriers
      BY <1>1 DEF TypeInv, Graphs, DbPending, Tasks
<1>4. \A b \in DbPending \cup task.db : b.prev \in Nat
      BY <1>3 DEF DbBarriers
<1>5. \A b \in DbPending : dbCommitted < b.prev
      BY <1>1 DEF DbInv
<1>6. task.step = "commit" => \A b \in task.db : dbCommitted < b.prev /\ \A c \in DbPending : b.prev < c.prev
      BY <1>1 DEF TaskInv
<1>7. dbCommitted \in Nat
      BY <1>1 DEF TypeInv
<1> QED  BY <1>2, <1>4, <1>5, <1>6, <1>7 DEF CommitEpochs, DbCheckpoints

\* The epochs of a running job.
LEMMA JobEpochs ==
  ASSUME Inv, NEW j \in Jobs, Running(j)
  PROVE  /\ job[j] \in JobRecords /\ job[j].snap \in Nat /\ job[j].snap >= Base
         /\ job[j].snap < nextEpoch /\ nextEpoch \in Nat
         /\ jobCommitted[j] \in Int /\ jobCommitted[j] >= -1
         /\ Begun(jobCommitted[j], job[j].snap) \in Nat
         /\ \A b \in Held(job[j]) : b.prev \in Nat /\ b.prev > jobCommitted[j] /\ b.prev < nextEpoch
         /\ \A e \in JobCheckpoints(job[j]) : e \in Nat /\ e > jobCommitted[j] /\ e >= job[j].snap
         /\ \A e \in TakenBy(j) : e \in Nat /\ e > jobCommitted[j] /\ e >= job[j].snap
         /\ catSnap[j] \in {None, job[j].snap}
<1>1. TypeInv /\ JobsInv /\ TaskInv
      BY DEF Inv, CCInv, EpochInv
<1>2. PICK r : r = job[j]
      OBVIOUS
<1>3. /\ r \in JobRecords /\ r.snap \in Nat /\ r.pend \in Seq(JobBarriers)
      /\ r.graph \in Graphs(JobBarriers)
      /\ jobCommitted[j] \in Int /\ jobCommitted[j] >= -1 /\ nextEpoch \in Nat
      BY <1>1, <1>2 DEF TypeInv, JobRecords, None
<1>4. JobOk(r, nextEpoch) /\ JobAfter(r, jobCommitted[j]) /\ catSnap[j] \in {None, r.snap}
      BY <1>1, <1>2 DEF JobsInv
<1>5. r.snap < nextEpoch /\ r.snap >= Base
      BY <1>4 DEF JobOk, JobBounds, JobOrder
<1>6. \A b \in Held(r) : b.prev \in Nat /\ b.prev > jobCommitted[j] /\ b.prev < nextEpoch
  <2>1. ASSUME NEW b \in Outstanding(r)
        PROVE  b.prev \in Nat /\ b.prev > jobCommitted[j] /\ b.prev < nextEpoch
    <3>1. b \in JobBarriers
          BY <1>3 DEF Outstanding, Graphs
    <3> QED  BY <1>4, <3>1 DEF JobOk, JobBounds, JobAfter, JobBarriers
  <2>2. ASSUME NEW i \in 1 .. Len(r.pend)
        PROVE  r.pend[i].prev \in Nat /\ r.pend[i].prev > jobCommitted[j] /\ r.pend[i].prev < nextEpoch
    <3>1. r.pend[i] \in JobBarriers
          BY <1>3
    <3> QED  BY <1>4, <3>1 DEF JobOk, JobBounds, JobAfter, JobBarriers
  <2> QED  BY <2>1, <2>2 DEF Held
<1>7. \A e \in JobCheckpoints(r) : e \in Nat /\ e > jobCommitted[j] /\ e >= r.snap
      BY <1>6 DEF JobCheckpoints
<1>8. \A e \in TakenBy(j) : e \in Nat /\ e > jobCommitted[j] /\ e >= r.snap
  <2> SUFFICES ASSUME NEW e \in TakenBy(j) PROVE e \in Nat /\ e > jobCommitted[j] /\ e >= r.snap
      OBVIOUS
  <2>1. e \in Nat /\ task.step = "commit" /\ <<j, e>> \in task.jobs /\ e >= r.snap
        BY <1>2 DEF TakenBy
  <2>2. jobCommitted[<<j, e>>[1]] < <<j, e>>[2]
        BY <1>1, <2>1 DEF TaskInv
  <2> QED  BY <1>3, <2>1, <2>2
<1>9. Begun(jobCommitted[j], r.snap) \in Nat
      BY <1>3 DEF Begun
<1> QED  BY <1>2, <1>3, <1>4, <1>5, <1>6, <1>7, <1>8, <1>9

\* A job's record changes, and nothing of what it has to complete.
SameForLog(r, s) ==
  /\ s.snap = r.snap /\ s.ready = r.ready /\ s.finishAt = r.finishAt
  /\ (s.phase = "finishing") = (r.phase = "finishing")
  /\ JobCheckpoints(s) = JobCheckpoints(r)

LEMMA StateKept ==
  ASSUME NEW j \in Jobs, JobState(j), task' = task, DbPending' = DbPending,
         log' = log, dbCommitted' = dbCommitted, jobCommitted'[j] = jobCommitted[j],
         catSnap'[j] = catSnap[j], j \in dbJobs => j \in dbJobs', up' => up,
         catalog'[j] \in {catalog[j], "dropped"},
         Running(j)' => Running(j) /\ SameForLog(job[j], job'[j]),
         Running(j) /\ ~Running(j)' => catalog'[j] # "creating"
  PROVE  JobState(j)'
<1>1. /\ CommitEpochs' = CommitEpochs /\ DbCheckpoints' = DbCheckpoints
      /\ LogCheckpoints' = LogCheckpoints
      BY DEF CommitEpochs, DbCheckpoints, LogCheckpoints
<1>2. catalog'[j] = "creating" => catalog[j] = "creating" /\ Found(j)'
      BY <1>1 DEF JobState, Found
<1>3. ASSUME Running(j)' PROVE JobLogged(j)'
  <2>1. JobLogged(j) /\ SameForLog(job[j], job'[j])
        BY <1>3 DEF JobState
  <2>2. PICK K, b, v : /\ K = JobCheckpoints(job[j]) /\ v = job[j].snap
                       /\ b = Begun(jobCommitted[j], job[j].snap)
        OBVIOUS
  <2>3. /\ K = JobCheckpoints(job'[j]) /\ v = job'[j].snap
        /\ b = Begun(jobCommitted'[j], job'[j].snap)
        BY <2>1, <2>2 DEF SameForLog
  <2>4. TakenBy(j)' = TakenBy(j)
        BY <2>2, <2>3 DEF TakenBy
  <2>5. Logged(K, b, v, TakenBy(j), LogCheckpoints, dbCommitted, CommitEpochs, DbCheckpoints)
        BY <2>1, <2>2 DEF JobLogged
  <2>6. Follows(K, b, TakenBy(j), {dbCommitted} \cup CommitEpochs \cup DbCheckpoints,
                job[j].phase = "finishing", job[j].finishAt)
        BY <2>1, <2>2 DEF JobLogged
  <2>7. Attended(j)'
        BY <1>1, <2>1 DEF JobLogged, Attended, SameForLog
  <2>8. (job'[j].phase = "finishing") = (job[j].phase = "finishing") /\ job'[j].finishAt = job[j].finishAt
        BY <2>1 DEF SameForLog
  <2> QED  BY <1>1, <2>3, <2>4, <2>5, <2>6, <2>7, <2>8 DEF JobLogged
<1>4. up' /\ catalog'[j] = "creating" /\ ~Running(j)' => InDatabase(j)'
      BY <1>2 DEF JobState, InDatabase
<1> QED  BY <1>2, <1>3, <1>4 DEF JobState

\* The parts about the log itself, when it and the barriers stay.
LEMMA LogShapeKept ==
  ASSUME LogShape, log' = log, dbCommitted' = dbCommitted, catSnap' = catSnap,
         DbPending' \subseteq DbPending, task'.db \subseteq task.db,
         task'.step \notin {"none", "commit"} => task.step \notin {"none", "commit"},
         truncInfo' \subseteq truncInfo
  PROVE  LogShape'
BY DEF LogShape, EndsAtCommitted, EpochsEndAtBarrier, TaskCommitted, TruncationKnows

LEMMA SameRecord ==
  ASSUME NEW r
  PROVE  SameForLog(r, r)
BY DEF SameForLog

\* Only records of running jobs change, in nothing that matters to the log.
RecordsSame ==
  /\ job' \in [Jobs -> JobRecords] /\ UNCHANGED <<db, task, dbJobs, persisted, up>>
  /\ truncInfo' = truncInfo
  /\ \A j \in Jobs : Running(j)' => Running(j) /\ SameForLog(job[j], job'[j])
  /\ \A j \in Jobs : Running(j) /\ ~Running(j)' => catalog[j] # "creating"

LEMMA RecordsChange == ASSUME LogInv, LogShape', RecordsSame PROVE LogInv'
<1>0. /\ UNCHANGED <<db, task, dbJobs, persisted, up>> /\ truncInfo' = truncInfo
      /\ \A j \in Jobs : Running(j)' => Running(j) /\ SameForLog(job[j], job'[j])
      /\ \A j \in Jobs : Running(j) /\ ~Running(j)' => catalog[j] # "creating"
      BY DEF RecordsSame
<1>1. /\ log' = log /\ dbCommitted' = dbCommitted /\ jobCommitted' = jobCommitted
      /\ catSnap' = catSnap /\ catalog' = catalog /\ DbPending' = DbPending
      BY <1>0 DEF persisted, DbPending
<1>2. ASSUME NEW j \in Jobs PROVE JobState(j)'
      BY <1>0, <1>1, StateKept DEF LogInv
<1> QED  BY <1>2 DEF LogInv

\* Collection moves a barrier within the job's graph.
LEMMA CollectHolds ==
  ASSUME NEW r \in JobRecords, r.graph.inflight # {}, NEW x, NEW s,
         s = Rec(r.ctl, r.ready, r.phase, r.snap, r.fake, r.pend, x, r.logDone, r.finishAt,
                 CollectFirst(r.graph))
  PROVE  /\ s.ctl = r.ctl /\ s.snap = r.snap /\ s.ready = r.ready /\ s.finishAt = r.finishAt
         /\ s.phase = r.phase /\ Held(s) = Held(r)
<1>1. r.graph \in Graphs(JobBarriers)
      BY DEF JobRecords
<1>2. PICK g : g = CollectFirst(r.graph)
      OBVIOUS
<1>3. s = Rec(r.ctl, r.ready, r.phase, r.snap, r.fake, r.pend, x, r.logDone, r.finishAt, g)
      BY <1>2, Zenon
<1>4. PICK f : f = FirstOf(r.graph.inflight)
      OBVIOUS
<1>5. g = [inflight |-> r.graph.inflight \ {f}, collected |-> r.graph.collected \cup {f},
           completing |-> r.graph.completing]
      BY <1>1, <1>2, <1>4, CollectFirstFields, Zenon
<1>6. f \in r.graph.inflight
  <2>1. \A b \in r.graph.inflight : b.prev \in Nat
    <3>1. r.graph.inflight \subseteq JobBarriers
          BY <1>1 DEF Graphs
    <3> QED  BY <3>1 DEF JobBarriers
  <2> QED  BY <1>4, <2>1, FirstOfIsLeast
<1>7. /\ s.ctl = r.ctl /\ s.snap = r.snap /\ s.ready = r.ready /\ s.finishAt = r.finishAt
      /\ s.phase = r.phase /\ s.pend = r.pend /\ s.graph = g
      BY <1>3 DEF Rec
<1>8. Outstanding(s) = Outstanding(r)
      BY <1>5, <1>6, <1>7 DEF Outstanding
<1> QED  BY <1>7, <1>8 DEF Held

\* The collected barrier is still the job's to complete.
LEMMA CollectsSame ==
  ASSUME Inv, Inv', NEW j \in Jobs, Running(j), NEW b, NEW q, NEW S,
         JobCollects(j, b, q, S), q \in JobRecords, q.graph.inflight # {},
         q.ctl = "running", SameForLog(job[j], q)
  PROVE  RecordsSame
<1>1. PICK v : v = (b.prev > job[j].snap)
      OBVIOUS
<1>2. PICK s : s = [q EXCEPT !.graph = CollectFirst(@), !.inLog = @ \/ v]
      OBVIOUS
<1>3. /\ s.ctl = q.ctl /\ s.snap = q.snap /\ s.ready = q.ready /\ s.finishAt = q.finishAt
      /\ s.phase = q.phase /\ Held(s) = Held(q)
  <2>1. PICK x : x = (q.inLog \/ v)
        OBVIOUS
  <2>2. s = Rec(q.ctl, q.ready, q.phase, q.snap, q.fake, q.pend, x, q.logDone, q.finishAt,
                CollectFirst(q.graph))
        BY <1>2, <2>1, CollectedFields, Zenon
  <2> QED  BY <2>2, CollectHolds, Zenon
<1>4. job' = [job EXCEPT ![j] = s]
      BY <1>1, <1>2, Zenon DEF JobCollects
<1>5. /\ UNCHANGED <<db, task, dbJobs, persisted, up>> /\ truncInfo' = truncInfo
      BY DEF JobCollects
<1>6. JobCheckpoints(s) = JobCheckpoints(q)
      BY <1>3 DEF JobCheckpoints
<1>7. SameForLog(job[j], s)
      BY <1>3, <1>6 DEF SameForLog
<1>8. job \in [Jobs -> JobRecords] /\ job' \in [Jobs -> JobRecords]
      BY DEF Inv, CCInv, TypeInv
<1>9. ASSUME NEW i \in Jobs
      PROVE  /\ Running(i)' => Running(i) /\ SameForLog(job[i], job'[i])
             /\ Running(i) => Running(i)'
  <2>1. CASE i = j
    <3>1. job'[i] = s
          BY <1>4, <1>8, <2>1
    <3> QED  BY <1>3, <1>7, <2>1, <3>1 DEF Running
  <2>2. CASE i # j
    <3>1. job'[i] = job[i]
          BY <1>4, <1>8, <2>2
    <3> QED  BY <3>1, SameRecord DEF Running
  <2> QED  BY <2>1, <2>2
<1> QED  BY <1>5, <1>8, <1>9 DEF RecordsSame

LEMMA CollectSame ==
  ASSUME Inv, Inv', NEW j \in Jobs, JobCollect(j) \/ JobFinishesNode(j)
  PROVE  RecordsSame
<1>1. \E b \in job[j].graph.inflight :
        FirstOfJob(j, b) /\ \E S : JobCollects(j, b, job[j], S)
      BY DEF JobCollect, JobFinishesNode
<1>3. PICK b \in job[j].graph.inflight : FirstOfJob(j, b) /\ \E S : JobCollects(j, b, job[j], S)
      BY <1>1
<1>4. PICK S : JobCollects(j, b, job[j], S)
      BY <1>3
<1>2. Running(j) /\ job[j] \in JobRecords /\ job[j].graph.inflight # {} /\ job[j].ctl = "running"
      BY <1>3, RunningFacts DEF FirstOfJob, Running
<1> QED  BY <1>2, <1>4, SameRecord, CollectsSame

LEMMA FinishesLogStoreSame ==
  ASSUME Inv, Inv', NEW j \in Jobs, JobFinishesLogStore(j)
  PROVE  RecordsSame
<1>1. PICK r, q : r = job[j] /\ q = [r EXCEPT !.logDone = TRUE]
      OBVIOUS
<1>2. PICK b \in r.graph.inflight : FirstOfJob(j, b) /\ JobCollects(j, b, q, toStart)
      BY <1>1, Zenon DEF JobFinishesLogStore
<1>3. Running(j) /\ r \in JobRecords /\ r.ctl = "running"
      BY <1>1, <1>2, RunningFacts DEF FirstOfJob, Running
<1>4. /\ q \in JobRecords /\ q.ctl = r.ctl /\ q.ready = r.ready /\ q.phase = r.phase
      /\ q.snap = r.snap /\ q.pend = r.pend /\ q.finishAt = r.finishAt /\ q.graph = r.graph
      BY <1>1, <1>3 DEF JobRecords
<1>5. Held(q) = Held(r)
      BY <1>4 DEF Held, Outstanding
<1>6. SameForLog(job[j], q)
      BY <1>1, <1>4, <1>5 DEF SameForLog, JobCheckpoints
<1> QED  BY <1>2, <1>3, <1>4, <1>6, CollectsSame

\* The barrier that ends the snapshot has a fake epoch: no checkpoint of T.
LEMMA FinishesSnapshotSame ==
  ASSUME Inv, Inv', NEW j \in Jobs, JobFinishesSnapshot(j)
  PROVE  RecordsSame
<1>1. PICK r, f : r = job[j] /\ f = FinishSnapshotBarrier(r)
      OBVIOUS
<1>2. PICK u : u = <<f>> \o r.pend
      OBVIOUS
<1>3. PICK q : q = [r EXCEPT !.phase = "log", !.pend = u]
      OBVIOUS
<1>4. PICK b \in r.graph.inflight :
        /\ FirstOfJob(j, b) /\ r.phase = "snapshot"
        /\ JobCollects(j, b, q, toStart \ {j})
  <2>1. q = [r EXCEPT !.phase = "log", !.pend = <<FinishSnapshotBarrier(r)>> \o @]
        BY <1>1, <1>2, <1>3, Zenon
  <2> QED  BY <1>1, <2>1, Zenon DEF JobFinishesSnapshot
<1>5. /\ Running(j) /\ r \in JobRecords /\ r.ctl = "running" /\ JobOk(r, nextEpoch)
      /\ nextEpoch \in Nat /\ nextEpoch <= Base + MaxEpoch
      BY <1>1, <1>4, RunningFacts DEF FirstOfJob, Running
<1>6. /\ r.pend \in Seq(JobBarriers) /\ r.snap \in Nat /\ r.fake \in Nat /\ Len(r.pend) \in Nat
      BY <1>5, RecordFacts
<1>7. f.prev = r.fake /\ f \in JobBarriers
      BY <1>1, <1>6 DEF FinishSnapshotBarrier, Barrier, JobBarriers
<1>8. r.fake < r.snap
  <2>1. r.fake <= nextEpoch - Base /\ r.snap >= Base
        BY <1>4, <1>5 DEF JobOk, JobOrder
  <2>2. Base \in Nat /\ Base = MaxEpoch + 1 /\ MaxEpoch \in Nat
        BY CCAssumption DEF Base
  <2> QED  BY <1>5, <1>6, <2>1, <2>2
<1>9. /\ u \in Seq(JobBarriers) /\ Len(u) = Len(r.pend) + 1 /\ u[1] = f
      /\ \A i \in 2 .. Len(u) : i - 1 \in 1 .. Len(r.pend) /\ u[i] = r.pend[i - 1]
      /\ \A i \in 1 .. Len(r.pend) : i + 1 \in 1 .. Len(u) /\ r.pend[i] = u[i + 1]
      BY <1>2, <1>6, <1>7
<1>10. q = Rec(r.ctl, r.ready, "log", r.snap, r.fake, u, r.inLog, r.logDone, r.finishAt, r.graph)
      BY <1>3, <1>5, ToLogFields, Zenon
<1>11. /\ q.ctl = r.ctl /\ q.ready = r.ready /\ q.phase = "log" /\ q.snap = r.snap
       /\ q.pend = u /\ q.finishAt = r.finishAt /\ q.graph = r.graph
      BY <1>10 DEF Rec
<1>12. q \in JobRecords
      BY <1>5, <1>9, <1>10 DEF JobRecords, Rec
<1>13. Held(q) = Held(r) \cup {f}
  <2>1. {u[i] : i \in 1 .. Len(u)} = {r.pend[i] : i \in 1 .. Len(r.pend)} \cup {f}
    <3>1. \A i \in 1 .. Len(u) : i = 1 \/ i \in 2 .. Len(u)
          BY <1>6, <1>9
    <3>2. 1 \in 1 .. Len(u)
          BY <1>6, <1>9
    <3>3. \A i \in 1 .. Len(u) : u[i] = f \/ \E k \in 1 .. Len(r.pend) : u[i] = r.pend[k]
          BY <1>9, <3>1
    <3>4. \E i \in 1 .. Len(u) : f = u[i]
          BY <1>9, <3>2
    <3>5. \A k \in 1 .. Len(r.pend) : \E i \in 1 .. Len(u) : r.pend[k] = u[i]
          BY <1>9
    <3>6. {u[i] : i \in 1 .. Len(u)} \subseteq {r.pend[i] : i \in 1 .. Len(r.pend)} \cup {f}
          BY <3>3
    <3>7. {r.pend[i] : i \in 1 .. Len(r.pend)} \subseteq {u[i] : i \in 1 .. Len(u)}
          BY <3>5
    <3>8. f \in {u[i] : i \in 1 .. Len(u)}
          BY <3>4
    <3> QED  BY <3>6, <3>7, <3>8
  <2>2. Outstanding(q) = Outstanding(r)
        BY <1>11 DEF Outstanding
  <2>3. Held(q) = Outstanding(r) \cup {u[i] : i \in 1 .. Len(u)}
        BY <1>11, <2>2 DEF Held
  <2> QED  BY <2>1, <2>3, Zenon DEF Held
<1>14. JobCheckpoints(q) = JobCheckpoints(r)
  <2>1. ~(f.prev >= r.snap)
        BY <1>6, <1>7, <1>8
  <2>2. {c \in Held(q) : c.ckpt /\ c.prev >= q.snap} = {c \in Held(r) : c.ckpt /\ c.prev >= r.snap}
        BY <1>11, <1>13, <2>1
  <2> QED  BY <2>2, Zenon DEF JobCheckpoints
<1>15. SameForLog(job[j], q)
      BY <1>1, <1>4, <1>11, <1>14 DEF SameForLog
<1> QED  BY <1>4, <1>5, <1>11, <1>12, <1>15, CollectsSame

\* A barrier of the database is collected.
LEMMA DbCollectLogged == ASSUME Inv, LogInv, LogShape', DbCollect PROVE LogInv'
<1>1. /\ db' = CollectFirst(db) /\ db.inflight # {} /\ job' = job /\ task' = task
      /\ dbJobs' = dbJobs /\ UNCHANGED <<persisted, up>> /\ truncInfo' = truncInfo
      BY DEF DbCollect
<1>2. /\ log' = log /\ dbCommitted' = dbCommitted /\ jobCommitted' = jobCommitted
      /\ catSnap' = catSnap /\ catalog' = catalog
      BY <1>1 DEF persisted
<1>3. DbPending' = DbPending
  <2>1. \A x \in DbBarriers : x.prev \in Nat
        BY DEF DbBarriers
  <2>2. db \in Graphs(DbBarriers) /\ GraphOrder(db)
        BY DEF Inv, CCInv, EpochInv, TypeInv, DbInv
  <2> QED  BY <1>1, <2>1, <2>2, CollectGraph DEF DbPending
<1>4. ASSUME NEW j \in Jobs PROVE JobState(j)'
  <2>1. Running(j)' = Running(j) /\ job'[j] = job[j]
        BY <1>1 DEF Running
  <2> QED  BY <1>1, <1>2, <1>3, <2>1, SameRecord, StateKept DEF LogInv
<1> QED  BY <1>4 DEF LogInv

\* A job is cancelled in the catalog.
LEMMA DropInCatalogLogged ==
  ASSUME Inv, LogInv, LogShape', NEW i \in Jobs, DropInCatalog(i)
  PROVE  LogInv'
<1>1. /\ UNCHANGED <<db, job, task, dbJobs, up, dbCommitted, jobCommitted, catSnap, log, truncInfo>>
      /\ catalog' = [catalog EXCEPT ![i] = "dropped"]
      BY DEF DropInCatalog
<1>2. DbPending' = DbPending
      BY <1>1 DEF DbPending
<1>3. ASSUME NEW j \in Jobs PROVE JobState(j)'
  <2>1. Running(j)' = Running(j) /\ job'[j] = job[j]
        BY <1>1 DEF Running
  <2>2. catalog'[j] \in {catalog[j], "dropped"}
        BY <1>1 DEF Inv, CCInv, TypeInv
  <2> QED  BY <1>1, <1>2, <2>1, <2>2, SameRecord, StateKept DEF LogInv
<1> QED  BY <1>3 DEF LogInv

\* A dropped job stops running, and the catalog has forgotten it.
LEMMA StopSame ==
  ASSUME Inv, Inv', NEW i \in Jobs, DropIndependently(i) \/ JobReset(i)
  PROVE  RecordsSame
<1>1. UNCHANGED <<db, task, dbJobs, persisted, up>> /\ truncInfo' = truncInfo
      BY DEF DropIndependently, JobReset
<1>2. job \in [Jobs -> JobRecords] /\ job' \in [Jobs -> JobRecords]
      BY DEF Inv, CCInv, TypeInv
<1>3. PICK s : job' = [job EXCEPT ![i] = s] /\ s.ctl # "running"
              /\ (Running(i) => catalog[i] = "dropped")
  <2>1. CASE DropIndependently(i)
    <3>1. job' = [job EXCEPT ![i] = DroppedJob(job[i])] /\ i \in dropReq
          BY <2>1, Zenon DEF DropIndependently
    <3>2. DroppedJob(job[i]).ctl = "resetting"
          BY <1>2, DroppedFields DEF Rec
    <3>3. catalog[i] = "dropped"
          BY <3>1 DEF Inv, CCInv, CatalogInv
    <3> QED  BY <3>1, <3>2, <3>3
  <2>2. CASE JobReset(i)
    <3>1. job' = [job EXCEPT ![i] = NoJob] /\ job[i].ctl = "resetting"
          BY <2>2 DEF JobReset
    <3> QED  BY <3>1, NoJobFields DEF Running
  <2> QED  BY <2>1, <2>2
<1>4. ASSUME NEW j \in Jobs
      PROVE  /\ Running(j)' => Running(j) /\ SameForLog(job[j], job'[j])
             /\ Running(j) /\ ~Running(j)' => catalog[j] # "creating"
  <2>1. CASE j = i
    <3>1. job'[j] = s
          BY <1>2, <1>3, <2>1
    <3> QED  BY <1>3, <2>1, <3>1 DEF Running
  <2>2. CASE j # i
    <3>1. job'[j] = job[j]
          BY <1>2, <1>3, <2>2
    <3> QED  BY <3>1, SameRecord DEF Running
  <2> QED  BY <2>1, <2>2
<1> QED  BY <1>1, <1>2, <1>4 DEF RecordsSame

\* The truncation loop reads the catalog.
LEMMA FetchLogged == ASSUME Inv, LogInv, LogShape', TruncateFetch PROVE LogInv'
<1>1. /\ UNCHANGED <<db, job, task, dbJobs, up>> /\ log' = log /\ dbCommitted' = dbCommitted
      /\ jobCommitted' = jobCommitted /\ catSnap' = catSnap /\ catalog' = catalog
      /\ truncInfo' = {j \in Jobs : catalog[j] = "creating"}
      BY DEF TruncateFetch, memory, persisted
<1>2. DbPending' = DbPending
      BY <1>1 DEF DbPending
<1>3. ASSUME NEW j \in Jobs PROVE JobState(j)'
  <2>1. Running(j)' = Running(j) /\ job'[j] = job[j]
        BY <1>1 DEF Running
  <2> QED  BY <1>1, <1>2, <2>1, SameRecord, StateKept DEF LogInv
<1> QED  BY <1>3 DEF LogInv

\* A failure loses what is in memory.
LEMMA LoseMemoryLogged == ASSUME Inv, LogInv, LogShape', LoseMemory PROVE LogInv'
<1>1. /\ ~up' /\ db' = EmptyGraph /\ job' = [j \in Jobs |-> NoJob] /\ task' = NoTask
      /\ truncInfo' = {} /\ log' = log /\ dbCommitted' = dbCommitted
      /\ jobCommitted' = jobCommitted /\ catSnap' = catSnap /\ catalog' = catalog
      BY DEF LoseMemory, persisted
<1>2. DbPending' = {} /\ task'.db = {} /\ task'.step = "none"
      BY <1>1, EmptyGraphFinite, NoTaskFields DEF DbPending
<1>3. ASSUME NEW j \in Jobs PROVE JobState(j)'
  <2>1. ~Running(j)'
        BY <1>1, NoJobFields DEF Running
  <2>2. LogCheckpoints' = LogCheckpoints
        BY <1>1 DEF LogCheckpoints
  <2>3. catalog'[j] = "creating" => Found(j)'
        BY <1>1, <2>2 DEF LogInv, JobState, Found
  <2> QED  BY <1>1, <2>1, <2>3 DEF JobState
<1> QED  BY <1>3 DEF LogInv

LEMMA InitLogged == Init => LogInv
<1> SUFFICES ASSUME Init PROVE LogInv
    OBVIOUS
<1>1. DbPending = {} /\ task.db = {} /\ task.step = "none" /\ truncInfo = {} /\ log = <<>>
      BY EmptyGraphFinite, NoTaskFields DEF Init, DbPending
<1>2. ASSUME NEW j \in Jobs PROVE ~Running(j) /\ catalog[j] = "none"
      BY NoJobFields DEF Init, Running
<1>3. LogShape
      BY <1>1 DEF LogShape, EndsAtCommitted, EpochsEndAtBarrier, TaskCommitted, TruncationKnows
<1> QED  BY <1>2, <1>3 DEF LogInv, JobState

\* The new barrier of the database, with all it carries.
LEMMA InjectedBarrier ==
  ASSUME Inv, NEW ck, NEW tabs, InjectDb(ck, tabs)
  PROVE  \E nb : /\ nb.prev = nextEpoch /\ nb.ckpt = ck /\ nb.tabs = tabs
                 /\ Len(nb.eps) > 0 /\ nb.eps[Len(nb.eps)] = nb.prev
                 /\ DbPending' = DbPending \cup {nb}
<1>1. PICK n \in Nat, l \in Seq(Nat) : n = nextEpoch /\ l = nonCkpt
      BY DEF Inv, CCInv, TypeInv
<1>2. PICK q : q = Append(l, n)
      OBVIOUS
<1>3. Len(q) > 0 /\ q[Len(q)] = n
      BY <1>2
<1>4. PICK nb : nb = [prev |-> n, curr |-> n + 1, ckpt |-> ck, eps |-> q, tabs |-> tabs]
      OBVIOUS
<1>5. db \in Graphs(DbBarriers)
      BY DEF Inv, CCInv, TypeInv
<1>6. db' = [db EXCEPT !.inflight = @ \cup {nb}]
      BY <1>1, <1>2, <1>4 DEF InjectDb
<1>7. db'.inflight = db.inflight \cup {nb} /\ db'.collected = db.collected
      BY <1>5, <1>6 DEF Graphs
<1>8. nb.prev = n /\ nb.ckpt = ck /\ nb.tabs = tabs /\ nb.eps = q
      BY <1>4
<1>9. DbPending' = DbPending \cup {nb}
      BY <1>7 DEF DbPending
<1> QED  BY <1>1, <1>3, <1>8, <1>9

\* The checkpoint that a barrier with prev epoch n is, if it is one.
Point(ck, n) == IF ck THEN {n} ELSE {}

Queued(q) == {q[i] : i \in 1 .. Len(q)}

LEMMA HeldIs ==
  ASSUME NEW r
  PROVE  \A x : x \in Held(r) <=>
           x \in r.graph.inflight \/ x \in r.graph.collected \/ x \in Queued(r.pend)
BY DEF Held, Outstanding, Queued

\* Checkpoints of T are added to what a job holds, and barriers that are not.
LEMMA MoreCheckpoints ==
  ASSUME NEW r, NEW s, NEW b, s.snap = r.snap, b.prev >= r.snap,
         \A c \in Held(r) : c \in Held(s), b \in Held(s),
         \A c \in Held(s) : c \in Held(r) \/ c = b \/ ~(c.prev >= s.snap)
  PROVE  JobCheckpoints(s) = JobCheckpoints(r) \cup Point(b.ckpt, b.prev)
<1>1. ASSUME NEW e \in JobCheckpoints(s) PROVE e \in JobCheckpoints(r) \cup Point(b.ckpt, b.prev)
  <2>1. PICK c \in Held(s) : c.ckpt /\ c.prev >= s.snap /\ e = c.prev
        BY <1>1 DEF JobCheckpoints
  <2> QED  BY <2>1 DEF JobCheckpoints, Point
<1>2. ASSUME NEW e \in JobCheckpoints(r) PROVE e \in JobCheckpoints(s)
      BY <1>2 DEF JobCheckpoints
<1>3. ASSUME NEW e \in Point(b.ckpt, b.prev) PROVE e \in JobCheckpoints(s)
      BY <1>3 DEF JobCheckpoints, Point
<1> QED  BY <1>1, <1>2, <1>3

\* The barrier of the database is one more for a job that follows it.
LEMMA ForwardCheckpoints ==
  ASSUME NEW r \in JobRecords, FiniteGraph(r.graph), r.ctl = "running", r.phase # "finishing",
         NEW n \in Nat, NEW ck \in BOOLEAN, NEW b, b = Barrier(n, n + 1, ck), r.snap <= n,
         r.phase = "snapshot" => r.fake < r.snap, NEW mu, NEW s, s = Forward(r, b, mu)
  PROVE  JobCheckpoints(s) = JobCheckpoints(r) \cup Point(ck, n)
<1>1. b \in JobBarriers /\ b.prev = n /\ b.ckpt = ck
      BY BarrierFields
<1>2. s.snap = r.snap /\ s.graph.collected = r.graph.collected
      BY <1>1, ForwardType
<1>3. /\ r.pend \in Seq(JobBarriers) /\ r.snap \in Nat /\ r.fake \in Nat
      /\ r.phase \in {"snapshot", "log", "finishing"}
      BY DEF JobRecords
<1>4. PICK q : q = Append(r.pend, b)
      OBVIOUS
<1>5. /\ q \in Seq(JobBarriers) /\ Len(q) = Len(r.pend) + 1 /\ Len(r.pend) \in Nat
      /\ q[Len(q)] = b /\ \A i \in 1 .. Len(r.pend) : q[i] = r.pend[i]
      BY <1>1, <1>3, <1>4
<1>6. \A x : x \in Queued(q) <=> x = b \/ x \in Queued(r.pend)
  <2>1. ASSUME NEW i \in 1 .. Len(q) PROVE q[i] = b \/ \E k \in 1 .. Len(r.pend) : q[i] = r.pend[k]
    <3>1. CASE i = Len(q)
          BY <1>5, <3>1
    <3>2. CASE i # Len(q)
      <4>1. i \in 1 .. Len(r.pend)
            BY <1>5, <3>2
      <4> QED  BY <1>5, <4>1
    <3> QED  BY <3>1, <3>2
  <2>2. ASSUME NEW i \in 1 .. Len(r.pend) PROVE \E k \in 1 .. Len(q) : r.pend[i] = q[k]
    <3>1. i \in 1 .. Len(q)
          BY <1>5
    <3> QED  BY <1>5, <3>1
  <2>3. Len(q) \in 1 .. Len(q)
        BY <1>5
  <2>4. ASSUME NEW x \in Queued(q) PROVE x = b \/ x \in Queued(r.pend)
        BY <2>1, <2>4 DEF Queued
  <2>5. ASSUME NEW x \in Queued(r.pend) PROVE x \in Queued(q)
        BY <2>2, <2>5 DEF Queued
  <2>6. b \in Queued(q)
        BY <1>5, <2>3 DEF Queued
  <2> QED  BY <2>4, <2>5, <2>6
<1>7. CASE Queues(r, b, s) \/ Fakes(r, b, s)
  <2>1. s.pend = q /\ \A x \in s.graph.inflight : x \in r.graph.inflight \/ x.prev = r.fake
    <3>1. CASE Queues(r, b, s)
          BY <1>4, <3>1 DEF Queues, Rec
    <3>2. CASE Fakes(r, b, s)
      <4>1. PICK f : f = Barrier(r.fake, r.fake + 1, ck)
            OBVIOUS
      <4>2. f.prev = r.fake
            BY <4>1 DEF Barrier
      <4>3. PICK g : g = [inflight |-> r.graph.inflight \cup {f}, collected |-> r.graph.collected,
                          completing |-> r.graph.completing]
            OBVIOUS
      <4>4. s = Rec(r.ctl, r.ready, r.phase, r.snap, r.fake + 1, q, r.inLog, r.logDone,
                    r.finishAt, g)
            BY <1>1, <1>4, <3>2, <4>1, <4>3, Zenon DEF Fakes
      <4>5. s.pend = q /\ s.graph = g
            BY <4>4 DEF Rec
      <4> QED  BY <4>2, <4>3, <4>5
    <3> QED  BY <1>7, <3>1, <3>2
  <2>2. r.fake < r.snap
        BY <1>7 DEF Queues, Fakes
  <2>3. r.graph.inflight \subseteq s.graph.inflight
        BY <1>1, ForwardType
  <2>10. /\ \A x : x \in Held(r) <=> x \in r.graph.inflight \/ x \in r.graph.collected
                                     \/ x \in Queued(r.pend)
         /\ \A x : x \in Held(s) <=> x \in s.graph.inflight \/ x \in s.graph.collected
                                     \/ x \in Queued(s.pend)
        BY HeldIs
  <2>4. \A c \in Held(r) : c \in Held(s)
        BY <1>2, <1>6, <2>1, <2>3, <2>10
  <2>5. b \in Held(s)
        BY <1>6, <2>1, <2>10
  <2>6. \A c \in Held(s) : c \in Held(r) \/ c = b \/ ~(c.prev >= s.snap)
    <3> SUFFICES ASSUME NEW c \in s.graph.inflight, c \notin r.graph.inflight PROVE ~(c.prev >= s.snap)
        BY <1>2, <1>6, <2>1, <2>10
    <3>1. c.prev = r.fake
          BY <2>1
    <3> QED  BY <1>2, <1>3, <2>2, <3>1
  <2> QED  BY <1>1, <1>2, <2>4, <2>5, <2>6, MoreCheckpoints
<1>8. CASE \E m \in Nat : Drains(r, b, m, s)
  <2>1. PICK m \in Nat : Drained(r, q, m, s)
        BY <1>4, <1>8, DrainsFields
  <2>2. m \in 0 .. Len(q) /\ s.pend = SubSeq(q, m + 1, Len(q))
        /\ s.graph.inflight = r.graph.inflight \cup {q[i] : i \in 1 .. m}
        BY <2>1 DEF Drained
  <2>3. /\ Len(s.pend) = Len(q) - m
        /\ \A i \in 1 .. Len(s.pend) : s.pend[i] = q[m + i] /\ m + i \in 1 .. Len(q)
    <3>1. m <= Len(q) /\ Len(q) \in Nat
          BY <1>5, <2>2
    <3>2. /\ Len(s.pend) = Len(q) - m
          /\ \A i \in 1 .. Len(q) - m : s.pend[i] = q[m + i]
      <4>1. PICK z : z = SubSeq(q, m + 1, Len(q))
            OBVIOUS
      <4>2. Len(z) = Len(q) - m /\ \A i \in 1 .. Len(q) - m : z[i] = q[m + i]
        <5>1. /\ Len(SubSeq(q, m + 1, Len(q))) = Len(q) - m
              /\ \A i \in 1 .. Len(q) - m : SubSeq(q, m + 1, Len(q))[i] = q[m + i]
          <6>1. PICK y \in Seq(JobBarriers) : y = q
                BY <1>5
          <6>2. m <= Len(y)
                BY <3>1, <6>1
          <6>3. /\ Len(SubSeq(y, m + 1, Len(y))) = Len(y) - m
                /\ \A i \in 1 .. Len(y) - m : SubSeq(y, m + 1, Len(y))[i] = y[m + i]
                BY <6>2, SuffixIsSeq, Zenon
          <6> QED  BY <6>1, <6>3, Zenon
        <5> QED  BY <4>1, <5>1, Zenon
      <4>3. s.pend = z
            BY <2>2, <4>1
      <4> QED  BY <4>2, <4>3
    <3>3. \A i \in 1 .. Len(s.pend) : s.pend[i] = q[m + i]
          BY <3>2
    <3>4. \A i \in 1 .. Len(s.pend) : m + i \in 1 .. Len(q)
          BY <3>1, <3>2
    <3> QED  BY <3>2, <3>3, <3>4
  <2>9. PICK S : S = {q[i] : i \in 1 .. m}
        OBVIOUS
  <2>4. \A x : x \in Queued(q) <=> x \in S \/ x \in Queued(s.pend)
    <3>1. ASSUME NEW i \in 1 .. Len(q)
          PROVE  (\E k \in 1 .. m : q[i] = q[k]) \/ \E k \in 1 .. Len(s.pend) : q[i] = s.pend[k]
      <4>1. CASE i <= m
        <5>1. i \in 1 .. m
              BY <2>2, <4>1
        <5> QED  BY <5>1
      <4>2. CASE ~(i <= m)
        <5>1. i - m \in 1 .. Len(s.pend) /\ m + (i - m) = i
              BY <1>5, <2>2, <2>3, <4>2
        <5> QED  BY <2>3, <5>1
      <4> QED  BY <4>1, <4>2
    <3>2. \A i \in 1 .. m : i \in 1 .. Len(q)
          BY <1>5, <2>2
    <3>3. ASSUME NEW i \in 1 .. m PROVE \E k \in 1 .. Len(q) : q[i] = q[k]
          BY <3>2
    <3>4. ASSUME NEW i \in 1 .. Len(s.pend) PROVE \E k \in 1 .. Len(q) : s.pend[i] = q[k]
          BY <2>3
    <3>5. ASSUME NEW x \in Queued(q) PROVE x \in S \/ x \in Queued(s.pend)
          BY <2>9, <3>1, <3>5 DEF Queued
    <3>6. ASSUME NEW x \in S PROVE x \in Queued(q)
          BY <2>9, <3>3, <3>6 DEF Queued
    <3>7. ASSUME NEW x \in Queued(s.pend) PROVE x \in Queued(q)
          BY <3>4, <3>7 DEF Queued
    <3> QED  BY <3>5, <3>6, <3>7
  <2>10. /\ \A x : x \in Held(r) <=> x \in r.graph.inflight \/ x \in r.graph.collected
                                     \/ x \in Queued(r.pend)
         /\ \A x : x \in Held(s) <=> x \in s.graph.inflight \/ x \in s.graph.collected
                                     \/ x \in Queued(s.pend)
        BY HeldIs
  <2>11. \A x : x \in s.graph.inflight <=> x \in r.graph.inflight \/ x \in S
        BY <2>2, <2>9
  <2>6. \A x : x \in Held(s) <=> x \in Held(r) \/ x = b
        BY <1>2, <1>6, <2>4, <2>10, <2>11
  <2>7. b.prev >= r.snap
        BY <1>1, <1>3
  <2>8. /\ \A c \in Held(r) : c \in Held(s)
        /\ \A c \in Held(s) : c \in Held(r) \/ c = b \/ ~(c.prev >= s.snap)
        BY <2>6
  <2>12. b \in Held(s)
        BY <2>6
  <2> QED  BY <1>1, <1>2, <2>7, <2>8, <2>12, MoreCheckpoints
<1>9. ~Unmoved(r, s)
      BY DEF Unmoved
<1> QED  BY <1>1, <1>7, <1>8, <1>9, ForwardCases

\* The barrier that merges a job is its last one.
LEMMA MergeCheckpoints ==
  ASSUME NEW r \in JobRecords, FiniteGraph(r.graph), NEW n \in Nat, NEW ck \in BOOLEAN,
         NEW b, b = Barrier(n, n + 1, ck), r.snap <= n, NEW s, s = StartConsumeUpstream(r, b)
  PROVE  JobCheckpoints(s) = JobCheckpoints(r) \cup Point(ck, n) /\ s.ready = r.ready
<1>1. b \in JobBarriers /\ b.prev = n /\ b.ckpt = ck
      BY BarrierFields
<1>2. s = Rec(r.ctl, r.ready, "finishing", r.snap, r.fake, r.pend, r.inLog, r.logDone,
              b.prev, InjectInto(r.graph, {b}))
      BY StartConsumeFields
<1>3. PICK g : g = InjectInto(r.graph, {b})
      OBVIOUS
<1>4. g = [inflight |-> r.graph.inflight \cup {b}, collected |-> r.graph.collected,
           completing |-> r.graph.completing]
      BY <1>3, InjectFields DEF JobRecords
<1>5. s = Rec(r.ctl, r.ready, "finishing", r.snap, r.fake, r.pend, r.inLog, r.logDone, b.prev, g)
      BY <1>2, <1>3, Zenon
<1>6. s.pend = r.pend /\ s.graph = g /\ s.snap = r.snap /\ s.ready = r.ready
      BY <1>5 DEF Rec
<1>7. \A x : x \in Held(s) <=> x \in Held(r) \/ x = b
      BY <1>4, <1>6 DEF Held, Outstanding
<1> QED  BY <1>1, <1>6, <1>7, MoreCheckpoints

\* What the database adds, it adds for a job that has not merged.
LEMMA LoggedMore ==
  ASSUME NEW K, NEW b, NEW v, NEW T, NEW L, NEW d, NEW C, NEW P, NEW X,
         Logged(K, b, v, T, L, d, C, P)
  PROVE  Logged(K \cup X, b, v, T, L, d, C, P \cup X) /\ Logged(K, b, v, T, L, d, C, P \cup X)
BY DEF Logged

LEMMA FollowsMore ==
  ASSUME NEW K, NEW b, NEW T, NEW D, NEW X, NEW a, NEW c, NEW fin, Follows(K, b, T, D, FALSE, a)
  PROVE  Follows(K \cup X, b, T, D \cup X, fin, c)
BY DEF Follows

\* A job in creation before its snapshot epoch is after every fake epoch.
LEMMA FakeBeforeSnap ==
  ASSUME Inv, NEW j \in Jobs, Running(j), job[j].phase = "snapshot"
  PROVE  job[j].fake < job[j].snap
<1>1. job[j] \in JobRecords /\ JobOk(job[j], nextEpoch)
      BY RunningFacts
<1>2. job[j].fake <= nextEpoch - Base /\ job[j].snap >= Base
      BY <1>1 DEF JobOk, JobOrder
<1>3. nextEpoch <= Base + MaxEpoch /\ nextEpoch \in Nat
      BY DEF Inv, CCInv, EpochInv, DbInv, TypeInv
<1>4. job[j].fake \in Nat /\ job[j].snap \in Nat
      BY <1>1 DEF JobRecords
<1> QED  BY <1>2, <1>3, <1>4, CCAssumption DEF Base

\* What a new barrier is for the database (X), and for a job that has a control:
\* its record becomes s.
BarrierReaches(r, s, X, merged, n) ==
  /\ DbCheckpoints' = DbCheckpoints \cup X
  /\ CommitEpochs' = CommitEpochs /\ LogCheckpoints' = LogCheckpoints
  /\ r \in JobRecords /\ s.ctl = "running" /\ s.snap = r.snap /\ s.ready = r.ready
  /\ JobCheckpoints(s) = IF r.phase = "finishing" THEN JobCheckpoints(r)
                         ELSE JobCheckpoints(r) \cup X
  /\ IF merged THEN s.phase = "finishing" /\ s.finishAt = n /\ r.phase # "finishing"
               ELSE s.phase = r.phase /\ s.finishAt = r.finishAt

LEMMA NewBarrierRecord ==
  ASSUME Inv, NEW ck \in BOOLEAN, NEW b, NEW M, NEW N, NEW D, NEW P, NEW W,
         NewBarrier(b, ck, M, N, D, P, W), NEW nb, nb.prev = nextEpoch, nb.ckpt = ck,
         DbPending' = DbPending \cup {nb}, NEW j \in Jobs, j \notin N, Running(j)
  PROVE  \A n, X, r, s : n = nextEpoch /\ X = Point(ck, n) /\ r = job[j] /\ s = job'[j] =>
           BarrierReaches(r, s, X, j \in M, n)
<1> TAKE n, X, r, s
<1> HAVE n = nextEpoch /\ X = Point(ck, n) /\ r = job[j] /\ s = job'[j]
<1>0. n \in Nat
      BY DEF Inv, CCInv, TypeInv
<1> USE <1>0
<1>1. /\ task' = task /\ log' = log /\ \A i \in M : IsReadyToMerge(job[i])
      BY DEF NewBarrier
<1>2. n = nextEpoch
      OBVIOUS
<1>3. r = job[j] /\ s = job'[j]
      OBVIOUS
<1>4. /\ r \in JobRecords /\ FiniteGraph(r.graph) /\ JobRoom(r, over[j]) /\ JobOk(r, n)
      /\ r.ctl = "running"
      BY <1>2, <1>3, RunningFacts DEF Running
<1>5. /\ b = Barrier(n, n + 1, ck) /\ b \in JobBarriers /\ r.snap \in Nat /\ r.snap <= n
      /\ r.phase = "snapshot" => r.fake < r.snap
  <2>1. b = Barrier(n, n + 1, ck)
        BY <1>2 DEF NewBarrier
  <2>2. r.snap \in Nat /\ r.snap < n
        BY <1>2, <1>3, JobEpochs
  <2> QED  BY <1>3, <2>1, <2>2, BarrierFields, FakeBeforeSnap
<1>6. X = Point(ck, n)
      OBVIOUS
<1>7. DbCheckpoints' = DbCheckpoints \cup X
  <2>1. \A e : e \in DbCheckpoints' <=> \E c \in DbPending \cup {nb} : c.ckpt /\ e = c.prev
        BY DEF DbCheckpoints
  <2>2. \A e : e \in DbCheckpoints <=> \E c \in DbPending : c.ckpt /\ e = c.prev
        BY DEF DbCheckpoints
  <2>3. \A e : e \in X <=> nb.ckpt /\ e = nb.prev
        BY <1>2, <1>6 DEF Point
  <2> QED  BY <2>1, <2>2, <2>3
<1>8. /\ CommitEpochs' = CommitEpochs /\ LogCheckpoints' = LogCheckpoints
      BY <1>1 DEF CommitEpochs, LogCheckpoints
<1>10. /\ s.ctl = r.ctl /\ s.snap = r.snap /\ s.ready = r.ready
       /\ JobCheckpoints(s) = IF r.phase = "finishing" THEN JobCheckpoints(r)
                              ELSE JobCheckpoints(r) \cup X
       /\ IF j \in M THEN s.phase = "finishing" /\ s.finishAt = n /\ r.phase # "finishing"
                     ELSE s.phase = r.phase /\ s.finishAt = r.finishAt
  <2>1. CASE j \in M
    <3>1. s = StartConsumeUpstream(r, b)
          BY <1>3, <2>1, Zenon DEF NewBarrier, JobsFollow
    <3>2. r.phase = "log" /\ r.pend = <<>>
          BY <1>1, <1>3, <2>1 DEF IsReadyToMerge
    <3>3. Followed(r, s, n, over[j]) /\ s.phase = "finishing" /\ s.finishAt = n
      <4>1. n > Base
            BY <1>2 DEF Inv, EpochInv, DbInv
      <4> QED  BY <1>4, <1>5, <3>1, <3>2, <4>1, MergeFollows
    <3>4. JobCheckpoints(s) = JobCheckpoints(r) \cup Point(ck, n) /\ s.ready = r.ready
          BY <1>4, <1>5, <3>1, MergeCheckpoints
    <3>5. s.ctl = r.ctl /\ s.snap = r.snap
          BY <3>3 DEF Followed
    <3> QED  BY <1>6, <2>1, <3>2, <3>3, <3>4, <3>5
  <2>2. CASE j \notin M
    <3>0. PICK mu : mu = (j \in W)
          OBVIOUS
    <3>1. s = Forward(r, b, mu)
          BY <1>3, <2>2, <3>0, Zenon DEF NewBarrier, JobsFollow
    <3>2. /\ s.ctl = r.ctl /\ s.ready = r.ready /\ s.phase = r.phase /\ s.snap = r.snap
          /\ s.finishAt = r.finishAt
          BY <1>4, <1>5, <3>1, ForwardType
    <3>3. CASE r.phase = "finishing"
      <4>1. s = r
            BY <3>1, <3>3, Zenon DEF Forward
      <4> QED  BY <2>2, <3>2, <3>3, <4>1
    <3>4. CASE r.phase # "finishing"
      <4>1. JobCheckpoints(s) = JobCheckpoints(r) \cup Point(ck, n)
            BY <1>4, <1>5, <3>1, <3>4, ForwardCheckpoints
      <4> QED  BY <1>6, <2>2, <3>2, <3>4, <4>1
    <3> QED  BY <3>3, <3>4
  <2> QED  BY <2>1, <2>2
<1> QED  BY <1>4, <1>7, <1>8, <1>10, Zenon DEF BarrierReaches

\* A new barrier, for the jobs that have a control.
LEMMA NewBarrierJob ==
  ASSUME Inv, LogInv, NEW ck \in BOOLEAN, NEW b,
         NEW M \in SUBSET Jobs, NEW N \in SUBSET Jobs, NEW D \in SUBSET Jobs,
         NEW P \in SUBSET pendSubs, NEW W, NewBarrier(b, ck, M, N, D, P, W),
         NEW nb, nb.prev = nextEpoch, nb.ckpt = ck, nb.tabs = dbJobs \cup M,
         DbPending' = DbPending \cup {nb},
         NEW j \in Jobs, j \notin N, Running(j)
  PROVE  JobLogged(j)' /\ Running(j)'
<1>1. /\ up' = up /\ task' = task /\ dbCommitted' = dbCommitted
      /\ jobCommitted' = jobCommitted /\ log' = log
      /\ dbJobs' = (dbJobs \cup M) \ D /\ \A i \in D : catalog[i] = "dropped"
      /\ \A i \in M : IsReadyToMerge(job[i])
      /\ catalog'[j] = catalog[j]
      BY DEF NewBarrier
<1>2. PICK n \in Nat : n = nextEpoch
      BY DEF Inv, CCInv, TypeInv
<1>3. PICK r, s : r = job[j] /\ s = job'[j]
      OBVIOUS
<1>6. PICK X : X = Point(ck, n)
      OBVIOUS
<1>9. JobLogged(j) /\ Attended(j)
      BY DEF LogInv, JobState, JobLogged
<1>7. /\ DbCheckpoints' = DbCheckpoints \cup X /\ CommitEpochs' = CommitEpochs
      /\ LogCheckpoints' = LogCheckpoints /\ r \in JobRecords
      /\ s.ctl = "running" /\ s.snap = r.snap /\ s.ready = r.ready
      /\ JobCheckpoints(s) = IF r.phase = "finishing" THEN JobCheckpoints(r)
                             ELSE JobCheckpoints(r) \cup X
      /\ IF j \in M THEN s.phase = "finishing" /\ s.finishAt = n /\ r.phase # "finishing"
                    ELSE s.phase = r.phase /\ s.finishAt = r.finishAt
  <2>1. BarrierReaches(r, s, X, j \in M, n)
        BY <1>2, <1>3, <1>6, NewBarrierRecord, Zenon
  <2> QED  BY <2>1, Zenon DEF BarrierReaches
<1>11. PICK K, g, T, A, fin, at :
         /\ K = JobCheckpoints(r) /\ g = Begun(jobCommitted[j], r.snap) /\ T = TakenBy(j)
         /\ A = {dbCommitted} \cup CommitEpochs \cup DbCheckpoints
         /\ fin = (r.phase = "finishing") /\ at = r.finishAt
      OBVIOUS
<1>12. g = Begun(jobCommitted'[j], s.snap) /\ T = TakenBy(j)'
      BY <1>1, <1>3, <1>7, <1>11 DEF TakenBy
<1>13. /\ Logged(K, g, r.snap, T, LogCheckpoints, dbCommitted, CommitEpochs, DbCheckpoints)
       /\ Follows(K, g, T, A, fin, at)
      BY <1>3, <1>9, <1>11 DEF JobLogged
<1>14. {dbCommitted'} \cup CommitEpochs' \cup DbCheckpoints' = A \cup X
      BY <1>1, <1>7, <1>11
<1>15. r.phase = "finishing" => r.finishAt < n
  <2>1. r.phase = "finishing" => <<r.finishAt, j>> \in finWait
        BY <1>3 DEF Inv, CCInv, MergeInv
  <2>2. \A w \in finWait : w[1] < nextEpoch
        BY DEF Inv, EpochInv, DbInv
  <2> QED  BY <1>2, <2>1, <2>2
<1>16. /\ Logged(JobCheckpoints(s), g, s.snap, T, LogCheckpoints, dbCommitted, CommitEpochs,
                 DbCheckpoints \cup X)
       /\ Follows(JobCheckpoints(s), g, T, A \cup X, s.phase = "finishing", s.finishAt)
  <2>1. CASE r.phase = "finishing"
    <3>1. Logged(K, g, r.snap, T, LogCheckpoints, dbCommitted, CommitEpochs, DbCheckpoints \cup X)
          BY <1>13, LoggedMore
    <3>2. \A e \in X : ~(e <= at)
      <4>1. r.finishAt \in Nat
            BY <1>7 DEF JobRecords
      <4> QED  BY <1>6, <1>11, <1>15, <2>1, <4>1 DEF Point
    <3>3. Follows(K, g, T, A \cup X, TRUE, at)
          BY <1>11, <1>13, <2>1, <3>2 DEF Follows
    <3>4. JobCheckpoints(s) = K /\ s.snap = r.snap /\ s.finishAt = at /\ s.phase = "finishing"
          BY <1>7, <1>11, <2>1
    <3> QED  BY <3>1, <3>3, <3>4
  <2>2. CASE r.phase # "finishing"
    <3>1. JobCheckpoints(s) = K \cup X /\ s.snap = r.snap
          BY <1>7, <1>11, <2>2
    <3>2. Logged(K \cup X, g, r.snap, T, LogCheckpoints, dbCommitted, CommitEpochs,
                 DbCheckpoints \cup X)
          BY <1>13, LoggedMore
    <3>3. Follows(K, g, T, A, FALSE, at)
          BY <1>11, <1>13, <2>2
    <3>4. Follows(K \cup X, g, T, A \cup X, s.phase = "finishing", s.finishAt)
          BY <3>3, FollowsMore
    <3> QED  BY <3>1, <3>2, <3>4
  <2> QED  BY <2>1, <2>2
<1>17. Attended(j)'
  <2>1. /\ dbCommitted < r.snap =>
             /\ ~r.ready /\ catalog[j] # "creating" /\ jobCommitted[j] < r.snap
             /\ \A p \in task.jobs : p[1] # j
        /\ ~task.log => \A e \in CommitEpochs : e < r.snap
        /\ r.phase = "finishing" /\ catalog[j] # "dropped" =>
             j \in dbJobs /\ \A c \in DbPending : c.prev >= r.finishAt => j \in c.tabs
        BY <1>3, <1>9 DEF Attended
  <2>2. ASSUME s.phase = "finishing", catalog'[j] # "dropped"
        PROVE  j \in dbJobs' /\ \A c \in DbPending' : c.prev >= s.finishAt => j \in c.tabs
    <3>1. CASE j \in M
      <4>1. \A c \in DbPending : c.prev < n /\ c.prev \in Nat
            BY <1>2, TypeFacts DEF Inv, CCInv, EpochInv, DbInv
      <4> QED  BY <1>1, <1>7, <2>2, <3>1, <4>1
    <3>2. CASE j \notin M
          BY <1>1, <1>7, <2>1, <2>2, <3>2
    <3> QED  BY <3>1, <3>2
  <2> QED  BY <1>1, <1>3, <1>7, <2>1, <2>2 DEF Attended
<1>18. Running(j)'
      BY <1>3, <1>7 DEF Running
<1> QED  BY <1>1, <1>3, <1>7, <1>12, <1>14, <1>16, <1>17, <1>18 DEF JobLogged

\* A new job: the barrier that creates it is all it has of T.
BarrierCreates(j, s, n) ==
  /\ jobCommitted[j] = None /\ \A p \in task.jobs : p[1] # j
  /\ n > Base /\ dbCommitted < n
  /\ s.ctl = "running" /\ ~s.ready /\ s.phase = "snapshot" /\ s.snap = n
  /\ JobCheckpoints(s) = {n}

LEMMA NewBarrierNewRecord ==
  ASSUME Inv, NEW b, NEW M, NEW N \in SUBSET Jobs, NEW D, NEW P, NEW W,
         NewBarrier(b, TRUE, M, N, D, P, W), NEW j \in N
  PROVE  \A n, s : n = nextEpoch /\ s = job'[j] => BarrierCreates(j, s, n)
<1> TAKE n, s
<1> HAVE n = nextEpoch /\ s = job'[j]
<1>0. n \in Nat
      BY DEF Inv, CCInv, TypeInv
<1> USE <1>0
<1>1. /\ catalog[j] = "none" /\ j \in Jobs /\ \A i \in M : IsReadyToMerge(job[i])
      BY DEF NewBarrier
<1>2. n = nextEpoch
      OBVIOUS
<1>3. /\ job[j].ctl = "none" /\ jobCommitted[j] = None /\ \A p \in task.jobs : p[1] # j
      BY <1>1 DEF Inv, CCInv, EpochInv, CatalogInv, PersistedInv
<1>4. j \notin M
      BY <1>1, <1>3 DEF IsReadyToMerge
<1>5. PICK r, mu : r = NewJob(n) /\ mu = (j \in W)
      OBVIOUS
<1>6. s = Forward(r, b, mu)
      BY <1>1, <1>2, <1>4, <1>5, Zenon DEF NewBarrier, JobsFollow
<1>7. /\ r \in JobRecords /\ FiniteGraph(r.graph) /\ r.ctl = "running" /\ r.phase = "snapshot"
      /\ r.snap = n /\ r.fake = 1 /\ r.pend = <<>>
      /\ r.graph = [inflight |-> {FirstBarrier}, collected |-> {}, completing |-> {}]
      BY <1>5, NewJobFields
<1>8. ~r.ready
  <2>1. PICK q, g : q = NoJob /\ q \in JobRecords /\ g = InjectInto(EmptyGraph, {Barrier(0, 1, TRUE)})
        BY NoJobFields
  <2>2. NewJob(n) = Rec("running", q.ready, q.phase, n, 1, q.pend, q.inLog, q.logDone,
                        q.finishAt, g)
        BY <2>1, StartFields
  <2>3. ~q.ready
        BY <2>1 DEF NoJob
  <2> QED  BY <1>5, <2>2, <2>3 DEF Rec
<1>23. PICK ck \in BOOLEAN : ck = TRUE
      OBVIOUS
<1>9. /\ b = Barrier(n, n + 1, ck) /\ b \in JobBarriers
  <2>1. b = Barrier(n, n + 1, ck)
        BY <1>2, <1>23 DEF NewBarrier
  <2> QED  BY <2>1, BarrierFields
<1>10. n > Base /\ Base \in Nat /\ Base > 0 /\ dbCommitted < n
      BY <1>2, BaseFacts DEF Inv, EpochInv, DbInv
<1>11. JobCheckpoints(s) = JobCheckpoints(r) \cup Point(ck, n)
  <2>1. r.phase # "finishing" /\ r.snap <= n /\ r.fake < r.snap
        BY <1>7, <1>10
  <2> QED  BY <1>6, <1>7, <1>9, <2>1, ForwardCheckpoints
<1>12. /\ s.ctl = "running" /\ ~s.ready /\ s.phase = "snapshot" /\ s.snap = n
  <2>1. s.ctl = r.ctl /\ s.ready = r.ready /\ s.phase = r.phase /\ s.snap = r.snap
        BY <1>6, <1>7, <1>9, ForwardType
  <2> QED  BY <1>7, <1>8, <2>1
<1>13. JobCheckpoints(r) = {}
  <2>1. \A c \in Held(r) : c.prev = 0
        BY <1>7, FirstBarrierFields DEF Held, Outstanding
  <2> QED  BY <1>7, <1>10, <2>1 DEF JobCheckpoints
<1>14. JobCheckpoints(s) = {n}
      BY <1>11, <1>13, <1>23 DEF Point
<1> QED  BY <1>3, <1>10, <1>12, <1>14 DEF BarrierCreates

LEMMA NewBarrierNewJob ==
  ASSUME Inv, Inv', NEW b, NEW M \in SUBSET Jobs, NEW N \in SUBSET Jobs, NEW D \in SUBSET Jobs,
         NEW P \in SUBSET pendSubs, NEW W, NewBarrier(b, TRUE, M, N, D, P, W),
         NEW nb, nb.prev = nextEpoch, nb.ckpt, DbPending' = DbPending \cup {nb},
         NEW j \in N
  PROVE  JobLogged(j)' /\ catalog'[j] = "initial"
<1>1. /\ task' = task /\ dbCommitted' = dbCommitted /\ jobCommitted' = jobCommitted
      /\ catalog[j] = "none" /\ catalog'[j] = "initial" /\ j \in Jobs
      BY DEF NewBarrier
<1>2. PICK n \in Nat : n = nextEpoch
      BY DEF Inv, CCInv, TypeInv
<1>5. PICK s : s = job'[j]
      OBVIOUS
<1>3. /\ jobCommitted[j] = None /\ (\A p \in task.jobs : p[1] # j) /\ dbCommitted < n
      /\ s.ctl = "running" /\ ~s.ready /\ s.phase = "snapshot" /\ s.snap = n
      /\ JobCheckpoints(s) = {n}
  <2>1. BarrierCreates(j, s, n)
        BY <1>2, <1>5, NewBarrierNewRecord
  <2> QED  BY <2>1 DEF BarrierCreates
<1>15. n \in DbCheckpoints' /\ \A e \in DbCheckpoints' : e \in Nat /\ e <= n
  <2>1. \A c \in DbPending : c.prev \in Nat /\ c.prev < n
        BY <1>2, TypeFacts DEF Inv, CCInv, EpochInv, DbInv
  <2> QED  BY <1>2, <2>1 DEF DbCheckpoints
<1>16. CommitEpochs' = CommitEpochs /\ \A e \in CommitEpochs : e \in Nat /\ e < n
  <2>1. task.step = "commit" => \A c \in task.db : c.prev \in Nat /\ c.prev < n
        BY <1>2, TypeFacts DEF Inv, CCInv, EpochInv, TaskInv
  <2> QED  BY <1>1, <2>1 DEF CommitEpochs
<1>17. TakenBy(j)' = {} /\ Begun(jobCommitted'[j], s.snap) = n
  <2>1. TakenBy(j)' = {}
        BY <1>1, <1>3 DEF TakenBy
  <2> QED  BY <1>1, <1>3, <1>3, <2>1 DEF Begun, None
<1>18. Logged({n}, n, n, {}, LogCheckpoints', dbCommitted', CommitEpochs', DbCheckpoints')
  <2>1. dbCommitted \in Nat
        BY DEF Inv, CCInv, TypeInv
  <2> QED  BY <1>1, <1>3, <1>15, <2>1 DEF Logged
<1>19. Follows({n}, n, {}, {dbCommitted'} \cup CommitEpochs' \cup DbCheckpoints',
               s.phase = "finishing", s.finishAt)
  <2>1. \A e \in {dbCommitted'} \cup CommitEpochs' \cup DbCheckpoints' : ~(e > n)
    <3>1. dbCommitted \in Nat
          BY DEF Inv, CCInv, TypeInv
    <3> QED  BY <1>1, <1>3, <1>15, <1>16, <3>1
  <2> QED  BY <2>1 DEF Follows
<1>20. Attended(j)'
  <2>1. jobCommitted'[j] < n
        BY <1>1, <1>3 DEF None
  <2>2. \A e \in CommitEpochs' : e < n
        BY <1>16
  <2> QED  BY <1>1, <1>3, <1>5, <2>1, <2>2 DEF Attended
<1>21. JobCheckpoints(job'[j]) = {n} /\ job'[j].snap = n
      BY <1>5, <1>3, <1>3
<1>22. Begun(jobCommitted'[j], job'[j].snap) = n
      BY <1>5, <1>17
<1> QED  BY <1>1, <1>5, <1>17, <1>18, <1>19, <1>20, <1>21, <1>22 DEF JobLogged

\* A job without a control, or one that is reset, does not follow the barrier.
LEMMA NewBarrierOther ==
  ASSUME Inv, NEW ck, NEW b, NEW M, NEW N, NEW D, NEW P, NEW W,
         NewBarrier(b, ck, M, N, D, P, W), NEW j \in Jobs, j \notin N, ~Running(j)
  PROVE  ~Running(j)'
<1>1. PICK r, s, mu : r = job[j] /\ s = job'[j] /\ mu = (j \in W)
      OBVIOUS
<1>2. r.ctl # "running"
      BY <1>1 DEF Running
<1>3. j \notin M
      BY <1>1, <1>2 DEF NewBarrier, IsReadyToMerge
<1>4. s = Forward(r, b, mu)
      BY <1>1, <1>3, Zenon DEF NewBarrier, JobsFollow
<1>5. s = r
      BY <1>2, <1>4, Zenon DEF Forward
<1> QED  BY <1>1, <1>2, <1>5 DEF Running

LEMMA NewBarrierLogged ==
  ASSUME Inv, Inv', LogInv, LogShape', BarrierInjected
  PROVE  LogInv'
<1>1. PICK ck \in BOOLEAN, M \in SUBSET Jobs, N \in SUBSET Jobs, D \in SUBSET Jobs,
           P \in SUBSET pendSubs : (N # {} => ck = TRUE) /\ \E b, W : NewBarrier(b, ck, M, N, D, P, W)
      BY Zenon DEF BarrierInjected
<1>2. PICK b, W : NewBarrier(b, ck, M, N, D, P, W)
      BY <1>1
<1>3. /\ up' = up /\ task' = task /\ dbCommitted' = dbCommitted /\ jobCommitted' = jobCommitted
      /\ log' = log /\ catSnap' = catSnap /\ truncInfo' = truncInfo
      /\ dbJobs' = (dbJobs \cup M) \ D /\ \A i \in D : catalog[i] = "dropped"
      /\ \A i \in Jobs : catalog'[i] = IF i \in N THEN "initial" ELSE catalog[i]
      /\ InjectDb(ck, TableIdsToCommit(M))
      BY <1>2 DEF NewBarrier
<1>4. PICK nb : /\ nb.prev = nextEpoch /\ nb.ckpt = ck /\ nb.tabs = dbJobs \cup M
                /\ Len(nb.eps) > 0 /\ nb.eps[Len(nb.eps)] = nb.prev
                /\ DbPending' = DbPending \cup {nb}
      BY <1>3, InjectedBarrier DEF TableIdsToCommit
<1>5. ASSUME NEW j \in Jobs PROVE JobState(j)'
  <2>1. CASE j \in N
    <3>1. ck = TRUE
          BY <1>1, <2>1
    <3>2. JobLogged(j)' /\ catalog'[j] = "initial"
      <4>1. NewBarrier(b, TRUE, M, N, D, P, W)
            BY <1>2, <3>1
      <4>2. nb.prev = nextEpoch /\ nb.ckpt /\ DbPending' = DbPending \cup {nb}
            BY <1>4, <3>1
      <4> QED  BY <2>1, <4>1, <4>2, NewBarrierNewJob
    <3> QED  BY <3>2 DEF JobState
  <2>2. CASE j \notin N /\ Running(j)
    <3>1. JobLogged(j)' /\ Running(j)'
          BY <1>2, <1>4, <2>2, NewBarrierJob
    <3>2. catalog'[j] = "creating" => Found(j)'
      <4>1. catalog'[j] = catalog[j] /\ LogCheckpoints' = LogCheckpoints
            BY <1>3, <2>2 DEF LogCheckpoints
      <4> QED  BY <1>3, <4>1 DEF LogInv, JobState, Found
    <3> QED  BY <3>1, <3>2 DEF JobState
  <2>3. CASE j \notin N /\ ~Running(j)
    <3>1. catalog'[j] = catalog[j] /\ LogCheckpoints' = LogCheckpoints
          BY <1>3, <2>3 DEF LogCheckpoints
    <3>2. ~Running(j)'
          BY <1>2, <2>3, NewBarrierOther
    <3>3. catalog'[j] = "creating" => Found(j)'
          BY <1>3, <3>1 DEF LogInv, JobState, Found
    <3>4. up' /\ catalog'[j] = "creating" => InDatabase(j)'
          BY <1>3, <1>4, <2>3, <3>1 DEF LogInv, JobState, InDatabase
    <3> QED  BY <3>2, <3>3, <3>4 DEF JobState
  <2> QED  BY <2>1, <2>2, <2>3
<1> QED  BY <1>5 DEF LogInv

\* The jobs the database waits for are those that have merged and still run.
WaitedFor ==
  \A w \in finWait :
    Running(w[2]) /\ job[w[2]].phase = "finishing" /\ job[w[2]].finishAt = w[1]

\* A job after start_completing keeps all but what is taken.
LEMMA StartedJob ==
  ASSUME Inv, NEW more \in SUBSET Jobs, StartTask(more), NEW j \in Jobs, j \notin FinishingNow,
         NEW r, r = job[j], NEW s, s = job'[j]
  PROVE  /\ s.ctl = r.ctl /\ s.ready = r.ready /\ s.phase = r.phase /\ s.snap = r.snap
         /\ s.finishAt = r.finishAt /\ s.pend = r.pend
         /\ \A x \in Outstanding(s) : x \in Outstanding(r)
         /\ \A x \in Outstanding(r) : x.ckpt =>
              x \in Outstanding(s) \/ (j \in ReadyJobs /\ x \in CheckpointOf(JobPopped(j)))
<1>1. CASE j \in ReadyJobs
  <2>1. PICK h : h = StartCompletingGraph(r.graph, JobBound(j))
        OBVIOUS
  <2>2. s = [r EXCEPT !.graph = h]
        BY <1>1, <2>1, Zenon DEF StartTask
  <2>3. r \in JobRecords
        BY DEF Inv, CCInv, TypeInv
  <2>4. s.ready = r.ready
        BY <2>2, <2>3 DEF JobRecords
  <2>5. PICK C : C = CheckpointOf(JobPopped(j))
        OBVIOUS
  <2>6. s = [job[j] EXCEPT !.graph = StartCompletingGraph(@, JobBound(j))]
        BY <2>1, <2>2, Zenon
  <2>7. TakenFrom(job[j], s, C, over[j])
        BY <1>1, <2>5, <2>6, JobCompletes
  <2>8. TakenFrom(r, s, C, over[j])
        BY <2>7
  <2>9. Suffix(r, s) /\ s.ctl = r.ctl
        /\ \A x \in Outstanding(r) : x.ckpt => x \in Outstanding(s) \/ x \in C
        BY <2>8 DEF TakenFrom
  <2> QED  BY <1>1, <2>4, <2>5, <2>9 DEF Suffix
<1>2. CASE j \notin ReadyJobs
  <2>1. s = r
        BY <1>2, Zenon DEF StartTask
  <2> QED  BY <2>1
<1> QED  BY <1>1, <1>2

\* What a ready job's graph gives up is its oldest checkpoint.
LEMMA JobPoppedIs ==
  ASSUME Inv, NEW j \in ReadyJobs
  PROVE  /\ j \in Jobs /\ Running(j) /\ job[j].ready /\ JobBound(j) \in Int
         /\ \A b \in CheckpointOf(JobPopped(j)) :
              /\ b.ckpt /\ b \in Outstanding(job[j]) /\ b.prev \in Nat /\ b.prev < JobBound(j)
              /\ \A x \in Outstanding(job[j]) : x.ckpt => b.prev <= x.prev
<1>1. TypeInv /\ j \in Jobs /\ Running(j) /\ job[j].ready
      BY DEF Inv, CCInv, ReadyJobs
<1>2. PICK r : r = job[j]
      OBVIOUS
<1>3. r \in JobRecords /\ JobOk(r, nextEpoch)
      BY <1>1, <1>2, RunningFacts
<1>4. PICK bound \in Int : bound = JobBound(j)
      BY <1>1, JobBoundIsInt
<1>5. PICK P : P = PoppedFrom(r.graph, bound)
      OBVIOUS
<1>6. \A x \in Outstanding(r) : x.prev \in Nat
      BY <1>3, RecordFacts
<1>7. /\ P \subseteq r.graph.collected
      /\ \A b \in P : b.prev < bound
      /\ \A b \in r.graph.collected : b.ckpt /\ b.prev < bound => \A c \in P : c.prev <= b.prev
      BY <1>5, <1>6, PoppedIsPrefix DEF Outstanding
<1>8. \A b \in r.graph.collected, c \in r.graph.inflight : b.prev < c.prev
      BY <1>3 DEF JobOk, JobOrder, GraphOrder
<1>9. ASSUME NEW b \in CheckpointOf(P)
      PROVE  /\ b.ckpt /\ b \in Outstanding(r) /\ b.prev \in Nat /\ b.prev < bound
             /\ \A x \in Outstanding(r) : x.ckpt => b.prev <= x.prev
  <2>1. b \in P /\ b.ckpt /\ b \in r.graph.collected /\ b \in Outstanding(r) /\ b.prev \in Nat
        BY <1>6, <1>7 DEF CheckpointOf, Outstanding
  <2>2. ASSUME NEW x \in Outstanding(r), x.ckpt PROVE b.prev <= x.prev
    <3>1. CASE x \in r.graph.inflight
          BY <1>6, <1>8, <2>1, <3>1
    <3>2. CASE x \in r.graph.collected /\ x.prev < bound
          BY <1>7, <2>1, <2>2, <3>2
    <3>3. CASE x \in r.graph.collected /\ ~(x.prev < bound)
          BY <1>6, <1>7, <2>1, <3>3
    <3> QED  BY <3>1, <3>2, <3>3 DEF Outstanding
  <2> QED  BY <1>7, <2>1, <2>2
<1>10. CheckpointOf(JobPopped(j)) = CheckpointOf(P)
      BY <1>2, <1>4, <1>5 DEF JobPopped
<1> QED  BY <1>1, <1>2, <1>4, <1>9, <1>10

\* The checkpoints of a job are what it keeps and what the task takes.
LEMMA StartedCheckpoints ==
  ASSUME Inv, NEW more \in SUBSET Jobs, StartTask(more), NEW j \in Jobs, j \notin FinishingNow,
         Running(j), NEW r, r = job[j], NEW s, s = job'[j],
         NEW Y, Y = {e \in Nat : <<j, e>> \in TakenEpochs /\ e >= r.snap}
  PROVE  JobCheckpoints(r) = JobCheckpoints(s) \cup Y
<1>1. /\ s.snap = r.snap /\ s.pend = r.pend
      /\ \A x \in Outstanding(s) : x \in Outstanding(r)
      /\ \A x \in Outstanding(r) : x.ckpt =>
           x \in Outstanding(s) \/ (j \in ReadyJobs /\ x \in CheckpointOf(JobPopped(j)))
      BY StartedJob
<1>2. ASSUME NEW e \in JobCheckpoints(r) PROVE e \in JobCheckpoints(s) \cup Y
  <2>1. PICK x \in Held(r) : x.ckpt /\ x.prev >= r.snap /\ e = x.prev
        BY <1>2 DEF JobCheckpoints
  <2>2. CASE x \in Held(s)
        BY <1>1, <2>1, <2>2 DEF JobCheckpoints
  <2>3. CASE x \notin Held(s)
    <3>1. j \in ReadyJobs /\ x \in CheckpointOf(JobPopped(j))
          BY <1>1, <2>1, <2>3 DEF Held
    <3>2. <<j, e>> \in TakenEpochs
          BY <2>1, <3>1, TakenIs
    <3>3. e \in Nat
          BY <2>1, JobEpochs
    <3> QED  BY <2>1, <3>2, <3>3
  <2> QED  BY <2>2, <2>3
<1>3. ASSUME NEW e \in JobCheckpoints(s) PROVE e \in JobCheckpoints(r)
  <2>1. PICK x \in Held(s) : x.ckpt /\ x.prev >= r.snap /\ e = x.prev
        BY <1>1, <1>3 DEF JobCheckpoints
  <2>2. x \in Held(r)
        BY <1>1 DEF Held
  <2> QED  BY <2>1, <2>2 DEF JobCheckpoints
<1>4. ASSUME NEW e \in Y PROVE e \in JobCheckpoints(r)
  <2>1. <<j, e>> \in TakenEpochs /\ e >= r.snap
        BY <1>4
  <2>2. PICK i \in ReadyJobs \ FinishingNow :
          \E b \in CheckpointOf(JobPopped(i)) : <<j, e>> = <<i, b.prev>>
        BY <2>1, TakenIs
  <2>3. PICK b \in CheckpointOf(JobPopped(i)) : j = i /\ e = b.prev
        BY <2>2
  <2>4. b.ckpt /\ b \in Outstanding(r)
        BY <2>2, <2>3, JobPoppedIs
  <2> QED  BY <2>1, <2>3, <2>4 DEF JobCheckpoints, Held
<1> QED  BY <1>2, <1>3, <1>4

\* A job takes no checkpoint that is later than one the database has to take.
LEMMA PopsInOrder ==
  ASSUME Inv, LogInv, task = NoTask, NEW j \in ReadyJobs, NEW c \in CheckpointOf(JobPopped(j)),
         NEW f \in DbPending, f.ckpt
  PROVE  c.prev <= f.prev
<1>1. /\ j \in Jobs /\ Running(j) /\ job[j].ready
      /\ c.ckpt /\ c \in Outstanding(job[j]) /\ c.prev \in Nat
      /\ \A x \in Outstanding(job[j]) : x.ckpt => c.prev <= x.prev
      BY JobPoppedIs
<1>2. SUFFICES ASSUME ~(c.prev <= f.prev) PROVE FALSE
      OBVIOUS
<1>3. PICK r, g : r = job[j] /\ g = Begun(jobCommitted[j], r.snap)
      OBVIOUS
<1>4. r.snap \in Nat /\ g \in Nat /\ r \in JobRecords
      BY <1>1, <1>3, JobEpochs
<1>5. JobLogged(j)
      BY <1>1 DEF LogInv, JobState
<1>6. f.prev \in DbCheckpoints /\ f.prev \in Nat /\ dbCommitted \in Nat /\ dbCommitted < f.prev
  <2>1. f.prev \in DbCheckpoints
        BY DEF DbCheckpoints
  <2> QED  BY <2>1, CheckpointOrder
<1>7. dbCommitted >= r.snap
      BY <1>1, <1>3, <1>4, <1>5, <1>6 DEF JobLogged, Attended
<1>8. g <= dbCommitted
  <2>1. g \in LogCheckpoints
        BY <1>3, <1>5, <1>7 DEF JobLogged, Logged
  <2> QED  BY <2>1, CheckpointOrder
<1>9. TakenBy(j) = {}
      BY NoTaskFields DEF TakenBy
<1>10. r.phase = "finishing" => f.prev <= r.finishAt
  <2>1. JobOk(r, nextEpoch) /\ r.finishAt \in Nat
        BY <1>1, <1>3, RunningFacts DEF JobRecords
  <2>2. r.phase = "finishing" => c.prev <= r.finishAt
        BY <1>1, <1>3, <2>1 DEF JobOk, JobOrder
  <2> QED  BY <1>1, <1>2, <1>6, <2>1, <2>2
<1>11. f.prev \in JobCheckpoints(r)
  <2>1. Follows(JobCheckpoints(r), g, TakenBy(j), {dbCommitted} \cup CommitEpochs \cup DbCheckpoints,
                r.phase = "finishing", r.finishAt)
        BY <1>3, <1>5 DEF JobLogged
  <2>2. f.prev > g
        BY <1>4, <1>6, <1>8
  <2> QED  BY <1>6, <1>9, <1>10, <2>1, <2>2 DEF Follows
<1>12. PICK x \in Held(r) : x.ckpt /\ x.prev = f.prev
      BY <1>11 DEF JobCheckpoints
<1>13. CASE x \in Outstanding(r)
      BY <1>1, <1>2, <1>3, <1>12, <1>13
<1>14. CASE \E i \in 1 .. Len(r.pend) : x = r.pend[i]
  <2>1. JobOk(r, nextEpoch)
        BY <1>1, <1>3, RunningFacts
  <2>2. c.prev < x.prev
        BY <1>1, <1>3, <1>14, <2>1 DEF JobOk, JobOrder
  <2> QED  BY <1>1, <1>2, <1>6, <1>12, <2>2
<1> QED  BY <1>12, <1>13, <1>14 DEF Held

\* The database waits below an epoch it waits for.
LEMMA DbBoundIs ==
  ASSUME TypeInv
  PROVE  DbBound = Unbounded \/ \E w \in FinWaitAfter : DbBound = w[1]
<1>1. CASE FinWaitAfter = {}
      BY <1>1 DEF DbBound
<1>2. CASE FinWaitAfter # {}
  <2>1. PICK S : S = {w[1] : w \in FinWaitAfter}
        OBVIOUS
  <2>2. FinWaitAfter \subseteq Nat \X Jobs
        BY DEF TypeInv, FinWaitAfter
  <2>3. S \in SUBSET Nat /\ S # {}
        BY <1>2, <2>1, <2>2
  <2>4. Min(S) \in S
        BY <2>3, MinIsLeast
  <2>5. DbBound = Min(S)
        BY <1>2, <2>1 DEF DbBound
  <2> QED  BY <2>1, <2>4, <2>5
<1> QED  BY <1>1, <1>2

\* The only job takes a checkpoint the database still has: it takes it, too.
LEMMA TakenTogether ==
  ASSUME \A i, k \in Jobs : i = k, Inv, LogInv, WaitedFor, task = NoTask,
         NEW j \in ReadyJobs, j \notin FinishingNow, NEW c \in CheckpointOf(JobPopped(j)),
         NEW x \in DbPending, x.ckpt, x.prev = c.prev
  PROVE  x \in CheckpointOf(DbPopped)
<1>1. /\ j \in Jobs /\ Running(j) /\ JobBound(j) \in Int
      /\ c.ckpt /\ c \in Outstanding(job[j]) /\ c.prev \in Nat /\ c.prev < JobBound(j)
      BY JobPoppedIs
<1>2. TypeInv /\ DbInv
      BY DEF Inv, CCInv, EpochInv
<1>3. PICK r : r = job[j] /\ r \in JobRecords /\ r.finishAt \in Nat /\ JobOk(r, nextEpoch)
      BY <1>1, RunningFacts DEF JobRecords
<1>4. r.phase = "finishing" => c.prev < r.finishAt
  <2>1. r.phase = "finishing" => c.prev <= r.finishAt
        BY <1>1, <1>3 DEF JobOk, JobOrder
  <2>2. r.phase = "finishing" => c.prev # r.finishAt
        BY <1>3 DEF FinishingNow
  <2> QED  BY <1>1, <1>3, <2>1, <2>2
<1>5. \A y \in DbPending : y.prev \in Nat
      BY <1>2, TypeFacts
<1>6. x \in db.collected
  <2>1. ASSUME x \in db.inflight PROVE FALSE
    <3>1. FirstOf(db.inflight).prev <= x.prev /\ FirstOf(db.inflight) \in db.inflight
          BY <1>5, <2>1, FirstOfIsLeast DEF DbPending
    <3>2. PICK u : u = FirstInflight(db) /\ u = FirstOf(db.inflight).prev /\ u \in Nat
          BY <1>5, <2>1, <3>1 DEF FirstInflight, DbPending
    <3>3. u <= c.prev
          BY <3>1, <3>2
    <3>4. CASE r.phase = "finishing" /\ u >= r.finishAt
          BY <1>1, <1>3, <1>4, <3>2, <3>3, <3>4
    <3>5. CASE ~(r.phase = "finishing" /\ u >= r.finishAt)
      <4>1. JobBound(j) = u
            BY <1>3, <3>2, <3>5 DEF JobBound
      <4> QED  BY <1>1, <3>2, <3>3, <4>1
    <3> QED  BY <3>4, <3>5
  <2> QED  BY <2>1 DEF DbPending
<1>7. DbBound \in Int /\ x.prev < DbBound
  <2>1. DbBound \in Int
        BY <1>2, DbBoundWaits
  <2>2. CASE DbBound = Unbounded
    <3>1. x.prev < nextEpoch /\ nextEpoch <= Base + MaxEpoch /\ nextEpoch \in Nat
          BY <1>2 DEF DbInv, TypeInv
    <3> QED  BY <1>1, <2>1, <2>2, <3>1, CCAssumption DEF Base, Unbounded
  <2>3. CASE \E w \in FinWaitAfter : DbBound = w[1]
    <3>1. PICK w \in FinWaitAfter : DbBound = w[1]
          BY <2>3
    <3>2. w \in finWait /\ w[2] \in Jobs
          BY <1>2, <3>1 DEF FinWaitAfter, TypeInv
    <3>3. w[2] = j
          BY <1>1, <3>2
    <3>4. r.phase = "finishing" /\ r.finishAt = w[1]
          BY <1>3, <3>2, <3>3 DEF WaitedFor
    <3> QED  BY <1>4, <2>1, <3>1, <3>4
  <2> QED  BY <1>2, <2>1, <2>2, <2>3, DbBoundIs
<1>8. PICK P : P = PoppedFrom(db, DbBound)
      OBVIOUS
<1>9. /\ P \subseteq db.collected
      /\ \A a \in P, b \in db.collected : b.prev <= a.prev => b \in P
      /\ \A b \in db.collected : b.ckpt /\ b.prev < DbBound => CheckpointOf(P) # {}
      BY <1>5, <1>7, <1>8, PoppedIsPrefix DEF DbPending
<1>10. PICK f \in CheckpointOf(P) : TRUE
      BY <1>6, <1>7, <1>9
<1>11. f \in P /\ f.ckpt /\ f \in DbPending
      BY <1>9, <1>10 DEF CheckpointOf, DbPending
<1>12. c.prev <= f.prev
      BY <1>11, PopsInOrder
<1>13. x \in P
      BY <1>6, <1>9, <1>11, <1>12
<1> QED  BY <1>8, <1>13 DEF CheckpointOf, DbPopped

\* The last barrier of a finishing job is taken: every checkpoint the database has
\* yet to take carries the job's tables.
LEMMA FinishedInDatabase ==
  ASSUME Inv, LogInv, task = NoTask, NEW j \in FinishingNow, catalog[j] # "dropped"
  PROVE  j \in dbJobs /\ \A b \in DbPending : b.ckpt => j \in b.tabs
<1>1. j \in ReadyJobs /\ job[j].phase = "finishing"
      BY DEF FinishingNow
<1>2. PICK c \in CheckpointOf(JobPopped(j)) : c.prev = job[j].finishAt
      BY DEF FinishingNow
<1>3. j \in Jobs /\ Running(j) /\ c.prev \in Nat
      BY <1>1, <1>2, JobPoppedIs
<1>4. /\ j \in dbJobs /\ \A b \in DbPending : b.prev >= job[j].finishAt => j \in b.tabs
      BY <1>1, <1>3 DEF LogInv, JobState, JobLogged, Attended
<1>5. ASSUME NEW b \in DbPending, b.ckpt PROVE j \in b.tabs
  <2>1. c.prev <= b.prev
        BY <1>1, <1>2, <1>5, PopsInOrder
  <2>2. b.prev \in Nat
        BY TypeFacts DEF Inv, CCInv
  <2> QED  BY <1>2, <1>3, <1>4, <2>1, <2>2
<1> QED  BY <1>4, <1>5

\* What the task is given.
LEMMA StartedTask ==
  ASSUME Inv, NEW more \in SUBSET Jobs, StartTask(more), NEW C, C = CheckpointOf(DbPopped)
  PROVE  /\ task = NoTask /\ up
         /\ task'.step \in {"none", "commit"} /\ task'.db = C /\ task'.jobs = TakenEpochs
         /\ CommitEpochs' = {b.prev : b \in C}
         /\ task'.step = "none" => TakenEpochs = {}
         /\ \A j \in Jobs : Running(j) /\ j \notin FinishingNow /\ ~task'.log => task'.step = "none"
<1>1. task = NoTask /\ up
      BY DEF StartTask, PollEnabled
<1>2. CASE C = {} /\ TakenEpochs = {}
  <2>1. task' = NoTask
        BY <1>2 DEF StartTask
  <2> QED  BY <1>1, <1>2, <2>1, NoTaskFields DEF CommitEpochs
<1>3. CASE ~(C = {} /\ TakenEpochs = {})
  <2>1. PICK x, y : /\ x = {w[2] : w \in FinishedNow} \cup more
                    /\ y = (subs # {} \/ {j \in Jobs : job[j].ctl # "none"} \ FinishingNow # {})
        OBVIOUS
  <2>2. task' = [step |-> "commit", db |-> C, jobs |-> TakenEpochs, fin |-> x, log |-> y]
        BY <1>3, <2>1, Zenon DEF StartTask
  <2>3. /\ task'.step = "commit" /\ task'.db = C /\ task'.jobs = TakenEpochs /\ task'.log = y
        BY <2>2
  <2>4. \A j \in Jobs : Running(j) /\ j \notin FinishingNow => y
        BY <2>1 DEF Running
  <2> QED  BY <1>1, <2>3, <2>4 DEF CommitEpochs
<1> QED  BY <1>2, <1>3

\* A merged job keeps its phase until the task takes its last barrier.
MergedStay ==
  \A j \in Jobs : Running(j) /\ job[j].phase = "finishing" =>
    job'[j].ctl = "running" /\ job'[j].phase = "finishing" /\ job'[j].finishAt = job[j].finishAt

LEMMA MergedWaited ==
  ASSUME Inv, WaitedFor, MergedStay, finWait' = finWait
  PROVE  WaitedFor'
<1>1. finWait \subseteq Nat \X Jobs
      BY DEF Inv, CCInv, TypeInv
<1> SUFFICES ASSUME NEW w \in finWait
             PROVE  job'[w[2]].ctl = "running" /\ job'[w[2]].phase = "finishing"
                    /\ job'[w[2]].finishAt = w[1]
    BY DEF WaitedFor, Running
<1>2. w[2] \in Jobs
      BY <1>1
<1>3. Running(w[2]) /\ job[w[2]].phase = "finishing" /\ job[w[2]].finishAt = w[1]
      BY DEF WaitedFor
<1> QED  BY <1>2, <1>3 DEF MergedStay

LEMMA BarrierWaited ==
  ASSUME Inv, WaitedFor, BarrierInjected
  PROVE  WaitedFor'
<1>1. PICK ck \in BOOLEAN, M \in SUBSET Jobs, N \in SUBSET Jobs, D \in SUBSET Jobs,
           P \in SUBSET pendSubs : \E b, W : NewBarrier(b, ck, M, N, D, P, W)
      BY Zenon DEF BarrierInjected
<1>2. PICK b, W : NewBarrier(b, ck, M, N, D, P, W)
      BY <1>1
<1>3. PICK n \in Nat : n = nextEpoch
      BY DEF Inv, CCInv, TypeInv
<1>4. /\ finWait' = finWait \cup {<<nextEpoch, j>> : j \in M}
      /\ \A i \in M : IsReadyToMerge(job[i])
      /\ \A i \in N : catalog[i] = "none"
      BY <1>2 DEF NewBarrier
<1>5. ASSUME NEW j \in Jobs, Running(j), job[j].phase = "finishing" PROVE job'[j] = job[j]
  <2>1. PICK r, s : r = job[j] /\ s = job'[j] /\ r.phase = "finishing"
        BY <1>5
  <2>2. j \notin M
        BY <1>4, <1>5 DEF IsReadyToMerge
  <2>3. j \notin N
        BY <1>4, <1>5 DEF Inv, CCInv, CatalogInv, Running
  <2>6. PICK mu : mu = (j \in W)
        OBVIOUS
  <2>4. s = Forward(r, b, mu)
        BY <1>2, <2>1, <2>2, <2>3, <2>6, Zenon DEF NewBarrier, JobsFollow
  <2>5. s = r
        BY <2>1, <2>4, Zenon DEF Forward
  <2> QED  BY <2>1, <2>5
<1>6. ASSUME NEW j \in M
      PROVE  job'[j].ctl = "running" /\ job'[j].phase = "finishing" /\ job'[j].finishAt = n
  <2>1. PICK r, s : r = job[j] /\ s = job'[j]
        OBVIOUS
  <2>2. r.ctl = "running" /\ r.phase = "log" /\ r.pend = <<>> /\ j \in Jobs /\ Running(j)
        BY <1>4, <2>1 DEF IsReadyToMerge, Running
  <2>3. /\ r \in JobRecords /\ FiniteGraph(r.graph) /\ JobRoom(r, over[j]) /\ JobOk(r, n)
        BY <1>3, <2>1, <2>2, RunningFacts
  <2>4. s = StartConsumeUpstream(r, b)
        BY <1>2, <2>1, <2>2, Zenon DEF NewBarrier, JobsFollow
  <2>5. n > Base /\ b = Barrier(n, n + 1, ck)
        BY <1>2, <1>3 DEF Inv, EpochInv, DbInv, NewBarrier
  <2>6. Followed(r, s, n, over[j]) /\ s.phase = "finishing" /\ s.finishAt = n
        BY <2>2, <2>3, <2>4, <2>5, MergeFollows
  <2> QED  BY <2>1, <2>2, <2>6 DEF Followed
<1>7. ASSUME NEW w \in finWait'
      PROVE  /\ job'[w[2]].ctl = "running" /\ job'[w[2]].phase = "finishing"
             /\ job'[w[2]].finishAt = w[1]
  <2>1. CASE w \in finWait
    <3>1. w[2] \in Jobs
      <4>1. finWait \subseteq Nat \X Jobs
            BY DEF Inv, CCInv, TypeInv
      <4> QED  BY <2>1, <4>1
    <3>2. Running(w[2]) /\ job[w[2]].phase = "finishing" /\ job[w[2]].finishAt = w[1]
          BY <2>1 DEF WaitedFor
    <3> QED  BY <1>5, <3>1, <3>2 DEF Running
  <2>2. CASE \E j \in M : w = <<nextEpoch, j>>
        BY <1>3, <1>6, <2>2
  <2> QED  BY <1>4, <1>7, <2>1, <2>2
<1> QED  BY <1>7 DEF WaitedFor, Running

LEMMA WaitedNext == Inv /\ Inv' /\ WaitedFor /\ [Next]_vars => WaitedFor'
<1> SUFFICES ASSUME Inv, Inv', WaitedFor, [Next]_vars PROVE WaitedFor'
    OBVIOUS
<1>1. ASSUME job' = job, finWait' = finWait PROVE WaitedFor'
  <2>1. MergedStay
        BY <1>1 DEF MergedStay, Running
  <2> QED  BY <1>1, <2>1, MergedWaited
<1>2. CASE UNCHANGED vars
      BY <1>1, <1>2 DEF vars, memory
<1>3. ASSUME NEW ck \in BOOLEAN, PeriodicBarrier(ck) PROVE WaitedFor'
      BY <1>3, PeriodicInjects, BarrierWaited
<1>12. ASSUME NEW S \in Commands, NEW mutates \in BOOLEAN, OtherCommand(S, mutates)
       PROVE  WaitedFor'
      BY <1>12, OtherCommandInjects, BarrierWaited
<1>4. job \in [Jobs -> JobRecords]
      BY DEF Inv, CCInv, TypeInv
<1>5. ASSUME NEW j \in Jobs,
             \/ CreateJob(j) \/ DropInCatalog(j) \/ DropIndependently(j) \/ JobReset(j)
             \/ DropInDatabase(j) \/ JobCollect(j) \/ JobFinishesNode(j)
             \/ JobFinishesSnapshot(j) \/ JobFinishesLogStore(j)
      PROVE  WaitedFor'
  \* Another record changes than that of a merged job.
  <2>0. ASSUME NEW s, job' = [job EXCEPT ![j] = s], finWait' = finWait,
               Running(j) /\ job[j].phase = "finishing" =>
                 s.ctl = "running" /\ s.phase = "finishing" /\ s.finishAt = job[j].finishAt
        PROVE  WaitedFor'
    <3>1. \A i \in Jobs : job'[i] = IF i = j THEN s ELSE job[i]
          BY <1>4, <2>0
    <3>2. MergedStay
          BY <2>0, <3>1 DEF MergedStay, Running
    <3> QED  BY <2>0, <3>2, MergedWaited
  <2>1. CASE CreateJob(j)
        BY <2>1, CreateJobInjects, BarrierWaited
  <2>2. CASE DropInCatalog(j)
        BY <1>1, <2>2 DEF DropInCatalog
  <2>3. CASE DropIndependently(j)
    <3>1. PICK s : s = DroppedJob(job[j])
          OBVIOUS
    <3>2. job' = [job EXCEPT ![j] = s] /\ finWait' = finWait /\ CanDropIndependently(job[j])
          BY <2>3, <3>1, Zenon DEF DropIndependently
    <3> QED  BY <2>0, <3>2 DEF CanDropIndependently
  <2>4. CASE JobReset(j)
    <3>1. PICK s : s = NoJob
          OBVIOUS
    <3>2. job' = [job EXCEPT ![j] = s] /\ finWait' = finWait /\ job[j].ctl = "resetting"
          BY <2>4, <3>1, Zenon DEF JobReset
    <3> QED  BY <2>0, <3>2 DEF Running
  <2>5. CASE DropInDatabase(j)
        BY <2>5, DropInDatabaseInjects, BarrierWaited
  <2>6. CASE JobCollect(j) \/ JobFinishesNode(j)
    <3>0. PICK b \in job[j].graph.inflight :
            FirstOfJob(j, b) /\ \E S : JobCollects(j, b, job[j], S)
          BY <2>6 DEF JobCollect, JobFinishesNode
    <3>1. PICK S : FirstOfJob(j, b) /\ JobCollects(j, b, job[j], S)
          BY <3>0
    <3>2. PICK q : q = job[j] /\ q.ctl = "running" /\ q \in JobRecords /\ q.graph.inflight # {}
          BY <1>4, <3>1 DEF FirstOfJob, Running
    <3>3. PICK v : v = (b.prev > job[j].snap)
          OBVIOUS
    <3>4. PICK s : s = [q EXCEPT !.graph = CollectFirst(@), !.inLog = @ \/ v]
          OBVIOUS
    <3>5. PICK x : x = (q.inLog \/ v)
          OBVIOUS
    <3>6. s = Rec(q.ctl, q.ready, q.phase, q.snap, q.fake, q.pend, x, q.logDone, q.finishAt,
                  CollectFirst(q.graph))
          BY <3>2, <3>4, <3>5, CollectedFields, Zenon
    <3>7. s.ctl = q.ctl /\ s.phase = q.phase /\ s.finishAt = q.finishAt
      <4>1. PICK g : g = CollectFirst(q.graph)
            OBVIOUS
      <4>2. s = Rec(q.ctl, q.ready, q.phase, q.snap, q.fake, q.pend, x, q.logDone, q.finishAt, g)
            BY <3>6, <4>1, Zenon
      <4> QED  BY <4>2 DEF Rec
    <3>8. job' = [job EXCEPT ![j] = s] /\ finWait' = finWait
          BY <3>1, <3>2, <3>3, <3>4, Zenon DEF JobCollects
    <3> QED  BY <2>0, <3>2, <3>7, <3>8
  <2>7. CASE JobFinishesSnapshot(j)
    <3>1. PICK b, q, S : /\ job[j].phase = "snapshot"
                         /\ JobCollects(j, b, q, S)
          BY <2>7, Zenon DEF JobFinishesSnapshot
    <3>2. PICK s : s = [q EXCEPT !.graph = CollectFirst(@), !.inLog = @ \/ b.prev > job[j].snap]
          OBVIOUS
    <3>3. job' = [job EXCEPT ![j] = s] /\ finWait' = finWait
          BY <3>1, <3>2, Zenon DEF JobCollects
    <3> QED  BY <2>0, <3>1, <3>3
  <2>8. CASE JobFinishesLogStore(j)
    <3>1. PICK b, q, S : /\ job[j].phase = "log"
                         /\ JobCollects(j, b, q, S)
          BY <2>8, Zenon DEF JobFinishesLogStore
    <3>2. PICK s : s = [q EXCEPT !.graph = CollectFirst(@), !.inLog = @ \/ b.prev > job[j].snap]
          OBVIOUS
    <3>3. job' = [job EXCEPT ![j] = s] /\ finWait' = finWait
          BY <3>1, <3>2, Zenon DEF JobCollects
    <3> QED  BY <2>0, <3>1, <3>3
  <2> QED  BY <1>5, <2>1, <2>2, <2>3, <2>4, <2>5, <2>6, <2>7, <2>8
<1>6. CASE DbCollect
      BY <1>1, <1>6 DEF DbCollect
<1>7. ASSUME NEW more \in SUBSET Jobs, StartTask(more) PROVE WaitedFor'
  <2>1. finWait' = FinWaitAfter /\ finWait \subseteq Nat \X Jobs
        BY <1>7 DEF StartTask, Inv, CCInv, TypeInv
  <2>2. ASSUME NEW w \in FinWaitAfter
        PROVE  /\ job'[w[2]].ctl = "running" /\ job'[w[2]].phase = "finishing"
               /\ job'[w[2]].finishAt = w[1]
    <3>1. w \in finWait /\ w[2] \in Jobs /\ w = <<w[1], w[2]>>
          BY <2>1, <2>2 DEF FinWaitAfter
    <3>2. PICK j \in Jobs : j = w[2]
          BY <3>1
    <3>3. Running(j) /\ job[j].phase = "finishing" /\ job[j].finishAt = w[1]
          BY <3>1, <3>2 DEF WaitedFor
    <3>4. j \notin FinishingNow
          BY <2>2, <3>1, <3>2, <3>3 DEF FinWaitAfter
    <3>5. PICK r, s : r = job[j] /\ s = job'[j]
          OBVIOUS
    <3>6. s.ctl = r.ctl /\ s.phase = r.phase /\ s.finishAt = r.finishAt
          BY <1>7, <3>4, <3>5, StartedJob
    <3> QED  BY <3>2, <3>3, <3>5, <3>6 DEF Running
  <2> QED  BY <2>1, <2>2 DEF WaitedFor, Running
<1>8. CASE TaskCommit \/ TaskPostCollect \/ TaskFinishJobs \/ TruncateFetch \/ TruncateApply
      BY <1>1, <1>8 DEF TaskCommit, TaskPostCollect, TaskFinishJobs, TruncateFetch,
                        TruncateApply, memory
<1>9. CASE TaskAck
  <2>1. finWait' = finWait
        BY <1>9 DEF TaskAck
  <2>2. MergedStay
        BY <1>9, AckRecord DEF MergedStay, Running
  <2> QED  BY <2>1, <2>2, MergedWaited
<1>10. CASE Crash \/ TaskFails
      BY <1>10 DEF Crash, TaskFails, LoseMemory, WaitedFor
<1>11. CASE Recover
  <2>1. finWait' = finWait /\ finWait = {}
        BY <1>11 DEF Recover, Inv, CCInv, MemoryInv
  <2> QED  BY <2>1 DEF WaitedFor
<1> QED  BY <1>2, <1>3, <1>5, <1>6, <1>7, <1>8, <1>9, <1>10, <1>11, <1>12 DEF Next

\* The task takes checkpoints of a job: with one job, the database commits them now
\* or has committed them.
LEMMA StartJobLogged ==
  ASSUME \A i, k \in Jobs : i = k, Inv, LogInv, WaitedFor,
         NEW more \in SUBSET Jobs, StartTask(more), NEW j \in Jobs, j \notin FinishingNow, Running(j)
  PROVE  JobLogged(j)' /\ Running(j)'
<1>1. PICK C : C = CheckpointOf(DbPopped)
      OBVIOUS
<1>2. /\ task = NoTask /\ up
      /\ task'.step \in {"none", "commit"} /\ task'.db = C /\ task'.jobs = TakenEpochs
      /\ CommitEpochs' = {b.prev : b \in C}
      /\ task'.step = "none" => TakenEpochs = {}
      /\ ~task'.log => task'.step = "none"
      BY <1>1, StartedTask
<1>3. CommitEpochs = {} /\ TakenBy(j) = {}
      BY <1>2, NoTaskFields DEF CommitEpochs, TakenBy
<1>4. /\ log' = log /\ dbCommitted' = dbCommitted /\ jobCommitted' = jobCommitted
      /\ catalog' = catalog /\ dbJobs' = dbJobs /\ LogCheckpoints' = LogCheckpoints
      BY DEF StartTask, persisted, LogCheckpoints
<1>5. DbPending' = DbPending \ DbPopped
      BY PendingStarts
<1>6. DbCheckpoints = DbCheckpoints' \cup CommitEpochs'
  <2>1. \A x : x \in C <=> x \in DbPopped /\ x.ckpt
        BY <1>1 DEF CheckpointOf
  <2>2. \A x \in DbPopped : x \in DbPending
        BY DbPoppedIs DEF DbPending
  <2>3. \A e : e \in DbCheckpoints <=> \E c \in DbPending : c.ckpt /\ e = c.prev
        BY DEF DbCheckpoints
  <2>4. \A e : e \in DbCheckpoints' <=> \E c \in DbPending \ DbPopped : c.ckpt /\ e = c.prev
        BY <1>5 DEF DbCheckpoints
  <2>5. \A e : e \in CommitEpochs' <=> \E c \in C : e = c.prev
        BY <1>2
  <2> QED  BY <2>1, <2>2, <2>3, <2>4, <2>5
<1>7. PICK r, s : r = job[j] /\ s = job'[j]
      OBVIOUS
<1>8. /\ s.ctl = r.ctl /\ s.ready = r.ready /\ s.phase = r.phase /\ s.snap = r.snap
      /\ s.finishAt = r.finishAt
      BY <1>7, StartedJob
<1>9. PICK K, X, Y, g, A, fin :
        /\ K = JobCheckpoints(r) /\ X = JobCheckpoints(s)
        /\ Y = {e \in Nat : <<j, e>> \in TakenEpochs /\ e >= r.snap}
        /\ g = Begun(jobCommitted[j], r.snap)
        /\ A = {dbCommitted} \cup CommitEpochs \cup DbCheckpoints
        /\ fin = (r.phase = "finishing")
      OBVIOUS
<1>10. K = X \cup Y
      BY <1>7, <1>9, StartedCheckpoints
<1>11. TakenBy(j)' = Y
      BY <1>2, <1>7, <1>8, <1>9 DEF TakenBy
<1>12. JobLogged(j) /\ Attended(j)
      BY DEF LogInv, JobState, JobLogged
<1>13. /\ Logged(K, g, r.snap, {}, LogCheckpoints, dbCommitted, {}, DbCheckpoints)
       /\ Follows(K, g, {}, A, fin, r.finishAt)
      BY <1>3, <1>7, <1>9, <1>12 DEF JobLogged
<1>14. ASSUME NEW e \in Y PROVE e \in LogCheckpoints \cup CommitEpochs'
  <2>1. <<j, e>> \in TakenEpochs /\ e \in Nat
        BY <1>9, <1>14
  <2>2. PICK i \in ReadyJobs \ FinishingNow :
          \E b \in CheckpointOf(JobPopped(i)) : <<j, e>> = <<i, b.prev>>
        BY <2>1, TakenIs
  <2>3. PICK c \in CheckpointOf(JobPopped(i)) : i = j /\ e = c.prev
        BY <2>2
  <2>4. CASE e \in DbCheckpoints
    <3>1. PICK x \in DbPending : x.ckpt /\ x.prev = e
          BY <2>4 DEF DbCheckpoints
    <3>2. j \in ReadyJobs /\ c \in CheckpointOf(JobPopped(j)) /\ x.prev = c.prev
          BY <2>2, <2>3, <3>1
    <3>3. x \in CheckpointOf(DbPopped)
          BY <1>2, <3>1, <3>2, TakenTogether
    <3> QED  BY <1>1, <1>2, <3>1, <3>3
  <2> QED  BY <1>10, <1>13, <2>4 DEF Logged
<1>15. Logged(X, g, r.snap, Y, LogCheckpoints, dbCommitted, CommitEpochs', DbCheckpoints')
  <2>1. X \subseteq LogCheckpoints \cup CommitEpochs' \cup DbCheckpoints'
        BY <1>6, <1>10, <1>13 DEF Logged
  <2>2. Y \subseteq LogCheckpoints \cup CommitEpochs'
        BY <1>14
  <2>3. IF dbCommitted >= r.snap THEN g \in LogCheckpoints ELSE r.snap \in CommitEpochs' \cup DbCheckpoints'
        BY <1>6, <1>13 DEF Logged
  <2> QED  BY <2>1, <2>2, <2>3 DEF Logged
<1>16. {dbCommitted'} \cup CommitEpochs' \cup DbCheckpoints' = A
      BY <1>3, <1>4, <1>6, <1>9
<1>17. Follows(X, g, Y, A, fin, r.finishAt)
  <2> SUFFICES ASSUME NEW e \in A, e > g, \A t \in Y : e > t, fin => e <= r.finishAt
               PROVE  e \in X
      BY DEF Follows
  <2>1. e \in K
        BY <1>13 DEF Follows
  <2>2. e \notin Y
    <3>1. \A y \in Y : y \in Nat
          BY <1>9
    <3>2. \A y \in Y : ~(y > y)
          BY <3>1
    <3> QED  BY <3>2
  <2> QED  BY <1>10, <2>1, <2>2
<1>18. Attended(j)'
  <2>1. /\ dbCommitted < r.snap =>
             ~r.ready /\ catalog[j] # "creating" /\ jobCommitted[j] < r.snap
        /\ r.phase = "finishing" /\ catalog[j] # "dropped" =>
             j \in dbJobs /\ \A c \in DbPending : c.prev >= r.finishAt => j \in c.tabs
        BY <1>7, <1>12 DEF Attended
  <2>2. ~r.ready => \A p \in TakenEpochs : p[1] # j
    <3> SUFFICES ASSUME NEW p \in TakenEpochs, p[1] = j PROVE r.ready
        OBVIOUS
    <3>1. PICK i \in ReadyJobs \ FinishingNow : \E b \in CheckpointOf(JobPopped(i)) : p = <<i, b.prev>>
          BY TakenIs
    <3> QED  BY <1>7, <3>1 DEF ReadyJobs
  <2>3. task'.step = "none" => CommitEpochs' = {}
        BY DEF CommitEpochs
  <2> QED  BY <1>2, <1>4, <1>5, <1>7, <1>8, <2>1, <2>2, <2>3 DEF Attended
<1>19. Running(j)'
      BY <1>7, <1>8 DEF Running
<1>20. /\ X = JobCheckpoints(job'[j]) /\ g = Begun(jobCommitted'[j], job'[j].snap)
       /\ fin = (job'[j].phase = "finishing") /\ job'[j].finishAt = r.finishAt
       /\ job'[j].snap = r.snap
      BY <1>4, <1>7, <1>8, <1>9
<1> QED  BY <1>4, <1>11, <1>15, <1>16, <1>17, <1>18, <1>19, <1>20 DEF JobLogged

LEMMA StartLogged ==
  ASSUME \A i, k \in Jobs : i = k, Inv, LogInv, LogShape', WaitedFor,
         NEW more \in SUBSET Jobs, StartTask(more)
  PROVE  LogInv'
<1>1. PICK C : C = CheckpointOf(DbPopped)
      OBVIOUS
<1>2. /\ task = NoTask /\ up
      /\ task'.step \in {"none", "commit"} /\ task'.db = C /\ task'.jobs = TakenEpochs
      BY <1>1, StartedTask
<1>3. /\ log' = log /\ dbCommitted' = dbCommitted /\ jobCommitted' = jobCommitted
      /\ catalog' = catalog /\ catSnap' = catSnap /\ dbJobs' = dbJobs /\ truncInfo' = truncInfo
      /\ LogCheckpoints' = LogCheckpoints
      BY DEF StartTask, persisted, LogCheckpoints
<1>4. DbPending' \subseteq DbPending
      BY PendingStarts
<1>5. C \subseteq DbPending /\ \A x \in C : x.ckpt
      BY <1>1, DbPoppedIs DEF DbPending, CheckpointOf
<1>7. ASSUME NEW j \in Jobs, NEW p \in TakenEpochs, p[1] = j PROVE Running(j) /\ j \notin FinishingNow
  <2>1. PICK i \in ReadyJobs \ FinishingNow : \E b \in CheckpointOf(JobPopped(i)) : p = <<i, b.prev>>
        BY TakenIs
  <2> QED  BY <1>7, <2>1 DEF ReadyJobs
<1>8. ASSUME NEW j \in Jobs PROVE JobState(j)'
  <2>1. catalog'[j] = "creating" => Found(j)'
        BY <1>3 DEF LogInv, JobState, Found
  <2>2. ASSUME j \notin FinishingNow, Running(j) PROVE JobState(j)'
        BY <2>1, <2>2, StartJobLogged DEF JobState
  <2>3. ASSUME j \in FinishingNow \/ ~Running(j), catalog[j] = "creating" PROVE InDatabase(j)'
    <3>1. j \in dbJobs /\ \A b \in DbPending : b.ckpt => j \in b.tabs
      <4>1. CASE j \in FinishingNow
            BY <1>2, <2>3, <4>1, FinishedInDatabase
      <4>2. CASE ~Running(j)
            BY <1>2, <2>3, <4>2 DEF LogInv, JobState, InDatabase
      <4> QED  BY <2>3, <4>1, <4>2
    <3>2. \A p \in TakenEpochs : p[1] # j
          BY <1>7, <2>3
    <3> QED  BY <1>2, <1>3, <1>4, <1>5, <3>1, <3>2 DEF InDatabase
  <2>4. ASSUME j \in FinishingNow \/ ~Running(j) PROVE ~Running(j)'
    <3>1. CASE j \in FinishingNow
      <4>1. job'[j] = NoJob
            BY <3>1, Zenon DEF StartTask
      <4> QED  BY <4>1, NoJobFields DEF Running
    <3>2. CASE j \notin FinishingNow
      <4>1. PICK r, s : r = job[j] /\ s = job'[j]
            OBVIOUS
      <4>2. s.ctl = r.ctl
            BY <3>2, <4>1, StartedJob
      <4> QED  BY <2>4, <3>2, <4>1, <4>2 DEF Running
    <3> QED  BY <3>1, <3>2
  <2> QED  BY <1>3, <2>1, <2>2, <2>3, <2>4 DEF JobState
<1> QED  BY <1>8 DEF LogInv

\* The log after a commit: it holds the checkpoint too, unless it is dropped.
LEMMA CommitCheckpoints ==
  ASSUME Inv, LogShape, TaskCommit
  PROVE  /\ task.db = {} => /\ CommitEpochs = {} /\ dbCommitted' = dbCommitted /\ log' = log
                            /\ LogCheckpoints' = LogCheckpoints
         /\ task.db # {} => /\ CommitEpochs = {dbCommitted'}
                            /\ \A b \in task.db : b.prev = dbCommitted'
         /\ task.db # {} /\ task.log => LogCheckpoints' = LogCheckpoints \cup CommitEpochs
         /\ task.db # {} /\ ~task.log => LogCheckpoints' = {}
         /\ EndsAtCommitted'
<1>1. /\ task.step = "commit" /\ log' = LogAfterCommit
      /\ dbCommitted' = IF task.db = {} THEN dbCommitted ELSE FirstOf(task.db).prev
      BY DEF TaskCommit
<1>2. TypeInv /\ TaskInv
      BY DEF Inv, CCInv, EpochInv
<1>3. CASE task.db = {}
  <2>1. log' = log /\ dbCommitted' = dbCommitted
        BY <1>1, <1>3 DEF LogAfterCommit
  <2> QED  BY <1>3, <2>1 DEF CommitEpochs, LogCheckpoints, EndsAtCommitted, LogShape
<1>4. ASSUME task.db # {}
      PROVE  /\ CommitEpochs = {dbCommitted'} /\ \A b \in task.db : b.prev = dbCommitted'
  <2>1. \A c \in task.db : c.prev \in Nat
        BY <1>2, TypeFacts
  <2>2. PICK f \in task.db : f = FirstOf(task.db)
        BY <1>4, <2>1, FirstOfIsLeast
  <2>3. \A b \in task.db : b.prev = f.prev
        BY <1>1, <1>2, <2>2 DEF TaskInv
  <2> QED  BY <1>1, <1>4, <2>2, <2>3 DEF CommitEpochs
<1>5. CASE task.db # {} /\ ~task.log
  <2>1. log' = <<>>
        BY <1>1, <1>5 DEF LogAfterCommit
  <2>2. LogCheckpoints' = {}
        BY <2>1 DEF LogCheckpoints
  <2> QED  BY <1>4, <1>5, <2>1, <2>2 DEF EndsAtCommitted
<1>6. CASE task.db # {} /\ task.log
  <2>1. PICK l, f : l = log' /\ f = FirstOf(task.db)
        OBVIOUS
  <2>2. /\ f \in task.db /\ l \in Seq(LogRecords) /\ log \in Seq(LogRecords)
        /\ f.eps \in Seq(Nat) /\ Len(l) = Len(log) + Len(f.eps)
        /\ \A i \in 1 .. Len(log) : l[i] = log[i]
        /\ \A i \in 1 .. Len(f.eps) :
             l[Len(log) + i].epoch = f.eps[i] /\ (l[Len(log) + i].ckpt <=> i = Len(f.eps))
        BY <1>1, <1>2, <1>6, <2>1, CommitLogIs
  <2>3. Len(f.eps) > 0 /\ f.eps[Len(f.eps)] = f.prev /\ f.prev = dbCommitted'
        BY <1>4, <1>6, <2>2 DEF LogShape, EpochsEndAtBarrier
  <2>4. PICK m \in Nat, q \in Nat : m = Len(log) /\ q = Len(f.eps) /\ Len(l) = m + q
    <3>1. Len(log) \in Nat /\ Len(f.eps) \in Nat
          BY <2>2
    <3> QED  BY <2>2, <3>1, Zenon
  <2>5. /\ \A i \in 1 .. m : l[i] = log[i]
        /\ \A i \in 1 .. q : l[m + i].epoch = f.eps[i] /\ (l[m + i].ckpt <=> i = q)
        BY <2>2, <2>4
  <2>6. q \in 1 .. q /\ m + q \in 1 .. m + q
        BY <2>3, <2>4
  <2>7. l[m + q].epoch = dbCommitted' /\ l[m + q].ckpt
        BY <2>3, <2>4, <2>5, <2>6
  <2>8. EndsAtCommitted'
        BY <2>1, <2>4, <2>7 DEF EndsAtCommitted
  <2>9. ASSUME NEW e \in LogCheckpoints' PROVE e \in LogCheckpoints \/ e = dbCommitted'
    <3>1. PICK i \in 1 .. m + q : l[i].ckpt /\ e = l[i].epoch
          BY <2>1, <2>4, <2>9 DEF LogCheckpoints
    <3>2. CASE i <= m
      <4>1. i \in 1 .. Len(log) /\ l[i] = log[i]
            BY <2>4, <2>5, <3>2
      <4> QED  BY <3>1, <4>1 DEF LogCheckpoints
    <3>3. CASE ~(i <= m)
      <4>1. i - m \in 1 .. q /\ m + (i - m) = i
            BY <3>3
      <4>2. i - m = q
            BY <2>5, <3>1, <4>1
      <4> QED  BY <2>7, <3>1, <4>1, <4>2
    <3> QED  BY <3>2, <3>3
  <2>10. ASSUME NEW e \in LogCheckpoints PROVE e \in LogCheckpoints'
    <3>1. PICK i \in 1 .. m : log[i].ckpt /\ e = log[i].epoch
          BY <2>4, <2>10 DEF LogCheckpoints
    <3>2. i \in 1 .. Len(l) /\ l[i] = log[i]
          BY <2>4, <2>5
    <3> QED  BY <2>1, <3>1, <3>2 DEF LogCheckpoints
  <2>11. dbCommitted' \in LogCheckpoints'
        BY <2>1, <2>4, <2>6, <2>7 DEF LogCheckpoints
  <2>12. LogCheckpoints' = LogCheckpoints \cup CommitEpochs
        BY <1>4, <1>6, <2>9, <2>10, <2>11
  <2> QED  BY <1>4, <1>6, <2>8, <2>12
<1> QED  BY <1>3, <1>4, <1>5, <1>6

\* How far a running job gets by a commit.
LEMMA CommitReaches ==
  ASSUME Inv, TaskCommit, NEW j \in Jobs, Running(j), NEW T, T = TakenBy(j),
         NEW v, v = job[j].snap, NEW b, b = Begun(jobCommitted[j], v),
         NEW c, c = Begun(jobCommitted'[j], v)
  PROVE  /\ (T = {} /\ c = b) \/ (T = {c} /\ c >= b)
         /\ (\A p \in task.jobs : p[1] # j) => jobCommitted'[j] = jobCommitted[j]
<1>1. TypeInv /\ TaskInv /\ MergeInv
      BY DEF Inv, CCInv, EpochInv
<1>2. /\ task.step = "commit" /\ jobCommitted'[j] = EpochAfterCommit(j)
      BY DEF TaskCommit
<1>3. PICK e : e = EpochAfterCommit(j)
      OBVIOUS
<1>4. \A x \in task.db : j \notin x.tabs
      BY <1>1, <1>2 DEF MergeInv
<1>5. \/ \E p \in task.jobs : p[1] = j /\ p[2] = e
      \/ (\A p \in task.jobs : p[1] # j) /\ e = jobCommitted[j]
      BY <1>2, <1>3, <1>4, CommitEpoch
<1>6. v \in Nat /\ jobCommitted[j] \in Int
      BY JobEpochs
<1>7. CASE \E p \in task.jobs : p[1] = j /\ p[2] = e
  <2>1. PICK p \in task.jobs : p[1] = j /\ p[2] = e
        BY <1>7
  <2>2. p = <<j, e>> /\ e \in Nat
        BY <1>1, <2>1, TypeFacts
  <2>3. jobCommitted[j] < e
        BY <1>1, <1>2, <2>1 DEF TaskInv
  <2>4. \A x \in Nat : <<j, x>> \in task.jobs <=> x = e
    <3> SUFFICES ASSUME NEW x \in Nat, <<j, x>> \in task.jobs PROVE x = e
        BY <2>1, <2>2
    <3>1. PICK y : y = <<j, x>> /\ y \in task.jobs /\ y[1] = j /\ y[2] = x
          OBVIOUS
    <3>2. \A u, w \in task.jobs : u[1] = w[1] => u[2] = w[2]
          BY <1>1 DEF TaskInv
    <3> QED  BY <2>1, <3>1, <3>2
  <2>5. CASE e >= v
    <3>1. T = {e}
          BY <1>2, <2>2, <2>4, <2>5 DEF TakenBy
    <3>2. c = e /\ c >= b
          BY <1>2, <1>3, <1>6, <2>2, <2>3, <2>5 DEF Begun
    <3> QED  BY <2>1, <3>1, <3>2
  <2>6. CASE ~(e >= v)
    <3>1. T = {}
          BY <1>2, <2>4, <2>6 DEF TakenBy
    <3>2. c = v /\ b = v
          BY <1>2, <1>3, <1>6, <2>2, <2>3, <2>6 DEF Begun
    <3> QED  BY <2>1, <3>1, <3>2
  <2> QED  BY <2>5, <2>6
<1>8. CASE (\A p \in task.jobs : p[1] # j) /\ e = jobCommitted[j]
  <2>1. T = {}
        BY <1>8 DEF TakenBy
  <2> QED  BY <1>2, <1>3, <1>8, <2>1
<1> QED  BY <1>5, <1>7, <1>8

\* A job that is committed finds what it reaches in the log.
LEMMA LoggedCommit ==
  ASSUME NEW K, NEW b \in Nat, NEW c \in Nat, NEW v \in Nat, NEW T, NEW L, NEW M,
         NEW d \in Nat, NEW f \in Nat, NEW C, NEW P,
         Logged(K, b, v, T, L, d, C, P), \A e \in K : e \in Nat /\ e >= v,
         \A e \in L : e \in Nat /\ e <= d, \A e \in C, p \in P : e \in Nat /\ p \in Nat /\ e < p,
         (T = {} /\ c = b) \/ (T = {c} /\ c >= b), d < v => b = v,
         \/ C = {} /\ f = d /\ M = L
         \/ C = {f} /\ d < f /\ M = L \cup C
         \/ C = {f} /\ d < f /\ M = {} /\ f < v /\ T = {}
  PROVE  Logged(K, c, v, {}, M, f, {}, P)
<1>1. /\ K \subseteq L \cup C \cup P /\ T \subseteq L \cup C
      /\ d >= v => b \in L
      /\ ~(d >= v) => v \in C \cup P
      BY DEF Logged
<1>2. CASE C = {} /\ f = d /\ M = L
  <2>1. K \subseteq M \cup {} \cup P
        BY <1>1, <1>2
  <2>2. f >= v => c \in M
        BY <1>1, <1>2
  <2>3. ~(f >= v) => v \in P
        BY <1>1, <1>2
  <2> QED  BY <2>1, <2>2, <2>3 DEF Logged
<1>3. CASE C = {f} /\ d < f /\ M = L \cup C
  <2>1. K \subseteq M \cup {} \cup P
        BY <1>1, <1>3
  <2>2. f >= v => c \in M
    <3> SUFFICES ASSUME f >= v PROVE c \in M
        OBVIOUS
    <3>1. CASE T = {c}
          BY <1>1, <1>3, <3>1
    <3>2. CASE c = b /\ d >= v
          BY <1>1, <1>3, <3>2
    <3>3. CASE c = b /\ ~(d >= v)
      <4>1. v \notin P /\ c = v
            BY <1>3, <3>3
      <4> QED  BY <1>1, <1>3, <3>3, <4>1
    <3> QED  BY <3>1, <3>2, <3>3
  <2>3. ~(f >= v) => v \in P
        BY <1>1, <1>3
  <2> QED  BY <2>1, <2>2, <2>3 DEF Logged
<1>4. CASE C = {f} /\ d < f /\ M = {} /\ f < v /\ T = {}
  <2>1. K \subseteq M \cup {} \cup P
        BY <1>1, <1>4
  <2>2. ~(f >= v) /\ v \in P
        BY <1>1, <1>4
  <2> QED  BY <2>1, <2>2 DEF Logged
<1> QED  BY <1>2, <1>3, <1>4

LEMMA FollowsCommit ==
  ASSUME NEW K, NEW b \in Nat, NEW c \in Nat, NEW T, NEW D, NEW E, NEW fin, NEW at,
         Follows(K, b, T, D, fin, at), E \subseteq D, \A e \in E : e \in Nat,
         (T = {} /\ c = b) \/ (T = {c} /\ c >= b)
  PROVE  Follows(K, c, {}, E, fin, at)
BY DEF Follows

LEMMA CommitJobLogged ==
  ASSUME Inv, LogInv, TaskCommit, NEW j \in Jobs, Running(j)
  PROVE  JobLogged(j)' /\ Running(j)'
<1>1. /\ job' = job /\ db' = db /\ dbJobs' = dbJobs /\ catalog' = catalog /\ DbPending' = DbPending
      /\ task.step = "commit" /\ task' = [task EXCEPT !.step = "post"]
      BY DEF TaskCommit, DbPending
<1>2. TypeInv /\ TaskInv /\ DbInv
      BY DEF Inv, CCInv, EpochInv
<1>3. task'.step = "post" /\ task'.jobs = task.jobs
      BY <1>1, <1>2 DEF TypeInv, Tasks
<1>4. CommitEpochs' = {} /\ TakenBy(j)' = {} /\ DbCheckpoints' = DbCheckpoints
      BY <1>1, <1>3 DEF CommitEpochs, TakenBy, DbCheckpoints
<1>5. PICK r : r = job[j] /\ r = job'[j]
      BY <1>1
<1>6. PICK K, b, c, v, T : /\ K = JobCheckpoints(r) /\ v = r.snap /\ T = TakenBy(j)
                           /\ b = Begun(jobCommitted[j], v) /\ c = Begun(jobCommitted'[j], v)
      OBVIOUS
<1>7. /\ v \in Nat /\ b \in Nat /\ \A e \in K : e \in Nat /\ e >= v
      BY <1>5, <1>6, JobEpochs
<1>8. /\ (T = {} /\ c = b) \/ (T = {c} /\ c >= b)
      /\ (\A p \in task.jobs : p[1] # j) => jobCommitted'[j] = jobCommitted[j]
  <2>1. v = job[j].snap
        BY <1>5, <1>6
  <2> QED  BY <1>6, <2>1, CommitReaches
<1>9. c \in Nat
  <2>1. \A e \in T : e \in Nat
        BY <1>6 DEF TakenBy
  <2> QED  BY <1>7, <1>8, <2>1
<1>10. JobLogged(j) /\ Attended(j)
      BY DEF LogInv, JobState, JobLogged
<1>11. /\ Logged(K, b, v, T, LogCheckpoints, dbCommitted, CommitEpochs, DbCheckpoints)
       /\ Follows(K, b, T, {dbCommitted} \cup CommitEpochs \cup DbCheckpoints,
                  r.phase = "finishing", r.finishAt)
      BY <1>5, <1>6, <1>10 DEF JobLogged
<1>12. /\ dbCommitted < v =>
            /\ ~r.ready /\ catalog[j] # "creating" /\ jobCommitted[j] < v
            /\ \A p \in task.jobs : p[1] # j
       /\ ~task.log => \A e \in CommitEpochs : e < v
       /\ r.phase = "finishing" /\ catalog[j] # "dropped" =>
            j \in dbJobs /\ \A x \in DbPending : x.prev >= r.finishAt => j \in x.tabs
      BY <1>5, <1>6, <1>10 DEF Attended
<1>13. dbCommitted < v => T = {} /\ b = v
  <2>1. dbCommitted < v => T = {}
        BY <1>6, <1>12 DEF TakenBy
  <2>2. jobCommitted[j] \in Int
        BY JobEpochs
  <2> QED  BY <1>6, <1>7, <1>12, <2>1, <2>2 DEF Begun
<1>14. PICK d \in Nat, f \in Nat : d = dbCommitted /\ f = dbCommitted' /\ d <= f
  <2>1. task.db # {} => dbCommitted' \in Nat /\ dbCommitted < dbCommitted'
        BY CommitCheckpoints, CheckpointOrder DEF LogInv
  <2>2. dbCommitted \in Nat
        BY <1>2 DEF TypeInv
  <2> QED  BY <2>1, <2>2, CommitCheckpoints DEF LogInv
<1>15. PICK L, M, C, P : /\ L = LogCheckpoints /\ M = LogCheckpoints'
                         /\ C = CommitEpochs /\ P = DbCheckpoints
      OBVIOUS
<1>16. \/ C = {} /\ f = d /\ M = L
       \/ C = {f} /\ d < f /\ M = L \cup C
       \/ C = {f} /\ d < f /\ M = {} /\ f < v /\ T = {}
  <2>1. CASE task.db = {}
        BY <1>14, <1>15, <2>1, CommitCheckpoints DEF LogInv
  <2>2. CASE task.db # {} /\ task.log
    <3>1. C = {f} /\ M = L \cup C
          BY <1>14, <1>15, <2>2, CommitCheckpoints DEF LogInv
    <3>2. d < f
          BY <1>14, <1>15, <3>1, CheckpointOrder
    <3> QED  BY <3>1, <3>2
  <2>3. CASE task.db # {} /\ ~task.log
    <3>1. C = {f} /\ M = {}
          BY <1>14, <1>15, <2>3, CommitCheckpoints DEF LogInv
    <3>2. d < f
          BY <1>14, <1>15, <3>1, CheckpointOrder
    <3>3. f < v
          BY <1>12, <1>15, <2>3, <3>1
    <3> QED  BY <1>7, <1>13, <1>14, <3>1, <3>2, <3>3
  <2> QED  BY <2>1, <2>2, <2>3
<1>17. /\ \A e \in L : e \in Nat /\ e <= d
       /\ \A e \in C, p \in P : e \in Nat /\ p \in Nat /\ e < p
       /\ \A e \in P : e \in Nat
      BY <1>14, <1>15, CheckpointOrder
<1>18. Logged(K, c, v, {}, M, f, {}, P)
  <2>1. Logged(K, b, v, T, L, d, C, P) /\ (d < v => b = v)
        BY <1>11, <1>13, <1>14, <1>15
  <2> QED  BY <1>7, <1>8, <1>9, <1>16, <1>17, <2>1, LoggedCommit
<1>19. Follows(K, c, {}, {f} \cup {} \cup P, r.phase = "finishing", r.finishAt)
  <2>1. PICK D, E : D = {d} \cup C \cup P /\ E = {f} \cup {} \cup P
        OBVIOUS
  <2>2. E \subseteq D /\ \A e \in E : e \in Nat
        BY <1>16, <1>17, <2>1
  <2>3. Follows(K, b, T, D, r.phase = "finishing", r.finishAt)
        BY <1>11, <1>14, <1>15, <2>1
  <2>4. Follows(K, c, {}, E, r.phase = "finishing", r.finishAt)
        BY <1>7, <1>8, <1>9, <2>2, <2>3, FollowsCommit
  <2> QED  BY <2>1, <2>4
<1>20. Attended(j)'
  <2>1. f < v => /\ ~r.ready /\ catalog[j] # "creating" /\ jobCommitted'[j] < v
                 /\ \A p \in task.jobs : p[1] # j
        BY <1>7, <1>8, <1>12, <1>14
  <2> QED  BY <1>1, <1>3, <1>4, <1>5, <1>6, <1>12, <1>14, <2>1 DEF Attended
<1>21. Running(j)'
      BY <1>1 DEF Running
<1> QED  BY <1>4, <1>5, <1>6, <1>14, <1>15, <1>18, <1>19, <1>20, <1>21 DEF JobLogged

LEMMA CommitLogged ==
  ASSUME Inv, Inv', LogInv, LogShape', TaskCommit
  PROVE  LogInv'
<1>1. /\ job' = job /\ dbJobs' = dbJobs /\ catalog' = catalog /\ DbPending' = DbPending /\ up' = up
      /\ catSnap' = catSnap /\ truncInfo' = truncInfo
      /\ task.step = "commit" /\ task' = [task EXCEPT !.step = "post"]
      BY DEF TaskCommit, DbPending
<1>2. TypeInv /\ TaskInv /\ DbInv /\ JobsInv
      BY DEF Inv, CCInv, EpochInv
<1>3. task'.step = "post" /\ task'.db = task.db
      BY <1>1, <1>2 DEF TypeInv, Tasks
<1>7. /\ \A e \in LogCheckpoints' : e <= dbCommitted'
      /\ dbCommitted' \in Nat
  <2>1. \A i \in 1 .. Len(log') : log'[i].epoch <= dbCommitted'
        BY DEF Inv, EpochInv, PersistedInv
  <2> QED  BY <2>1 DEF LogCheckpoints, Inv, CCInv, TypeInv
<1>8. ASSUME NEW j \in Jobs PROVE JobState(j)'
  <2>1. CASE Running(j)
    <3>1. JobLogged(j)' /\ Running(j)'
          BY <2>1, CommitJobLogged
    <3>2. ASSUME catalog[j] = "creating" PROVE Found(j)'
      <4>1. catSnap[j] = job[j].snap
        <5>1. catSnap[j] \in Nat /\ catSnap[j] \in {None, job[j].snap}
              BY <1>2, <2>1, <3>2 DEF TypeInv, JobsInv
        <5> QED  BY <5>1 DEF None
      <4>2. PICK v, b : v \in Nat /\ v = job[j].snap /\ b = Begun(jobCommitted'[j], v)
            BY <2>1, JobEpochs
      <4>3. ~(dbCommitted' < v)
            BY <1>1, <3>1, <3>2, <4>2 DEF JobLogged, Attended
      <4>4. b \in LogCheckpoints'
        <5>1. IF dbCommitted' >= v THEN b \in LogCheckpoints' ELSE v \in CommitEpochs' \cup DbCheckpoints'
              BY <1>1, <3>1, <4>2 DEF JobLogged, Logged
        <5> QED  BY <1>7, <4>2, <4>3, <5>1
      <4> QED  BY <1>1, <1>7, <4>1, <4>2, <4>4 DEF Found
    <3> QED  BY <1>1, <3>1, <3>2 DEF JobState
  <2>2. CASE ~Running(j)
    <3>1. ~Running(j)'
          BY <1>1, <2>2 DEF Running
    <3>2. up
          BY <1>1, UpWithTask
    <3>3. ASSUME catalog[j] = "creating" PROVE Found(j)' /\ InDatabase(j)'
      <4>1. InDatabase(j) /\ Found(j)
            BY <2>2, <3>2, <3>3 DEF LogInv, JobState
      <4>2. InDatabase(j)'
            BY <1>1, <1>3, <4>1 DEF InDatabase
      <4>3. PICK e : e = EpochAfterCommit(j) /\ e = jobCommitted'[j]
            BY DEF TaskCommit
      <4>4. /\ \A x \in task.db : j \in x.tabs
            /\ \A p \in task.jobs : p[1] # j
            BY <1>1, <4>1 DEF InDatabase
      <4>5. CASE task.db = {}
        <5>1. e = jobCommitted[j]
              BY <1>1, <4>3, <4>4, <4>5, CommitEpoch
        <5>2. dbCommitted' = dbCommitted /\ LogCheckpoints' = LogCheckpoints
              BY <4>5, CommitCheckpoints DEF LogInv
        <5> QED  BY <1>1, <4>1, <4>2, <4>3, <5>1, <5>2 DEF Found
      <4>6. CASE task.db # {}
        <5>1. e = dbCommitted'
              BY <1>1, <4>3, <4>4, <4>6, CommitEpoch, CommitCheckpoints DEF LogInv
        <5>2. catSnap[j] \in Nat /\ catSnap[j] <= dbCommitted'
          <6>1. PICK x \in task.db : TRUE
                BY <4>6
          <6>2. catSnap[j] <= x.prev
                BY <1>1, <1>2, <3>3, <4>4 DEF TaskInv
          <6>3. x.prev = dbCommitted'
                BY <4>6, CommitCheckpoints DEF LogInv
          <6> QED  BY <1>2, <3>3, <6>2, <6>3 DEF TypeInv
        <5>3. Begun(jobCommitted'[j], catSnap'[j]) = dbCommitted'
              BY <1>1, <1>7, <4>3, <5>1, <5>2 DEF Begun
        <5> QED  BY <1>7, <4>2, <4>3, <5>1, <5>3 DEF Found
      <4> QED  BY <4>5, <4>6
    <3> QED  BY <1>1, <3>1, <3>3 DEF JobState
  <2> QED  BY <2>1, <2>2
<1> QED  BY <1>8 DEF LogInv

\* Once the commit is done, a job only learns of it.
LEMMA TaskGoesOn ==
  ASSUME Inv, LogInv, NEW j \in Jobs, Running(j), task.step # "commit", task'.step # "commit",
         log' = log, dbCommitted' = dbCommitted, jobCommitted' = jobCommitted,
         DbPending' = DbPending, dbJobs' = dbJobs, \A p \in task'.jobs : p \in task.jobs,
         NEW r, r = job[j], NEW s, s = job'[j],
         s.ctl = r.ctl, s.phase = r.phase, s.snap = r.snap, s.finishAt = r.finishAt,
         JobCheckpoints(s) = JobCheckpoints(r),
         dbCommitted < r.snap => ~s.ready /\ catalog'[j] # "creating",
         catalog[j] = "dropped" => catalog'[j] = "dropped"
  PROVE  JobLogged(j)' /\ Running(j)'
<1>1. /\ CommitEpochs = {} /\ CommitEpochs' = {} /\ TakenBy(j) = {} /\ TakenBy(j)' = {}
      /\ DbCheckpoints' = DbCheckpoints /\ LogCheckpoints' = LogCheckpoints
      BY DEF CommitEpochs, TakenBy, DbCheckpoints, LogCheckpoints
<1>2. JobLogged(j) /\ Attended(j)
      BY DEF LogInv, JobState, JobLogged
<1>3. PICK K, b, v : /\ K = JobCheckpoints(r) /\ v = r.snap /\ b = Begun(jobCommitted[j], v)
      OBVIOUS
<1>4. K = JobCheckpoints(job'[j]) /\ v = job'[j].snap /\ b = Begun(jobCommitted'[j], job'[j].snap)
      BY <1>3
<1>5. /\ Logged(K, b, v, {}, LogCheckpoints, dbCommitted, {}, DbCheckpoints)
      /\ Follows(K, b, {}, {dbCommitted} \cup {} \cup DbCheckpoints, r.phase = "finishing", r.finishAt)
      BY <1>1, <1>2, <1>3 DEF JobLogged
<1>6. Attended(j)'
  <2>1. /\ dbCommitted < v => jobCommitted[j] < v /\ \A p \in task.jobs : p[1] # j
        /\ r.phase = "finishing" /\ catalog[j] # "dropped" =>
             j \in dbJobs /\ \A x \in DbPending : x.prev >= r.finishAt => j \in x.tabs
        BY <1>2, <1>3 DEF Attended
  <2> QED  BY <1>1, <1>3, <1>4, <2>1 DEF Attended
<1>7. Running(j)'
      BY DEF Running
<1> QED  BY <1>1, <1>4, <1>5, <1>6, <1>7 DEF JobLogged

\* A job that becomes Creating has its snapshot epoch committed.
LEMMA PostCollectLogged ==
  ASSUME Inv, Inv', LogInv, LogShape', TaskPostCollect
  PROVE  LogInv'
<1>1. /\ job' = job /\ dbJobs' = dbJobs /\ DbPending' = DbPending /\ up' = up
      /\ truncInfo' = truncInfo /\ log' = log /\ dbCommitted' = dbCommitted
      /\ jobCommitted' = jobCommitted /\ LogCheckpoints' = LogCheckpoints
      /\ task.step = "post" /\ task' = [task EXCEPT !.step = "finish"]
      /\ \A j \in Jobs : catalog'[j] = IF j \in NewlyCreating THEN "creating" ELSE catalog[j]
      /\ \A j \in Jobs : catSnap'[j] = IF j \in NewlyCreating THEN job[j].snap ELSE catSnap[j]
      BY DEF TaskPostCollect, DbPending, LogCheckpoints
<1>2. TypeInv /\ InitialInv
      BY DEF Inv, CCInv
<1>3. task'.step = "finish" /\ task'.db = task.db /\ task'.jobs = task.jobs
      BY <1>1, <1>2 DEF TypeInv, Tasks
<1>4. up
      BY <1>1, UpWithTask
<1>5. ASSUME NEW j \in NewlyCreating
      PROVE  j \in Jobs /\ catalog[j] = "initial" /\ Running(j) /\ ~(dbCommitted < job[j].snap)
  <2>1. j \in Jobs /\ catalog[j] = "initial" /\ <<j, 0>> \in task.jobs
        BY DEF NewlyCreating
  <2>2. Running(j)
        BY <1>2, <1>4, <2>1 DEF InitialInv
  <2>3. dbCommitted < job[j].snap => \A p \in task.jobs : p[1] # j
        BY <2>1, <2>2 DEF LogInv, JobState, JobLogged, Attended
  <2> QED  BY <2>1, <2>2, <2>3
<1>6. ASSUME NEW j \in Jobs PROVE JobState(j)'
  <2>1. ASSUME Running(j) PROVE JobLogged(j)' /\ Running(j)'
    <3>1. dbCommitted < job[j].snap => ~job[j].ready /\ catalog[j] # "creating"
          BY <2>1 DEF LogInv, JobState, JobLogged, Attended
    <3>2. PICK r, s : r = job[j] /\ s = job'[j] /\ s = r
          BY <1>1
    <3>3. dbCommitted < r.snap => ~s.ready /\ catalog'[j] # "creating"
          BY <1>1, <1>5, <3>1, <3>2
    <3>4. catalog[j] = "dropped" => catalog'[j] = "dropped"
          BY <1>1, <1>5
    <3> QED  BY <1>1, <1>3, <2>1, <3>2, <3>3, <3>4, TaskGoesOn
  <2>2. ASSUME catalog'[j] = "creating" PROVE Found(j)'
    <3>1. CASE j \in NewlyCreating
      <4>1. PICK v, b : v = job[j].snap /\ b = Begun(jobCommitted[j], v) /\ v \in Nat
            BY <1>5, <3>1, JobEpochs
      <4>2. ~(dbCommitted < v) /\ dbCommitted \in Nat
            BY <1>2, <1>5, <3>1, <4>1 DEF TypeInv
      <4>3. b \in LogCheckpoints
        <5>1. IF dbCommitted >= v THEN b \in LogCheckpoints ELSE v \in CommitEpochs \cup DbCheckpoints
              BY <1>5, <3>1, <4>1 DEF LogInv, JobState, JobLogged, Logged
        <5> QED  BY <4>1, <4>2, <5>1
      <4>4. b <= dbCommitted
            BY <4>3, CheckpointOrder
      <4>5. Begun(jobCommitted'[j], catSnap'[j]) = b
            BY <1>1, <3>1, <4>1
      <4> QED  BY <1>1, <4>3, <4>4, <4>5 DEF Found
    <3>2. CASE j \notin NewlyCreating
          BY <1>1, <2>2, <3>2 DEF LogInv, JobState, Found
    <3> QED  BY <3>1, <3>2
  <2>3. ASSUME catalog'[j] = "creating", ~Running(j) PROVE InDatabase(j)'
    <3>1. InDatabase(j)
          BY <1>1, <1>4, <1>5, <2>3 DEF LogInv, JobState
    <3> QED  BY <1>1, <1>3, <3>1 DEF InDatabase
  <2>4. Running(j)' <=> Running(j)
        BY <1>1 DEF Running
  <2> QED  BY <2>1, <2>2, <2>3, <2>4 DEF JobState
<1> QED  BY <1>6 DEF LogInv

LEMMA FinishJobsLogged ==
  ASSUME Inv, LogInv, LogShape', TaskFinishJobs
  PROVE  LogInv'
<1>1. /\ job' = job /\ dbJobs' = dbJobs /\ DbPending' = DbPending /\ up' = up
      /\ truncInfo' = truncInfo /\ log' = log /\ dbCommitted' = dbCommitted /\ catSnap' = catSnap
      /\ jobCommitted' = jobCommitted /\ LogCheckpoints' = LogCheckpoints
      /\ task.step = "finish" /\ task' = [task EXCEPT !.step = "ack"]
      /\ \A j \in task.fin : catalog[j] = "creating"
      /\ \A j \in Jobs : catalog'[j] = IF j \in task.fin THEN "created" ELSE catalog[j]
      BY DEF TaskFinishJobs, DbPending, LogCheckpoints
<1>2. task'.step = "ack" /\ task'.db = task.db /\ task'.jobs = task.jobs
      BY <1>1 DEF Inv, CCInv, TypeInv, Tasks
<1>3. up
      BY <1>1, UpWithTask
<1>4. ASSUME NEW j \in Jobs PROVE JobState(j)'
  <2>0. catalog'[j] = "creating" => catalog[j] = "creating"
        BY <1>1
  <2>1. ASSUME Running(j) PROVE JobLogged(j)' /\ Running(j)'
    <3>1. dbCommitted < job[j].snap => ~job[j].ready /\ catalog[j] # "creating"
          BY <2>1 DEF LogInv, JobState, JobLogged, Attended
    <3>2. PICK r, s : r = job[j] /\ s = job'[j] /\ s = r
          BY <1>1
    <3>3. dbCommitted < r.snap => ~s.ready /\ catalog'[j] # "creating"
          BY <2>0, <3>1, <3>2
    <3>4. catalog[j] = "dropped" => catalog'[j] = "dropped"
          BY <1>1
    <3> QED  BY <1>1, <1>2, <2>1, <3>2, <3>3, <3>4, TaskGoesOn
  <2>2. catalog'[j] = "creating" => Found(j)'
        BY <1>1, <2>0 DEF LogInv, JobState, Found
  <2>3. ASSUME catalog'[j] = "creating", ~Running(j) PROVE InDatabase(j)'
        BY <1>1, <1>2, <1>3, <2>0, <2>3 DEF LogInv, JobState, InDatabase
  <2>4. Running(j)' <=> Running(j)
        BY <1>1 DEF Running
  <2> QED  BY <2>1, <2>2, <2>3, <2>4 DEF JobState
<1> QED  BY <1>4 DEF LogInv

\* A job becomes ready when its snapshot epoch is committed, never before.
LEMMA AckLogged ==
  ASSUME Inv, LogInv, LogShape', TaskAck
  PROVE  LogInv'
<1>1. /\ dbJobs' = dbJobs /\ up' = up /\ catalog' = catalog
      /\ truncInfo' = truncInfo /\ log' = log /\ dbCommitted' = dbCommitted /\ catSnap' = catSnap
      /\ jobCommitted' = jobCommitted /\ LogCheckpoints' = LogCheckpoints
      /\ task.step = "ack" /\ task' = NoTask /\ db' = [db EXCEPT !.completing = {}]
      BY DEF TaskAck, persisted, LogCheckpoints
<1>2. task'.step = "none" /\ task'.db = {} /\ task'.jobs = {}
      BY <1>1, NoTaskFields
<1>3. DbPending' = DbPending
  <2>1. db \in Graphs(DbBarriers)
        BY DEF Inv, CCInv, TypeInv
  <2> QED  BY <1>1, <2>1 DEF DbPending, Graphs
<1>4. up
      BY <1>1, UpWithTask
<1>5. ASSUME NEW j \in Jobs PROVE JobState(j)'
  <2>1. PICK r, s : r = job[j] /\ s = job'[j]
        OBVIOUS
  <2>2. /\ s.ctl = r.ctl /\ s.phase = r.phase /\ s.finishAt = r.finishAt /\ s.snap = r.snap
        /\ Outstanding(s) = Outstanding(r) /\ s.pend = r.pend /\ s.ready = ReadyAfterAck(j)
        BY <2>1, AckRecord
  <2>3. ASSUME Running(j) PROVE JobLogged(j)' /\ Running(j)'
    <3>1. dbCommitted < r.snap => ~r.ready /\ catalog[j] # "creating"
          BY <2>1, <2>3 DEF LogInv, JobState, JobLogged, Attended
    <3>2. \A b \in task.db : b.prev = dbCommitted
          BY <1>1 DEF LogInv, LogShape, TaskCommitted
    <3>3. r.snap \in Nat /\ dbCommitted \in Nat
          BY <2>1 DEF Inv, CCInv, TypeInv, JobRecords
    <3>4. dbCommitted < r.snap => ~s.ready
      <4>1. ReadyAfterAck(j) => r.ready \/ \E b \in task.db : b.prev >= r.snap
            BY <2>1, Zenon DEF ReadyAfterAck
      <4>2. (\E b \in task.db : b.prev >= r.snap) => dbCommitted >= r.snap
            BY <3>2
      <4>3. dbCommitted < r.snap => ~(dbCommitted >= r.snap)
            BY <3>3
      <4>4. dbCommitted < r.snap => ~ReadyAfterAck(j)
            BY <3>1, <4>1, <4>2, <4>3, Zenon
      <4> QED  BY <2>2, <4>4, Zenon
    <3>5. JobCheckpoints(s) = JobCheckpoints(r)
          BY <2>2 DEF JobCheckpoints, Held
    <3> QED  BY <1>1, <1>2, <1>3, <2>1, <2>2, <2>3, <3>1, <3>4, <3>5, TaskGoesOn
  <2>4. catalog'[j] = "creating" => Found(j)'
        BY <1>1 DEF LogInv, JobState, Found
  <2>5. ASSUME catalog'[j] = "creating", ~Running(j) PROVE InDatabase(j)'
        BY <1>1, <1>2, <1>3, <1>4, <2>5 DEF LogInv, JobState, InDatabase
  <2>6. Running(j)' <=> Running(j)
        BY <2>1, <2>2 DEF Running
  <2> QED  BY <2>3, <2>4, <2>5, <2>6 DEF JobState
<1> QED  BY <1>5 DEF LogInv

\* Truncation leaves every epoch from the one it is given on.
LEMMA TruncatedFrom ==
  ASSUME Inv, NEW t \in Nat, t = TruncateEpoch, log' = TruncatedLog
  PROVE  /\ \A e \in LogCheckpoints : e >= t => e \in LogCheckpoints'
         /\ log' # <<>> => log # <<>> /\ log'[Len(log')] = log[Len(log)]
<1>0. /\ log \in Seq(LogRecords) /\ Len(log) \in Nat
      /\ \A i, k \in 1 .. Len(log) : i < k => log[i].epoch < log[k].epoch
      BY DEF Inv, CCInv, EpochInv, TypeInv, PersistedInv
<1>1. \A i \in 1 .. Len(log) : log[i].epoch \in Nat
  <2>1. \A i \in 1 .. Len(log) : log[i] \in LogRecords
        BY <1>0
  <2> QED  BY <2>1 DEF LogRecords
<1>2. PICK S : S = {i \in 1 .. Len(log) : log[i].epoch < t}
      OBVIOUS
<1>3. PICK m : m = Cardinality(S)
      OBVIOUS
<1>4. \A n \in Nat : S \subseteq 1 .. n => m \in Nat /\ m <= n
  <2> SUFFICES ASSUME NEW n \in Nat, S \subseteq 1 .. n PROVE m \in Nat /\ m <= n
      OBVIOUS
  <2>1. IsFiniteSet(1 .. n) /\ Cardinality(1 .. n) = n
    <3>1. \A a \in Nat : IsFiniteSet(1 .. a) /\ Cardinality(1 .. a) = a
          BY FS_Interval
    <3> QED  BY <3>1, Zenon
  <2> QED  BY <1>3, <2>1, FS_Subset, FS_CardinalityType
<1>5. m \in Nat /\ m <= Len(log)
      BY <1>0, <1>2, <1>4
<1>6. PICK l : l = log'
      OBVIOUS
<1>7. l = SubSeq(log, m + 1, Len(log))
      BY <1>2, <1>3, <1>6 DEF TruncatedLog
<1>8. /\ l \in Seq(LogRecords) /\ Len(l) = Len(log) - m
      /\ \A i \in 1 .. Len(log) - m : l[i] = log[m + i]
      BY <1>0, <1>5, <1>7, SuffixIsSeq
<1>9. ASSUME NEW e \in LogCheckpoints, e >= t PROVE e \in LogCheckpoints'
  <2>1. PICK i \in 1 .. Len(log) : log[i].ckpt /\ log[i].epoch = e
        BY DEF LogCheckpoints
  <2>2. S \subseteq 1 .. (i - 1)
    <3> SUFFICES ASSUME NEW k \in 1 .. Len(log), log[k].epoch < t PROVE k < i
        BY <1>0, <1>2
    <3>1. log[k].epoch < log[i].epoch
          BY <1>1, <1>9, <2>1
    <3>2. ~(i < k) /\ i # k
          BY <1>0, <1>1, <3>1
    <3> QED  BY <1>0, <3>2
  <2>3. m <= i - 1
        BY <1>0, <1>4, <2>2
  <2>4. PICK k : k = i - m
        OBVIOUS
  <2>5. k \in 1 .. Len(l) /\ l[k] = log[i]
    <3>1. k \in 1 .. (Len(log) - m) /\ m + k = i
          BY <1>0, <1>5, <2>3, <2>4
    <3> QED  BY <1>8, <3>1
  <2> QED  BY <1>6, <2>1, <2>5 DEF LogCheckpoints
<1>10. ASSUME l # <<>> PROVE log # <<>> /\ l[Len(l)] = log[Len(log)]
  <2>1. Len(l) \in Nat /\ Len(l) # 0
        BY <1>8, <1>10
  <2>2. Len(log) - m \in 1 .. (Len(log) - m) /\ m + (Len(log) - m) = Len(log) /\ Len(log) # 0
        BY <1>0, <1>5, <1>8, <2>1
  <2>3. l[Len(l)] = log[Len(log)]
        BY <1>8, <2>2
  <2> QED  BY <2>2, <2>3
<1> QED  BY <1>6, <1>9, <1>10

\* It is given the oldest epoch one of the jobs it has read stands at.
LEMMA TruncateEpochIs ==
  ASSUME Inv, TruncationKnows, truncInfo # {}
  PROVE  /\ TruncateEpoch \in Nat
         /\ \E x \in truncInfo : TruncateEpoch = Begun(jobCommitted[x], catSnap[x])
         /\ \A x \in truncInfo : TruncateEpoch <= Begun(jobCommitted[x], catSnap[x])
<1>1. TypeInv /\ truncInfo \subseteq Jobs
      BY DEF Inv, CCInv, TypeInv
<1>2. \A x \in truncInfo : jobCommitted[x] \in Int /\ catSnap[x] \in Nat
      BY <1>1 DEF TypeInv, TruncationKnows, None
<1>3. \A x \in truncInfo :
        /\ Max({jobCommitted[x], catSnap[x]}) = Begun(jobCommitted[x], catSnap[x])
        /\ Begun(jobCommitted[x], catSnap[x]) \in Nat
  <2> TAKE x \in truncInfo
  <2>1. PICK c \in Int, v \in Nat : c = jobCommitted[x] /\ v = catSnap[x]
        BY <1>2
  <2>2. Max({c, v}) = Begun(c, v) /\ Begun(c, v) \in Nat
        BY MaxOfTwo DEF Begun
  <2> QED  BY <2>1, <2>2
<1>4. PICK S : S = {Max({jobCommitted[x], catSnap[x]}) : x \in truncInfo}
      OBVIOUS
<1>5. S \in SUBSET Nat /\ S # {}
      BY <1>3, <1>4
<1>6. Min(S) \in S /\ \A y \in S : Min(S) <= y
      BY <1>5, MinIsLeast
<1>7. TruncateEpoch = Min(S)
      BY <1>4 DEF TruncateEpoch
<1> QED  BY <1>3, <1>4, <1>5, <1>6, <1>7

\* With one job, truncation keeps what this job has reached and all that follows.
LEMMA ApplyLogged ==
  ASSUME \A i, k \in Jobs : i = k, Inv, LogInv, LogShape', TruncateApply
  PROVE  LogInv'
<1>1. /\ up' = up /\ job' = job /\ dbJobs' = dbJobs /\ task' = task /\ DbPending' = DbPending
      /\ dbCommitted' = dbCommitted /\ jobCommitted' = jobCommitted
      /\ catalog' = catalog /\ catSnap' = catSnap /\ truncInfo' = {} /\ truncInfo # {}
      /\ log' = TruncatedLog \/ log' = log
      BY DEF TruncateApply, memory, DbPending
<1>2. CASE log' = log
  <2>1. ASSUME NEW j \in Jobs PROVE JobState(j)'
    <3>1. (Running(j)' <=> Running(j)) /\ job'[j] = job[j]
          BY <1>1 DEF Running
    <3> QED  BY <1>1, <1>2, <3>1, SameRecord, StateKept DEF LogInv
  <2> QED  BY <2>1 DEF LogInv
<1>3. CASE log' = TruncatedLog
  <2>0. TypeInv /\ truncInfo \subseteq Jobs
        BY DEF Inv, CCInv, TypeInv
  <2>1. PICK x \in truncInfo : TRUE
        BY <1>1
  <2>2. x \in Jobs /\ truncInfo = {x} /\ Jobs = {x} /\ catSnap[x] # None
        BY <2>0, <2>1 DEF LogInv, LogShape, TruncationKnows
  <2>3. PICK c, v, t : c = jobCommitted[x] /\ v = catSnap[x] /\ t = Begun(c, v)
        OBVIOUS
  <2>4. c \in Int /\ v \in Nat /\ t \in Nat /\ t >= c /\ t >= v
        BY <2>0, <2>2, <2>3 DEF TypeInv, Begun, None
  <2>5. TruncateEpoch = t
        BY <1>1, <2>2, <2>3, TruncateEpochIs DEF LogInv, LogShape
  <2>6. /\ \A e \in LogCheckpoints : e >= t => e \in LogCheckpoints'
        /\ log' # <<>> => log # <<>> /\ log'[Len(log')] = log[Len(log)]
        BY <1>3, <2>4, <2>5, TruncatedFrom
  <2>7. ASSUME Running(x) PROVE JobLogged(x)'
    <3>1. PICK r, K : r = job[x] /\ K = JobCheckpoints(r) /\ r = job'[x]
          BY <1>1
    <3>2. /\ catSnap[x] \in {None, r.snap}
          /\ \A e \in K : e \in Nat /\ e > c /\ e >= r.snap
          /\ \A e \in TakenBy(x) : e \in Nat /\ e > c /\ e >= r.snap
          BY <2>2, <2>3, <2>7, <3>1, JobEpochs
    <3>3. r.snap = v /\ (\A e \in K \cup TakenBy(x) : e >= t)
          BY <2>2, <2>3, <2>4, <3>2 DEF Begun
    <3>4. /\ CommitEpochs' = CommitEpochs /\ DbCheckpoints' = DbCheckpoints
          /\ TakenBy(x)' = TakenBy(x)
          BY <1>1 DEF CommitEpochs, DbCheckpoints, TakenBy
    <3>5. JobLogged(x)
          BY <2>2, <2>7 DEF LogInv, JobState
    <3>6. Logged(K, t, v, TakenBy(x), LogCheckpoints, dbCommitted, CommitEpochs, DbCheckpoints)
          BY <2>3, <3>1, <3>3, <3>5 DEF JobLogged
    <3>7. Logged(K, t, v, TakenBy(x), LogCheckpoints', dbCommitted, CommitEpochs, DbCheckpoints)
          BY <2>4, <2>6, <3>3, <3>6 DEF Logged
    <3>8. Follows(K, t, TakenBy(x), {dbCommitted} \cup CommitEpochs \cup DbCheckpoints,
                  r.phase = "finishing", r.finishAt)
          BY <2>3, <3>1, <3>3, <3>5 DEF JobLogged
    <3>9. Attended(x)'
          BY <1>1, <3>4, <3>5 DEF JobLogged, Attended
    <3>10. t = Begun(jobCommitted'[x], job'[x].snap) /\ v = job'[x].snap /\ K = JobCheckpoints(job'[x])
          BY <1>1, <2>3, <3>1, <3>3
    <3> QED  BY <1>1, <3>1, <3>4, <3>7, <3>8, <3>9, <3>10 DEF JobLogged
  <2>8. catalog[x] = "creating" => Found(x)'
        BY <1>1, <2>2, <2>3, <2>4, <2>6 DEF LogInv, JobState, Found
  <2>9. up /\ catalog[x] = "creating" /\ ~Running(x) => InDatabase(x)'
        BY <1>1, <2>2 DEF LogInv, JobState, InDatabase
  <2>10. JobState(x)'
        BY <1>1, <2>7, <2>8, <2>9 DEF JobState, Running
  <2> QED  BY <2>2, <2>10 DEF LogInv
<1> QED  BY <1>1, <1>2, <1>3

\* What the log holds after a checkpoint before the committed one ends there.
LEMMA LogAfterEnds ==
  ASSUME NEW e, LogRising(log), EndsAtCommitted, OldestStart # dbCommitted,
         e \in LogCheckpoints, e # dbCommitted, NEW a, a = LogAfter(e)
  PROVE  Len(a) \in 1 .. Len(a) /\ a[Len(a)].epoch = dbCommitted /\ a[Len(a)].ckpt
<1>0. log \in Seq(LogRecords) /\ Len(log) \in Nat
      BY DEF LogRising
<1>1. PICK x \in 1 .. Len(log) : log[x].ckpt /\ log[x].epoch = e
      BY DEF LogCheckpoints
<1>2. PICK at : at = CHOOSE i \in 1 .. Len(log) : log[i].ckpt /\ log[i].epoch = e
      OBVIOUS
<1>3. at \in 1 .. Len(log) /\ log[at].epoch = e
      BY <1>1, <1>2
<1>4. a = SubSeq(log, at + 1, Len(log))
      BY <1>2 DEF LogAfter
<1>5. log[Len(log)].epoch = dbCommitted /\ log[Len(log)].ckpt
      BY <1>0, <1>1 DEF EndsAtCommitted
<1>6. at \in Nat /\ at < Len(log)
      BY <1>0, <1>3, <1>5
<1>7. Len(a) = Len(log) - at /\ \A i \in 1 .. Len(log) - at : a[i] = log[at + i]
  <2>1. at <= Len(log)
        BY <1>0, <1>6
  <2> QED  BY <1>0, <1>4, <1>6, <2>1, SuffixIsSeq
<1>8. Len(a) \in 1 .. Len(log) - at /\ at + Len(a) = Len(log)
      BY <1>0, <1>6, <1>7
<1>9. a[Len(a)] = log[Len(log)]
      BY <1>7, <1>8
<1> QED  BY <1>5, <1>7, <1>8, <1>9

\* The checkpoints a recovered job replays after its first are in the log, and
\* reach the committed one.
LEMMA ResolvedCheckpoints ==
  ASSUME NEW e \in Nat, LogRising(log), EndsAtCommitted,
         OldestStart # dbCommitted => e \in LogCheckpoints,
         NEW n, NEW q, q = ResolveFrom(e, n)
  PROVE  /\ \A i \in 1 .. Len(q) : q[i].ckpt => q[i].prev \in LogCheckpoints \cup {e}
         /\ OldestStart # dbCommitted /\ e # dbCommitted =>
              \E i \in 2 .. Len(q) : q[i].ckpt /\ q[i].prev = dbCommitted
<1>1. PICK a : a = LogAfter(e)
      OBVIOUS
<1>2. /\ a \in Seq(LogRecords) /\ Len(a) \in Nat
      /\ \A i \in 1 .. Len(a) : \E k \in 1 .. Len(log) : a[i] = log[k]
  <2>1. LogSuffix(a, e)
        BY <1>1, LogAfterIs, Zenon
  <2> QED  BY <2>1 DEF LogSuffix
<1>3. PICK m : m = Len(a) + 1
      OBVIOUS
<1>4. m \in Nat /\ m >= 1
      BY <1>2, <1>3
<1> DEFINE p(i) == IF i = 1 THEN e ELSE a[i - 1].epoch
           c(i) == IF i = m THEN n ELSE a[i].epoch
           k(i) == i = 1 \/ a[i - 1].ckpt
           B(i) == Barrier(p(i), c(i), k(i))
<1>5. q = [i \in 1 .. m |-> B(i)]
      BY <1>1, <1>3, Zenon DEF ResolveFrom
<1>6. \A i \in 1 .. m : B(i).prev = p(i) /\ (B(i).ckpt <=> k(i))
  <2> HIDE DEF p, c, k
  <2> TAKE i \in 1 .. m
  <2>1. PICK x, y, z : x = p(i) /\ y = c(i) /\ z = k(i)
        OBVIOUS
  <2>2. B(i) = [prev |-> x, curr |-> y, ckpt |-> z]
        BY <2>1, Zenon DEF Barrier
  <2>3. B(i).prev = x /\ B(i).ckpt = z
        BY <2>2
  <2> QED  BY <2>1, <2>3, Zenon
<1>7. /\ \A i \in 1 .. m : i = 1 \/ i - 1 \in 1 .. Len(a)
      /\ p(1) = e /\ \A i \in 2 .. m : p(i) = a[i - 1].epoch /\ (k(i) <=> a[i - 1].ckpt)
      BY <1>3, <1>4
<1> HIDE DEF p, c, k, B
<1>8. Len(q) = m
  <2>1. PICK S : S = {B(i) : i \in 1 .. m}
        OBVIOUS
  <2>2. q \in [1 .. m -> S]
        BY <1>5, <2>1
  <2> QED  BY <1>4, <2>2, FunctionIsSeq
<1>9. \A i \in 1 .. m : q[i] = B(i)
      BY <1>5
<1>10. ASSUME NEW i \in 1 .. m, q[i].ckpt PROVE q[i].prev \in LogCheckpoints \cup {e}
  <2>1. CASE i = 1
    <3>1. q[i].prev = e
          BY <1>6, <1>7, <1>9, <2>1
    <3> QED  BY <3>1
  <2>2. CASE i # 1
    <3>1. i \in 2 .. m /\ i - 1 \in 1 .. Len(a)
          BY <1>4, <1>7, <2>2
    <3>2. q[i].prev = a[i - 1].epoch
          BY <1>6, <1>7, <1>9, <3>1
    <3>3. a[i - 1].ckpt
          BY <1>6, <1>7, <1>9, <1>10, <3>1, Zenon
    <3>4. PICK x \in 1 .. Len(log) : a[i - 1] = log[x]
          BY <1>2, <3>1
    <3> QED  BY <3>2, <3>3, <3>4 DEF LogCheckpoints
  <2> QED  BY <2>1, <2>2
<1>11. ASSUME OldestStart # dbCommitted, e # dbCommitted
       PROVE  \E i \in 2 .. m : q[i].ckpt /\ q[i].prev = dbCommitted
  <2>1. Len(a) \in 1 .. Len(a) /\ a[Len(a)].epoch = dbCommitted /\ a[Len(a)].ckpt
        BY <1>1, <1>11, LogAfterEnds
  <2>2. m \in 2 .. m /\ m \in 1 .. m /\ m - 1 = Len(a)
        BY <1>2, <1>3, <2>1
  <2>3. q[m].prev = dbCommitted
        BY <1>6, <1>7, <1>9, <2>1, <2>2
  <2>4. k(m)
        BY <1>7, <2>1, <2>2, Zenon
  <2>5. q[m].ckpt
        BY <1>6, <1>9, <2>2, <2>4, Zenon
  <2> QED  BY <2>2, <2>3, <2>5
<1> QED  BY <1>8, <1>10, <1>11

\* The barriers a recovered job starts with.
LEMMA RecoveredPend ==
  ASSUME NEW j, NEW n, catSnap[j] \in Nat, NEW q, q = ResolveFrom(StartEpoch(j), n)
  PROVE  RecoveredJob(j, n).pend = IF jobCommitted[j] < catSnap[j] THEN q ELSE Tail(q)
<1>1. PICK v, c : v = catSnap[j] /\ c = jobCommitted[j] /\ v \in Nat
      OBVIOUS
<1>2. PICK x : x = [NoJob EXCEPT !.ctl = "running", !.ready = TRUE, !.snap = catSnap[j]]
      OBVIOUS
<1>3. PICK r : r = NoJob /\ r \in JobRecords
      BY NoJobFields
<1>4. PICK t \in BOOLEAN : t = TRUE
      OBVIOUS
<1>5. x = Rec("running", t, r.phase, v, r.fake, r.pend, r.inLog, r.logDone, r.finishAt,
              r.graph)
      BY <1>1, <1>2, <1>3, <1>4, RecoverFields, Zenon
<1>6. x \in JobRecords
      BY <1>1, <1>3, <1>5 DEF JobRecords, Rec
<1>7. CASE c < v
  <2>1. RecoveredJob(j, n) = [x EXCEPT !.fake = c + 1, !.pend = q]
        BY <1>1, <1>2, <1>7, Zenon DEF RecoveredJob, RecoverConsumingSnapshot
  <2>2. [x EXCEPT !.fake = c + 1, !.pend = q]
          = Rec(x.ctl, x.ready, x.phase, x.snap, c + 1, q, x.inLog, x.logDone, x.finishAt,
                x.graph)
        BY <1>6, RecoverFakeFields, Zenon
  <2>3. PICK y : y = RecoveredJob(j, n)
        OBVIOUS
  <2>4. y = Rec(x.ctl, x.ready, x.phase, x.snap, c + 1, q, x.inLog, x.logDone, x.finishAt,
                x.graph)
        BY <2>1, <2>2, <2>3, Zenon
  <2>5. y.pend = q
        BY <2>4 DEF Rec
  <2> QED  BY <1>1, <1>7, <2>3, <2>5
<1>8. CASE ~(c < v)
  <2>1. PICK w : w = Tail(q)
        OBVIOUS
  <2>2. RecoveredJob(j, n) = [x EXCEPT !.phase = "log", !.pend = w]
        BY <1>1, <1>2, <1>8, <2>1, Zenon DEF RecoveredJob, RecoverConsumingLogStore
  <2>3. [x EXCEPT !.phase = "log", !.pend = w]
          = Rec(x.ctl, x.ready, "log", x.snap, x.fake, w, x.inLog, x.logDone, x.finishAt,
                x.graph)
        BY <1>6, ToLogFields, Zenon
  <2>4. PICK y : y = RecoveredJob(j, n)
        OBVIOUS
  <2>5. y = Rec(x.ctl, x.ready, "log", x.snap, x.fake, w, x.inLog, x.logDone, x.finishAt,
                x.graph)
        BY <2>2, <2>3, <2>4, Zenon
  <2>6. y.pend = w
        BY <2>5 DEF Rec
  <2> QED  BY <1>1, <1>8, <2>1, <2>4, <2>6
<1> QED  BY <1>7, <1>8

\* With one job, the log it recovers from starts where the job stands.
LEMMA OneJobStart ==
  ASSUME \A i, k \in Jobs : i = k, TypeInv, NEW j \in Jobs, catalog[j] = "creating"
  PROVE  /\ StartEpoch(j) = Begun(jobCommitted[j], catSnap[j]) /\ StartEpoch(j) \in Nat
         /\ CreatingJobs = {j} /\ OldestStart = StartEpoch(j)
         /\ jobCommitted[j] \in Int /\ catSnap[j] \in Nat
<1>1. jobCommitted[j] \in Int /\ catSnap[j] \in Nat
      BY DEF TypeInv, None
<1>2. StartEpoch(j) = Begun(jobCommitted[j], catSnap[j])
      BY <1>1, MaxOfTwo DEF StartEpoch, Begun
<1>3. StartEpoch(j) \in Nat
      BY <1>1, <1>2 DEF Begun
<1>4. CreatingJobs = {j}
      BY DEF CreatingJobs
<1>5. PICK t \in Nat : t = StartEpoch(j)
      BY <1>3
<1>6. {StartEpoch(i) : i \in CreatingJobs} = {t}
      BY <1>4, <1>5
<1>7. Min({t}) = t
  <2>1. {t} \in SUBSET Nat /\ {t} # {}
        OBVIOUS
  <2>2. Min({t}) \in {t}
        BY <2>1, MinIsLeast
  <2> QED  BY <2>2
<1>8. OldestStart = t
      BY <1>6, <1>7, Zenon DEF OldestStart
<1> QED  BY <1>1, <1>2, <1>3, <1>4, <1>5, <1>8

\* Recovery gives a job the checkpoints it finds in the log.
LEMMA RecoverLogged ==
  ASSUME \A i, k \in Jobs : i = k, Inv, Inv', LogInv, LogShape', Recover
  PROVE  LogInv'
<1>1. PICK n, O : n = nextEpoch + 1 /\ O = CreatingJobs \ CaughtUpJobs
      OBVIOUS
<1>2. /\ ~up /\ db' = db /\ task' = task /\ dbCommitted' = dbCommitted
      /\ jobCommitted' = jobCommitted /\ catSnap' = catSnap
      /\ log' = log /\ truncInfo' = truncInfo
      /\ dbJobs' = CaughtUpJobs \cup {j \in Jobs : catalog[j] = "created"}
      BY <1>1, Zenon DEF Recover
<1>3. TypeInv /\ MemoryInv /\ DbInv /\ PersistedInv /\ Resolvable
      BY DEF Inv, CCInv, EpochInv, Recover
<1>4. db = EmptyGraph /\ task = NoTask
      BY <1>2, <1>3 DEF MemoryInv
<1>5. /\ DbPending = {} /\ DbPending' = {}
      /\ task'.step = "none" /\ task'.db = {} /\ task'.jobs = {}
      BY <1>2, <1>4, EmptyGraphFinite, NoTaskFields DEF DbPending
<1>6. /\ CommitEpochs' = {} /\ DbCheckpoints' = {} /\ (\A j : TakenBy(j)' = {})
      /\ LogCheckpoints' = LogCheckpoints
      BY <1>2, <1>5 DEF CommitEpochs, DbCheckpoints, TakenBy, LogCheckpoints
<1>7. \A j \in Jobs : catalog'[j] = "creating" => catalog[j] = "creating"
      BY DEF Recover, CleanedCatalog
<1>9. ASSUME NEW j \in Jobs, j \in O PROVE Running(j)' /\ JobLogged(j)'
  <2>1. PICK s : s = job'[j]
        OBVIOUS
  <2>2. s = RecoveredJob(j, n)
        BY <1>1, <1>9, <2>1, Zenon DEF Recover
  <2>3. Recovered(s, catSnap[j], jobCommitted[j], n)
        BY <1>1, <1>3, <1>9, <2>2, BehindRecovers
  <2>4. catalog[j] = "creating" /\ jobCommitted[j] # dbCommitted
        BY <1>1, <1>9 DEF CreatingJobs, CaughtUpJobs
  <2>5. PICK c, v, b : c = jobCommitted[j] /\ v = catSnap[j] /\ b = StartEpoch(j)
        OBVIOUS
  <2>6. /\ b = Begun(c, v) /\ b \in Nat /\ OldestStart = b
        /\ c \in Int /\ v \in Nat
        BY <1>3, <2>4, <2>5, OneJobStart
  <2>7. b <= dbCommitted /\ b \in LogCheckpoints
        BY <2>4, <2>5, <2>6 DEF LogInv, JobState, Found
  <2>8. dbCommitted \in Nat /\ dbCommitted >= v /\ b >= v
        BY <1>3, <2>6, <2>7 DEF TypeInv, Begun
  <2>9. PICK q : q = ResolveFrom(b, n)
        OBVIOUS
  <2>10. /\ \A i \in 1 .. Len(q) : q[i].ckpt => q[i].prev \in LogCheckpoints
         /\ b # dbCommitted => \E i \in 2 .. Len(q) : q[i].ckpt /\ q[i].prev = dbCommitted
    <3>1. LogRising(log) /\ EndsAtCommitted
          BY <1>3 DEF LogRising, TypeInv, PersistedInv, LogInv, LogShape
    <3> QED  BY <2>6, <2>7, <2>9, <3>1, ResolvedCheckpoints
  <2>11. s.pend = IF c < v THEN q ELSE Tail(q)
        BY <2>2, <2>5, <2>6, <2>9, RecoveredPend
  <2>12. /\ s.ctl = "running" /\ s.snap = v /\ s.phase # "finishing" /\ s.graph = EmptyGraph
         /\ s.pend \in Seq(JobBarriers)
        BY <2>3, <2>5 DEF Recovered, JobRecords
  <2>13. QueueFrom(q, b, n)
    <3>1. n \in Nat /\ b < n
          BY <1>1, <1>3, <2>6, <2>7, <2>8 DEF TypeInv, DbInv
    <3>2. \A i \in 1 .. Len(log) : log[i].epoch < n
      <4> TAKE i \in 1 .. Len(log)
      <4>1. log[i] \in LogRecords /\ log[i].epoch <= dbCommitted
            BY <1>3 DEF TypeInv, PersistedInv
      <4>2. log[i].epoch \in Nat
            BY <4>1 DEF LogRecords
      <4> QED  BY <1>1, <1>3, <2>8, <4>1, <4>2 DEF TypeInv, DbInv
    <3>3. LogRising(log)
          BY <1>3 DEF LogRising, TypeInv, PersistedInv
    <3> QED  BY <2>6, <2>7, <2>9, <3>1, <3>2, <3>3, ResolveIs
  <2>14. q \in Seq(JobBarriers) /\ Len(q) >= 1 /\ Len(q) \in Nat
        BY <2>13 DEF QueueFrom
  <2>15. /\ \A i \in 1 .. Len(s.pend) : \E k \in 1 .. Len(q) : s.pend[i] = q[k]
         /\ \A k \in 2 .. Len(q) : \E i \in 1 .. Len(s.pend) : s.pend[i] = q[k]
    <3>1. CASE c < v
      <4>1. s.pend = q
            BY <2>11, <3>1
      <4>2. \A k \in 2 .. Len(q) : k \in 1 .. Len(q)
            BY <2>14
      <4> QED  BY <4>1, <4>2
    <3>2. CASE ~(c < v)
      <4>1. PICK w : w = Tail(q)
            OBVIOUS
      <4>2. /\ Len(w) = Len(q) - 1
            /\ \A i \in 1 .. Len(w) : i + 1 \in 1 .. Len(q) /\ w[i] = q[i + 1]
        <5>1. q # <<>>
              BY <2>14
        <5> QED  BY <2>14, <4>1, <5>1
      <4>3. \A k \in 2 .. Len(q) : k - 1 \in 1 .. Len(w) /\ (k - 1) + 1 = k
            BY <2>14, <4>2
      <4>4. \A k \in 2 .. Len(q) : w[k - 1] = q[k]
            BY <4>2, <4>3
      <4>5. s.pend = w
            BY <2>11, <3>2, <4>1
      <4> QED  BY <4>2, <4>3, <4>4, <4>5
    <3> QED  BY <3>1, <3>2
  <2>16. \A x : x \in Held(s) <=> \E i \in 1 .. Len(s.pend) : x = s.pend[i]
        BY <2>12, EmptyGraphFinite DEF Held, Outstanding
  <2>17. PICK K : K = JobCheckpoints(s)
        OBVIOUS
  <2>18. K \subseteq LogCheckpoints
    <3> SUFFICES ASSUME NEW e \in K PROVE e \in LogCheckpoints
        OBVIOUS
    <3>1. PICK x \in Held(s) : x.ckpt /\ x.prev = e
          BY <2>17 DEF JobCheckpoints
    <3> QED  BY <2>10, <2>15, <2>16, <3>1
  <2>19. b # dbCommitted => dbCommitted \in K
    <3> SUFFICES ASSUME b # dbCommitted PROVE dbCommitted \in K
        OBVIOUS
    <3>1. PICK i \in 2 .. Len(q) : q[i].ckpt /\ q[i].prev = dbCommitted
          BY <2>10
    <3>2. q[i] \in Held(s)
          BY <2>15, <2>16
    <3> QED  BY <2>8, <2>12, <2>17, <3>1, <3>2 DEF JobCheckpoints
  <2>20. Logged(K, b, v, {}, LogCheckpoints, dbCommitted, {}, {})
        BY <2>7, <2>8, <2>18 DEF Logged
  <2>21. Follows(K, b, {}, {dbCommitted} \cup {} \cup {}, s.phase = "finishing", s.finishAt)
        BY <2>6, <2>8, <2>19 DEF Follows
  <2>22. Attended(j)'
    <3>1. ~(dbCommitted' < job'[j].snap) /\ job'[j].phase # "finishing"
          BY <1>2, <2>1, <2>6, <2>8, <2>12
    <3> QED  BY <1>6, <3>1 DEF Attended
  <2>23. K = JobCheckpoints(job'[j]) /\ v = job'[j].snap /\ b = Begun(jobCommitted'[j], job'[j].snap)
        BY <1>2, <2>1, <2>5, <2>6, <2>12, <2>17
  <2> QED  BY <1>2, <1>6, <2>1, <2>12, <2>20, <2>21, <2>22, <2>23 DEF JobLogged, Running
<1>10. ASSUME NEW j \in Jobs, j \notin O PROVE ~Running(j)'
  <2>1. job'[j] = NoJob
        BY <1>1, <1>10, Zenon DEF Recover
  <2> QED  BY <2>1, NoJobFields DEF Running
<1>11. ASSUME NEW j \in Jobs PROVE JobState(j)'
  <2>1. Running(j)' => JobLogged(j)'
        BY <1>9, <1>10
  <2>2. catalog'[j] = "creating" => Found(j)'
        BY <1>2, <1>6, <1>7 DEF LogInv, JobState, Found
  <2>3. ASSUME catalog'[j] = "creating", ~Running(j)' PROVE InDatabase(j)'
    <3>1. j \in CaughtUpJobs
          BY <1>1, <1>7, <1>9, <2>3 DEF CreatingJobs
    <3> QED  BY <1>2, <1>5, <3>1 DEF InDatabase
  <2> QED  BY <2>1, <2>2, <2>3 DEF JobState
<1> QED  BY <1>11 DEF LogInv

\* The log's own part holds with any number of jobs.
LEMMA ShapeNext == Inv /\ Inv' /\ LogShape /\ [Next]_vars => LogShape'
<1> SUFFICES ASSUME Inv, Inv', LogShape, [Next]_vars PROVE LogShape'
    OBVIOUS
<1> USE DEF LogShape, EndsAtCommitted, EpochsEndAtBarrier, TaskCommitted, TruncationKnows
<1>1. ASSUME RecordsSame PROVE LogShape'
      BY <1>1 DEF RecordsSame, DbPending, persisted
<1>2. CASE UNCHANGED vars
      BY <1>2 DEF vars, memory, persisted, DbPending
<1>3. ASSUME BarrierInjected PROVE LogShape'
  <2>1. PICK ck \in BOOLEAN, M \in SUBSET Jobs, N \in SUBSET Jobs, D \in SUBSET Jobs,
             P \in SUBSET pendSubs : \E b, W : NewBarrier(b, ck, M, N, D, P, W)
        BY <1>3, Zenon DEF BarrierInjected
  <2>2. PICK b, W : NewBarrier(b, ck, M, N, D, P, W)
        BY <2>1
  <2>3. /\ task' = task /\ dbCommitted' = dbCommitted /\ log' = log /\ catSnap' = catSnap
        /\ truncInfo' = truncInfo /\ InjectDb(ck, TableIdsToCommit(M))
        BY <2>2 DEF NewBarrier
  <2>4. PICK nb : /\ Len(nb.eps) > 0 /\ nb.eps[Len(nb.eps)] = nb.prev
                  /\ DbPending' = DbPending \cup {nb}
        BY <2>3, InjectedBarrier
  <2> QED  BY <2>3, <2>4
<1>4. ASSUME NEW j \in Jobs, DropInCatalog(j) PROVE LogShape'
      BY <1>4 DEF DropInCatalog, DbPending
<1>5. CASE DbCollect
  <2>1. /\ db' = CollectFirst(db) /\ db.inflight # {} /\ task' = task
        /\ UNCHANGED persisted /\ truncInfo' = truncInfo
        BY <1>5 DEF DbCollect
  <2>2. DbPending' = DbPending
    <3>1. \A x \in DbBarriers : x.prev \in Nat
          BY DEF DbBarriers
    <3>2. db \in Graphs(DbBarriers) /\ GraphOrder(db)
          BY DEF Inv, CCInv, EpochInv, TypeInv, DbInv
    <3> QED  BY <2>1, <3>1, <3>2, CollectGraph DEF DbPending
  <2> QED  BY <2>1, <2>2 DEF persisted
<1>6. ASSUME NEW more \in SUBSET Jobs, StartTask(more) PROVE LogShape'
  <2>1. PICK C : C = CheckpointOf(DbPopped)
        OBVIOUS
  <2>2. task'.step \in {"none", "commit"} /\ task'.db = C
        BY <1>6, <2>1, StartedTask
  <2>3. /\ log' = log /\ dbCommitted' = dbCommitted /\ catSnap' = catSnap /\ truncInfo' = truncInfo
        BY <1>6 DEF StartTask, persisted
  <2>4. DbPending' \subseteq DbPending
        BY <1>6, PendingStarts
  <2>5. C \subseteq DbPending
        BY <2>1, DbPoppedIs DEF DbPending, CheckpointOf
  <2> QED  BY <2>2, <2>3, <2>4, <2>5
<1>7. CASE TaskCommit
  <2>1. /\ DbPending' = DbPending /\ catSnap' = catSnap /\ truncInfo' = truncInfo
        /\ task.step = "commit" /\ task' = [task EXCEPT !.step = "post"]
        BY <1>7 DEF TaskCommit, DbPending
  <2>2. task'.step = "post" /\ task'.db = task.db
        BY <2>1 DEF Inv, CCInv, TypeInv, Tasks
  <2>3. EndsAtCommitted' /\ (task.db # {} => \A b \in task.db : b.prev = dbCommitted')
        BY <1>7, CommitCheckpoints
  <2> QED  BY <2>1, <2>2, <2>3
<1>8. CASE TaskPostCollect
  <2>1. /\ DbPending' = DbPending /\ truncInfo' = truncInfo /\ log' = log
        /\ dbCommitted' = dbCommitted
        /\ task.step = "post" /\ task' = [task EXCEPT !.step = "finish"]
        /\ \A j \in Jobs : catSnap'[j] = IF j \in NewlyCreating THEN job[j].snap ELSE catSnap[j]
        BY <1>8 DEF TaskPostCollect, DbPending
  <2>2. task'.step = "finish" /\ task'.db = task.db
        BY <2>1 DEF Inv, CCInv, TypeInv, Tasks
  <2>3. TruncationKnows'
    <3> SUFFICES ASSUME NEW j \in truncInfo PROVE catSnap'[j] # None
        BY <2>1
    <3>1. j \in Jobs /\ catSnap[j] # None
          BY DEF Inv, CCInv, TypeInv
    <3>2. job[j].snap \in Nat
          BY <3>1 DEF Inv, CCInv, TypeInv, JobRecords
    <3> QED  BY <2>1, <3>1, <3>2 DEF None
  <2> QED  BY <2>1, <2>2, <2>3
<1>9. CASE TaskFinishJobs
  <2>1. /\ DbPending' = DbPending /\ truncInfo' = truncInfo /\ log' = log /\ catSnap' = catSnap
        /\ dbCommitted' = dbCommitted
        /\ task.step = "finish" /\ task' = [task EXCEPT !.step = "ack"]
        BY <1>9 DEF TaskFinishJobs, DbPending
  <2>2. task'.step = "ack" /\ task'.db = task.db
        BY <2>1 DEF Inv, CCInv, TypeInv, Tasks
  <2> QED  BY <2>1, <2>2
<1>10. CASE TaskAck
  <2>1. /\ truncInfo' = truncInfo /\ log' = log /\ catSnap' = catSnap /\ dbCommitted' = dbCommitted
        /\ task' = NoTask /\ db' = [db EXCEPT !.completing = {}]
        BY <1>10 DEF TaskAck, persisted
  <2>2. DbPending' = DbPending
        BY <2>1 DEF DbPending, Inv, CCInv, TypeInv, Graphs
  <2> QED  BY <2>1, <2>2, NoTaskFields
<1>11. CASE TruncateFetch
      BY <1>11 DEF TruncateFetch, memory, persisted, DbPending, Inv, CCInv, TypeInv, None
<1>12. CASE TruncateApply
  <2>1. /\ task' = task /\ DbPending' = DbPending /\ dbCommitted' = dbCommitted
        /\ catSnap' = catSnap /\ truncInfo' = {} /\ truncInfo # {}
        /\ log' = TruncatedLog \/ log' = log
        BY <1>12 DEF TruncateApply, memory, DbPending
  <2>2. PICK t \in Nat : t = TruncateEpoch
        BY <2>1, TruncateEpochIs
  <2>3. log' = TruncatedLog => (log' # <<>> => log # <<>> /\ log'[Len(log')] = log[Len(log)])
        BY <2>2, TruncatedFrom
  <2> QED  BY <2>1, <2>3
<1>13. CASE Crash \/ TaskFails
  <2>1. /\ db' = EmptyGraph /\ task' = NoTask /\ truncInfo' = {} /\ log' = log
        /\ dbCommitted' = dbCommitted
        BY <1>13 DEF Crash, TaskFails, LoseMemory, persisted
  <2>2. DbPending' = {} /\ task'.db = {} /\ task'.step = "none"
        BY <2>1, EmptyGraphFinite, NoTaskFields DEF DbPending
  <2> QED  BY <2>1, <2>2
<1>14. CASE Recover
      BY <1>14 DEF Recover, DbPending
<1> HIDE DEF LogShape
<1>15. ASSUME NEW j \in Jobs,
              \/ CreateJob(j) \/ DropInCatalog(j) \/ DropIndependently(j) \/ JobReset(j)
              \/ DropInDatabase(j) \/ JobCollect(j) \/ JobFinishesNode(j)
              \/ JobFinishesSnapshot(j) \/ JobFinishesLogStore(j)
       PROVE  LogShape'
  <2>1. CASE CreateJob(j) \/ DropInDatabase(j)
        BY <1>3, <2>1, CreateJobInjects, DropInDatabaseInjects
  <2>2. CASE DropIndependently(j) \/ JobReset(j)
        BY <1>1, <2>2, StopSame
  <2>3. CASE JobCollect(j) \/ JobFinishesNode(j)
        BY <1>1, <2>3, CollectSame
  <2>4. CASE JobFinishesSnapshot(j)
        BY <1>1, <2>4, FinishesSnapshotSame
  <2>5. CASE JobFinishesLogStore(j)
        BY <1>1, <2>5, FinishesLogStoreSame
  <2> QED  BY <1>4, <1>15, <2>1, <2>2, <2>3, <2>4, <2>5
<1>16. ASSUME NEW ck \in BOOLEAN, PeriodicBarrier(ck) PROVE LogShape'
      BY <1>3, <1>16, PeriodicInjects
<1>17. ASSUME NEW S \in Commands, NEW mutates \in BOOLEAN, OtherCommand(S, mutates) PROVE LogShape'
      BY <1>3, <1>17, OtherCommandInjects
<1> QED  BY <1>2, <1>5, <1>6, <1>7, <1>8, <1>9, <1>10, <1>11, <1>12, <1>13, <1>14, <1>15, <1>16,
            <1>17 DEF Next

LEMMA LogNext ==
  ASSUME \A i, k \in Jobs : i = k
  PROVE  Inv /\ Inv' /\ LogInv /\ WaitedFor /\ [Next]_vars => LogInv'
<1> SUFFICES ASSUME Inv, Inv', LogInv, WaitedFor, [Next]_vars PROVE LogInv'
    OBVIOUS
<1>0. LogShape'
      BY ShapeNext DEF LogInv
<1> USE <1>0
<1>1. CASE UNCHANGED vars
  <2>1. /\ UNCHANGED <<db, task, dbJobs, persisted, up>> /\ truncInfo' = truncInfo /\ job' = job
        BY <1>1 DEF vars, memory
  <2>2. \A j \in Jobs : SameForLog(job[j], job'[j]) /\ (Running(j)' <=> Running(j))
        BY <2>1, SameRecord DEF Running
  <2>3. job' \in [Jobs -> JobRecords]
        BY DEF Inv, CCInv, TypeInv
  <2>4. RecordsSame
        BY <2>1, <2>2, <2>3 DEF RecordsSame
  <2> QED  BY <2>4, RecordsChange
<1>2. CASE Next
  <2>1. ASSUME NEW ck \in BOOLEAN, PeriodicBarrier(ck) PROVE LogInv'
        BY <2>1, PeriodicInjects, NewBarrierLogged
  <2>13. ASSUME NEW S \in Commands, NEW mutates \in BOOLEAN, OtherCommand(S, mutates)
         PROVE  LogInv'
        BY <2>13, OtherCommandInjects, NewBarrierLogged
  <2>2. ASSUME NEW j \in Jobs,
               \/ CreateJob(j) \/ DropInCatalog(j) \/ DropIndependently(j) \/ JobReset(j)
               \/ DropInDatabase(j) \/ JobCollect(j) \/ JobFinishesNode(j)
               \/ JobFinishesSnapshot(j) \/ JobFinishesLogStore(j)
        PROVE  LogInv'
    <3>1. CASE CreateJob(j)
          BY <3>1, CreateJobInjects, NewBarrierLogged
    <3>2. CASE DropInCatalog(j)
          BY <3>2, DropInCatalogLogged
    <3>3. CASE DropIndependently(j) \/ JobReset(j)
          BY <3>3, StopSame, RecordsChange
    <3>4. CASE DropInDatabase(j)
          BY <3>4, DropInDatabaseInjects, NewBarrierLogged
    <3>5. CASE JobCollect(j) \/ JobFinishesNode(j)
          BY <3>5, CollectSame, RecordsChange
    <3>6. CASE JobFinishesSnapshot(j)
          BY <3>6, FinishesSnapshotSame, RecordsChange
    <3>7. CASE JobFinishesLogStore(j)
          BY <3>7, FinishesLogStoreSame, RecordsChange
    <3> QED  BY <2>2, <3>1, <3>2, <3>3, <3>4, <3>5, <3>6, <3>7
  <2>3. CASE DbCollect
        BY <2>3, DbCollectLogged
  <2>4. ASSUME NEW more \in SUBSET Jobs, StartTask(more) PROVE LogInv'
        BY <2>4, StartLogged
  <2>5. CASE TaskCommit
        BY <2>5, CommitLogged
  <2>6. CASE TaskPostCollect
        BY <2>6, PostCollectLogged
  <2>7. CASE TaskFinishJobs
        BY <2>7, FinishJobsLogged
  <2>8. CASE TaskAck
        BY <2>8, AckLogged
  <2>9. CASE TruncateFetch
        BY <2>9, FetchLogged
  <2>10. CASE TruncateApply
        BY <2>10, ApplyLogged
  <2>11. CASE Crash \/ TaskFails
        BY <2>11, LoseMemoryLogged DEF Crash, TaskFails
  <2>12. CASE Recover
        BY <2>12, RecoverLogged
  <2> QED  BY <1>2, <2>1, <2>2, <2>3, <2>4, <2>5, <2>6, <2>7, <2>8, <2>9, <2>10, <2>11, <2>12, <2>13
           DEF Next
<1> QED  BY <1>1, <1>2

\* With one job over T, what the job has reached and all it has to complete is
\* in the change log of T, under commit or pending, through the completing task,
\* the truncation loop, drops, failures and recoveries
\* (next_complete_barrier_task, collect_commit_epoch_info, TableChangeLog::truncate,
\* resolve_upstream_log_epochs).
THEOREM OneJobLogged ==
  ASSUME \A i, k \in Jobs : i = k
  PROVE  Spec => [](LogInv /\ WaitedFor)
<1>1. Init => LogInv /\ WaitedFor
  <2>1. Init => WaitedFor
        BY DEF Init, WaitedFor
  <2> QED  BY <2>1, InitLogged
<1>2. Inv /\ Inv' /\ LogInv /\ WaitedFor /\ [Next]_vars => (LogInv /\ WaitedFor)'
      BY LogNext, WaitedNext
<1> QED  BY <1>1, <1>2, CheckpointInvariant, PTL DEF Spec

\* With one job over T, recovery can resolve the persisted state whenever a
\* failure strikes: the job is not ahead of T, and the change log of T reaches
\* back to where the job stands (the assertions of resolve_hummock_version_epochs
\* and resolve_upstream_log_epochs).
THEOREM OneJobRecoverable ==
  ASSUME \A i, k \in Jobs : i = k
  PROVE  Spec => []RecoverableAtAnyTime
<1>1. ASSUME Inv, LogInv PROVE RecoverableAtAnyTime
  <2> SUFFICES ASSUME NEW j \in CreatingJobs PROVE RecoverableAtAnyTime
      BY DEF RecoverableAtAnyTime, Resolvable
  <2>1. j \in Jobs /\ catalog[j] = "creating" /\ TypeInv
        BY <1>1 DEF CreatingJobs, Inv, CCInv
  <2>2. /\ StartEpoch(j) = Begun(jobCommitted[j], catSnap[j]) /\ StartEpoch(j) \in Nat
        /\ CreatingJobs = {j} /\ OldestStart = StartEpoch(j)
        /\ jobCommitted[j] \in Int /\ catSnap[j] \in Nat
        BY <2>1, OneJobStart
  <2>3. /\ StartEpoch(j) <= dbCommitted
        /\ jobCommitted[j] = dbCommitted \/ StartEpoch(j) \in LogCheckpoints
        BY <1>1, <2>1, <2>2 DEF LogInv, JobState, Found
  <2>4. dbCommitted \in Nat
        BY <2>1 DEF TypeInv
  <2>5. jobCommitted[j] = dbCommitted => ~(StartEpoch(j) < dbCommitted)
        BY <2>2, <2>4 DEF Begun
  <2> QED  BY <2>2, <2>3, <2>5 DEF RecoverableAtAnyTime, Resolvable
<1> QED  BY <1>1, OneJobLogged, CheckpointInvariant, PTL

------------------------------------------------------------------------------
(* Any number of jobs: what the truncation loop has to know.               *)

\* Where a checkpoint of T is to be found.
Somewhere == LogCheckpoints \cup CommitEpochs \cup DbCheckpoints

\* The checkpoints a job reads from the log are there or will be, and no commit
\* that drops the log reaches them.
AfterSnap(r) == {e \in JobCheckpoints(r) : e > r.snap}
LogKept(j) ==
  /\ AfterSnap(job[j]) \subseteq Somewhere
  /\ ~task.log => \A e \in CommitEpochs : e < job[j].snap
KeptInv == \A j \in Jobs : Running(j) => LogKept(j)

\* When the loop truncates, the jobs it has read are all that run.
TruncationSeesJobs == TruncateApply => \A j \in Jobs : Running(j) => j \in truncInfo

\* No job gets a checkpoint, and none is lost to T.
LEMMA KeptSame ==
  ASSUME KeptInv, Somewhere \subseteq Somewhere',
         CommitEpochs' = {} \/ (task' = task /\ CommitEpochs' = CommitEpochs),
         \A j \in Jobs : Running(j)' =>
           /\ Running(j) /\ job'[j].snap = job[j].snap
           /\ JobCheckpoints(job'[j]) \subseteq JobCheckpoints(job[j])
  PROVE  KeptInv'
<1> SUFFICES ASSUME NEW j \in Jobs, Running(j)' PROVE LogKept(j)'
    BY DEF KeptInv
<1>1. LogKept(j) /\ job'[j].snap = job[j].snap
      BY DEF KeptInv
<1>2. AfterSnap(job'[j]) \subseteq AfterSnap(job[j])
      BY <1>1 DEF AfterSnap
<1> QED  BY <1>1, <1>2 DEF LogKept

LEMMA RecordsKept == ASSUME KeptInv, RecordsSame PROVE KeptInv'
<1>1. UNCHANGED <<db, task, persisted>>
      BY DEF RecordsSame
<1>2. Somewhere' = Somewhere /\ CommitEpochs' = CommitEpochs /\ task' = task
      BY <1>1 DEF Somewhere, LogCheckpoints, CommitEpochs, DbCheckpoints, DbPending, persisted
<1>3. \A j \in Jobs : Running(j)' =>
        /\ Running(j) /\ job'[j].snap = job[j].snap
        /\ JobCheckpoints(job'[j]) \subseteq JobCheckpoints(job[j])
      BY DEF RecordsSame, SameForLog
<1> QED  BY <1>2, <1>3, KeptSame

\* The steps that leave every job's record as it is.
LEMMA JobsUnchangedKept ==
  ASSUME KeptInv, job' = job, Somewhere \subseteq Somewhere',
         CommitEpochs' = {} \/ (task' = task /\ CommitEpochs' = CommitEpochs)
  PROVE  KeptInv'
<1>1. \A j \in Jobs : Running(j)' =>
        /\ Running(j) /\ job'[j].snap = job[j].snap
        /\ JobCheckpoints(job'[j]) \subseteq JobCheckpoints(job[j])
      BY DEF Running
<1> QED  BY <1>1, KeptSame

LEMMA StartKept ==
  ASSUME Inv, KeptInv, NEW more \in SUBSET Jobs, StartTask(more)
  PROVE  KeptInv'
<1>1. PICK C : C = CheckpointOf(DbPopped)
      OBVIOUS
<1>2. /\ task = NoTask /\ CommitEpochs' = {b.prev : b \in C}
      /\ \A j \in Jobs : Running(j) /\ j \notin FinishingNow /\ ~task'.log => task'.step = "none"
      BY <1>1, StartedTask
<1>3. CommitEpochs = {}
      BY <1>2, NoTaskFields DEF CommitEpochs
<1>4. LogCheckpoints' = LogCheckpoints
      BY DEF StartTask, persisted, LogCheckpoints
<1>5. DbPending' = DbPending \ DbPopped
      BY PendingStarts
<1>6. Somewhere \subseteq Somewhere'
  <2>1. \A x : x \in C <=> x \in DbPopped /\ x.ckpt
        BY <1>1 DEF CheckpointOf
  <2>2. \A e : e \in DbCheckpoints <=> \E c \in DbPending : c.ckpt /\ e = c.prev
        BY DEF DbCheckpoints
  <2>3. \A e : e \in DbCheckpoints' <=> \E c \in DbPending \ DbPopped : c.ckpt /\ e = c.prev
        BY <1>5 DEF DbCheckpoints
  <2>4. \A e : e \in CommitEpochs' <=> \E c \in C : e = c.prev
        BY <1>2
  <2>5. DbCheckpoints \subseteq DbCheckpoints' \cup CommitEpochs'
        BY <2>1, <2>2, <2>3, <2>4
  <2> QED  BY <1>3, <1>4, <2>5 DEF Somewhere
<1>7. ASSUME NEW j \in Jobs, Running(j)' PROVE LogKept(j)'
  <2>1. j \notin FinishingNow
    <3> SUFFICES ASSUME j \in FinishingNow PROVE FALSE
        OBVIOUS
    <3>1. job'[j] = NoJob
          BY Zenon DEF StartTask
    <3> QED  BY <1>7, <3>1, NoJobFields DEF Running
  <2>2. PICK r, s, Y : /\ r = job[j] /\ s = job'[j]
                       /\ Y = {e \in Nat : <<j, e>> \in TakenEpochs /\ e >= r.snap}
        OBVIOUS
  <2>3. s.ctl = r.ctl /\ s.snap = r.snap
        BY <2>1, <2>2, StartedJob
  <2>4. Running(j)
        BY <1>7, <2>2, <2>3 DEF Running
  <2>5. JobCheckpoints(r) = JobCheckpoints(s) \cup Y
        BY <2>1, <2>2, <2>4, StartedCheckpoints
  <2>6. AfterSnap(s) \subseteq AfterSnap(r)
        BY <2>3, <2>5 DEF AfterSnap
  <2>7. AfterSnap(r) \subseteq Somewhere
        BY <2>2, <2>4 DEF KeptInv, LogKept
  <2>8. ~task'.log => CommitEpochs' = {}
        BY <1>2, <2>1, <2>4 DEF CommitEpochs
  <2> QED  BY <1>6, <2>2, <2>6, <2>7, <2>8 DEF LogKept
<1> QED  BY <1>7 DEF KeptInv

LEMMA CommitKept ==
  ASSUME Inv, LogShape, KeptInv, TaskCommit
  PROVE  KeptInv'
<1>1. job' = job /\ DbCheckpoints' = DbCheckpoints /\ CommitEpochs' = {}
  <2>1. task' = [task EXCEPT !.step = "post"] /\ db' = db /\ job' = job
        BY DEF TaskCommit
  <2>2. task'.step = "post"
        BY <2>1 DEF Inv, CCInv, TypeInv, Tasks
  <2> QED  BY <2>1, <2>2 DEF DbCheckpoints, DbPending, CommitEpochs
<1>2. CASE task.db = {} \/ task.log
  <2>1. Somewhere \subseteq Somewhere'
    <3>1. LogCheckpoints \cup CommitEpochs \subseteq LogCheckpoints'
          BY <1>2, CommitCheckpoints
    <3> QED  BY <1>1, <3>1 DEF Somewhere
  <2> QED  BY <1>1, <2>1, JobsUnchangedKept
<1>3. CASE task.db # {} /\ ~task.log
  <2> SUFFICES ASSUME NEW j \in Jobs, Running(j)' PROVE LogKept(j)'
      BY DEF KeptInv
  <2>1. PICK r : r = job[j] /\ r = job'[j]
        BY <1>1
  <2>2. Running(j) /\ LogKept(j) /\ r.snap \in Nat
        BY <1>1, <2>1, JobEpochs DEF Running, KeptInv
  <2>3. /\ dbCommitted \in Nat /\ \A e \in LogCheckpoints : e \in Nat /\ e <= dbCommitted
        /\ \A e \in CommitEpochs : e \in Nat /\ dbCommitted < e
        BY CheckpointOrder
  <2>4. CommitEpochs # {} /\ \A e \in CommitEpochs : e < r.snap
        BY <1>3, <2>1, <2>2, CommitCheckpoints DEF LogKept
  <2>5. \A e \in LogCheckpoints \cup CommitEpochs : ~(e > r.snap)
        BY <2>2, <2>3, <2>4
  <2>6. AfterSnap(r) \subseteq Somewhere /\ \A e \in AfterSnap(r) : e > r.snap
        BY <2>1, <2>2 DEF LogKept, AfterSnap
  <2>7. AfterSnap(r) \subseteq DbCheckpoints
        BY <2>5, <2>6 DEF Somewhere
  <2> QED  BY <1>1, <2>1, <2>7 DEF LogKept, Somewhere
<1> QED  BY <1>2, <1>3

\* The later steps of the task.
LEMMA TaskKept ==
  ASSUME Inv, KeptInv, TaskPostCollect \/ TaskFinishJobs \/ TaskAck
  PROVE  KeptInv'
<1>1. LogCheckpoints' = LogCheckpoints
  <2>1. log' = log
        BY DEF TaskPostCollect, TaskFinishJobs, TaskAck, persisted
  <2> QED  BY <2>1 DEF LogCheckpoints
<1>2. DbCheckpoints' = DbCheckpoints
      BY DEF TaskPostCollect, TaskFinishJobs, TaskAck, DbCheckpoints, DbPending, Inv, CCInv,
             TypeInv, Graphs
<1>3. CommitEpochs = {}
      BY DEF TaskPostCollect, TaskFinishJobs, TaskAck, CommitEpochs
<1>4. task'.step # "commit"
      BY NoTaskFields DEF TaskPostCollect, TaskFinishJobs, TaskAck, Inv, CCInv, TypeInv, Tasks
<1>5. CommitEpochs' = {} /\ Somewhere' = Somewhere
      BY <1>1, <1>2, <1>3, <1>4 DEF CommitEpochs, Somewhere
<1>6. \A j \in Jobs : Running(j)' =>
        /\ Running(j) /\ job'[j].snap = job[j].snap
        /\ JobCheckpoints(job'[j]) \subseteq JobCheckpoints(job[j])
  <2>1. CASE TaskPostCollect \/ TaskFinishJobs
        BY <2>1 DEF TaskPostCollect, TaskFinishJobs, Running
  <2>2. CASE TaskAck
    <3> TAKE j \in Jobs
    <3>1. PICK r, s : r = job[j] /\ s = job'[j]
          OBVIOUS
    <3>2. s.ctl = r.ctl /\ s.snap = r.snap /\ Outstanding(s) = Outstanding(r) /\ s.pend = r.pend
          BY <2>2, <3>1, AckRecord
    <3>3. JobCheckpoints(s) = JobCheckpoints(r)
          BY <3>2 DEF JobCheckpoints, Held
    <3> QED  BY <3>1, <3>2, <3>3 DEF Running
  <2> QED  BY <2>1, <2>2
<1> QED  BY <1>5, <1>6, KeptSame

\* Truncation drops nothing that a job it has read still needs.
LEMMA ApplyKept ==
  ASSUME Inv, LogShape, KeptInv, TruncateApply, TruncationSeesJobs
  PROVE  KeptInv'
<1>1. /\ job' = job /\ db' = db /\ task' = task /\ truncInfo # {}
      /\ log' = TruncatedLog \/ log' = log
      BY DEF TruncateApply, memory
<1>2. DbCheckpoints' = DbCheckpoints /\ CommitEpochs' = CommitEpochs
      BY <1>1 DEF DbCheckpoints, DbPending, CommitEpochs
<1>3. CASE log' = log
  <2>1. Somewhere' = Somewhere
        BY <1>2, <1>3 DEF Somewhere, LogCheckpoints
  <2> QED  BY <1>1, <1>2, <2>1, JobsUnchangedKept
<1>4. CASE log' = TruncatedLog
  <2>1. /\ TruncateEpoch \in Nat
        /\ \A x \in truncInfo : TruncateEpoch <= Begun(jobCommitted[x], catSnap[x])
        BY <1>1, TruncateEpochIs DEF LogShape
  <2>2. PICK t \in Nat : t = TruncateEpoch
        BY <2>1
  <2>3. \A e \in LogCheckpoints : e >= t => e \in LogCheckpoints'
        BY <1>4, <2>2, TruncatedFrom
  <2> SUFFICES ASSUME NEW j \in Jobs, Running(j)' PROVE LogKept(j)'
      BY DEF KeptInv
  <2>4. Running(j)
        BY <1>1 DEF Running
  <2>5. LogKept(j) /\ j \in truncInfo
        BY <2>4 DEF KeptInv, TruncationSeesJobs
  <2>6. PICK r : r = job[j] /\ r = job'[j]
        BY <1>1
  <2>7. /\ r.snap \in Nat /\ jobCommitted[j] \in Int /\ catSnap[j] \in {None, r.snap}
        /\ \A e \in JobCheckpoints(r) : e \in Nat /\ e > jobCommitted[j]
        BY <2>4, <2>6, JobEpochs
  <2>8. catSnap[j] = r.snap
        BY <2>5, <2>7 DEF LogShape, TruncationKnows
  <2>9. t <= Begun(jobCommitted[j], r.snap)
        BY <2>1, <2>2, <2>5, <2>8
  <2>10. \A e \in AfterSnap(r) : e >= t
        BY <2>7, <2>9 DEF AfterSnap, Begun
  <2>11. AfterSnap(r) \subseteq Somewhere
        BY <2>5, <2>6 DEF LogKept
  <2>12. AfterSnap(r) \subseteq Somewhere'
        BY <1>2, <2>3, <2>10, <2>11 DEF Somewhere
  <2> QED  BY <1>1, <1>2, <2>5, <2>6, <2>12 DEF LogKept
<1> QED  BY <1>1, <1>3, <1>4

LEMMA NewBarrierKept ==
  ASSUME Inv, KeptInv, BarrierInjected
  PROVE  KeptInv'
<1>1. PICK ck \in BOOLEAN, M \in SUBSET Jobs, N \in SUBSET Jobs, D \in SUBSET Jobs,
           P \in SUBSET pendSubs : (N # {} => ck = TRUE) /\ \E b, W : NewBarrier(b, ck, M, N, D, P, W)
      BY Zenon DEF BarrierInjected
<1>2. PICK b, W : NewBarrier(b, ck, M, N, D, P, W)
      BY <1>1
<1>3. task' = task /\ log' = log /\ InjectDb(ck, TableIdsToCommit(M))
      BY <1>2 DEF NewBarrier
<1>4. PICK nb : /\ nb.prev = nextEpoch /\ nb.ckpt = ck /\ DbPending' = DbPending \cup {nb}
      BY <1>3, InjectedBarrier
<1>5. CommitEpochs' = CommitEpochs
      BY <1>3 DEF CommitEpochs
<1> SUFFICES ASSUME NEW j \in Jobs, Running(j)' PROVE LogKept(j)'
    BY DEF KeptInv
<1>60. PICK n \in Nat : n = nextEpoch
      BY DEF Inv, CCInv, TypeInv
<1>6. PICK X, r, s : /\ n = nextEpoch /\ X = Point(ck, n) /\ r = job[j] /\ s = job'[j]
      BY <1>60
<1>7. CASE j \in N
  <2>1. ck = TRUE /\ NewBarrier(b, TRUE, M, N, D, P, W)
        BY <1>1, <1>2, <1>7
  <2>2. BarrierCreates(j, s, n)
        BY <1>6, <1>7, <2>1, NewBarrierNewRecord
  <2>3. s.snap = n /\ JobCheckpoints(s) = {n}
        BY <2>2 DEF BarrierCreates
  <2>4. AfterSnap(s) = {}
        BY <2>3 DEF AfterSnap
  <2>5. \A e \in CommitEpochs : e < n
    <3>1. task.step = "commit" => \A c \in task.db : c.prev \in Nat /\ c.prev < n
          BY <1>6, TypeFacts DEF Inv, CCInv, EpochInv, TaskInv
    <3> QED  BY <3>1 DEF CommitEpochs
  <2> QED  BY <1>5, <1>6, <2>3, <2>4, <2>5 DEF LogKept
<1>8. CASE j \notin N /\ Running(j)
  <2>1. BarrierReaches(r, s, X, j \in M, n)
        BY <1>2, <1>4, <1>6, <1>8, NewBarrierRecord
  <2>2. /\ DbCheckpoints' = DbCheckpoints \cup X /\ LogCheckpoints' = LogCheckpoints
        /\ s.snap = r.snap /\ JobCheckpoints(s) \subseteq JobCheckpoints(r) \cup X
        BY <2>1 DEF BarrierReaches
  <2>3. AfterSnap(s) \subseteq AfterSnap(r) \cup X
        BY <2>2 DEF AfterSnap
  <2>4. LogKept(j)
        BY <1>8 DEF KeptInv
  <2>5. AfterSnap(s) \subseteq Somewhere'
        BY <1>5, <1>6, <2>2, <2>3, <2>4 DEF LogKept, Somewhere
  <2> QED  BY <1>3, <1>5, <1>6, <2>2, <2>4, <2>5 DEF LogKept
<1>9. CASE j \notin N /\ ~Running(j)
      BY <1>2, <1>9, NewBarrierOther
<1> QED  BY <1>7, <1>8, <1>9

\* What a recovered job has to read is in the log.
LEMMA RecoverKept ==
  ASSUME Inv, LogShape, Recover
  PROVE  KeptInv'
<1>1. PICK n, O : n = nextEpoch + 1 /\ O = CreatingJobs \ CaughtUpJobs
      OBVIOUS
<1>2. ~up /\ db' = db /\ task' = task /\ log' = log
      BY <1>1, Zenon DEF Recover
<1>3. TypeInv /\ MemoryInv /\ DbInv /\ PersistedInv /\ Resolvable /\ EndsAtCommitted
      BY DEF Inv, CCInv, EpochInv, Recover, LogShape
<1>4. CommitEpochs' = {} /\ LogCheckpoints' = LogCheckpoints
  <2>1. task = NoTask
        BY <1>2, <1>3 DEF MemoryInv
  <2> QED  BY <1>2, <2>1, NoTaskFields DEF CommitEpochs, LogCheckpoints
<1> SUFFICES ASSUME NEW j \in Jobs, Running(j)' PROVE LogKept(j)'
    BY DEF KeptInv
<1>5. j \in O
  <2> SUFFICES ASSUME j \notin O PROVE FALSE
      OBVIOUS
  <2>1. job'[j] = NoJob
        BY <1>1, Zenon DEF Recover
  <2> QED  BY <2>1, NoJobFields DEF Running
<1>6. PICK s : s = job'[j] /\ s = RecoveredJob(j, n)
      BY <1>1, <1>5, Zenon DEF Recover
<1>7. Recovered(s, catSnap[j], jobCommitted[j], n)
      BY <1>1, <1>3, <1>5, <1>6, BehindRecovers
<1>8. PICK c, v, b : c = jobCommitted[j] /\ v = catSnap[j] /\ b = StartEpoch(j)
      OBVIOUS
<1>9. /\ j \in CreatingJobs /\ catalog[j] = "creating" /\ c # dbCommitted
      BY <1>1, <1>5, <1>8 DEF CreatingJobs, CaughtUpJobs
<1>10. c \in Int /\ v \in Nat /\ dbCommitted \in Nat /\ nextEpoch \in Nat
      BY <1>3, <1>8, <1>9 DEF TypeInv, None
<1>11. b = Begun(c, v) /\ b \in Nat
  <2>1. b = Max({c, v})
        BY <1>8 DEF StartEpoch
  <2>2. Max({c, v}) = Begun(c, v)
        BY <1>10, MaxOfTwo DEF Begun
  <2> QED  BY <1>10, <2>1, <2>2 DEF Begun
<1>12. /\ OldestStart # dbCommitted => b \in LogCheckpoints
       /\ OldestStart = dbCommitted => b = v
  <2>1. IF OldestStart = dbCommitted THEN b = dbCommitted ELSE b \in LogCheckpoints
        BY <1>3, <1>8, <1>9 DEF Resolvable
  <2> QED  BY <1>9, <1>11, <2>1 DEF Begun
<1>13. PICK q : q = ResolveFrom(b, n)
      OBVIOUS
<1>14. LogRising(log)
      BY <1>3 DEF LogRising, TypeInv, PersistedInv
<1>15. \A i \in 1 .. Len(q) : q[i].ckpt => q[i].prev \in LogCheckpoints \cup {b}
      BY <1>3, <1>11, <1>12, <1>13, <1>14, ResolvedCheckpoints
<1>16. \A i \in 1 .. Len(q) : q[i].ckpt /\ q[i].prev > v => q[i].prev \in LogCheckpoints
      BY <1>10, <1>12, <1>15
<1>17. QueueFrom(q, b, n)
  <2>1. /\ jobCommitted[j] < nextEpoch /\ catSnap[j] < nextEpoch /\ dbCommitted < nextEpoch
        BY <1>3, <1>9 DEF PersistedInv, DbInv
  <2>2. n \in Nat /\ b < n /\ dbCommitted < n
        BY <1>1, <1>8, <1>10, <1>11, <2>1 DEF Begun
  <2>3. \A i \in 1 .. Len(log) : log[i].epoch < n
    <3> TAKE i \in 1 .. Len(log)
    <3>1. log[i] \in LogRecords /\ log[i].epoch <= dbCommitted
          BY <1>3 DEF TypeInv, PersistedInv
    <3>2. log[i].epoch \in Nat
          BY <3>1 DEF LogRecords
    <3> QED  BY <1>10, <2>2, <3>1, <3>2
  <2> QED  BY <1>11, <1>12, <1>13, <1>14, <2>2, <2>3, ResolveIs
<1>18. q \in Seq(JobBarriers) /\ Len(q) >= 1 /\ Len(q) \in Nat
      BY <1>17 DEF QueueFrom
<1>19. s.pend = IF c < v THEN q ELSE Tail(q)
      BY <1>6, <1>8, <1>10, <1>13, RecoveredPend
<1>20. \A i \in 1 .. Len(s.pend) : \E k \in 1 .. Len(q) : s.pend[i] = q[k]
  <2>1. CASE c < v
        BY <1>19, <2>1
  <2>2. CASE ~(c < v)
    <3>1. PICK w : w = Tail(q)
          OBVIOUS
    <3>2. \A i \in 1 .. Len(w) : i + 1 \in 1 .. Len(q) /\ w[i] = q[i + 1]
      <4>1. q # <<>>
            BY <1>18
      <4> QED  BY <1>18, <3>1, <4>1
    <3> QED  BY <1>19, <2>2, <3>1, <3>2
  <2> QED  BY <2>1, <2>2
<1>21. s.snap = v /\ s.graph = EmptyGraph
      BY <1>7, <1>8 DEF Recovered
<1>22. \A x \in Held(s) : \E i \in 1 .. Len(s.pend) : x = s.pend[i]
      BY <1>21, EmptyGraphFinite DEF Held, Outstanding
<1>23. AfterSnap(s) \subseteq LogCheckpoints
  <2> SUFFICES ASSUME NEW e \in AfterSnap(s) PROVE e \in LogCheckpoints
      OBVIOUS
  <2>1. PICK x \in Held(s) : x.ckpt /\ x.prev = e /\ e > v
        BY <1>21 DEF AfterSnap, JobCheckpoints
  <2>2. PICK k \in 1 .. Len(q) : x = q[k]
        BY <1>20, <1>22
  <2> QED  BY <1>16, <2>1, <2>2
<1> QED  BY <1>4, <1>6, <1>23 DEF LogKept, Somewhere

LEMMA KeptNext ==
  Inv /\ Inv' /\ LogShape /\ KeptInv /\ [Next]_vars /\ [TruncationSeesJobs]_vars => KeptInv'
<1> SUFFICES ASSUME Inv, Inv', LogShape, KeptInv, [Next]_vars, [TruncationSeesJobs]_vars
             PROVE  KeptInv'
    OBVIOUS
<1>1. ASSUME job' = job, db' = db, task' = task, log' = log PROVE KeptInv'
  <2>1. Somewhere' = Somewhere /\ CommitEpochs' = CommitEpochs
        BY <1>1 DEF Somewhere, LogCheckpoints, CommitEpochs, DbCheckpoints, DbPending
  <2> QED  BY <1>1, <2>1, JobsUnchangedKept
<1>2. CASE UNCHANGED vars
      BY <1>1, <1>2 DEF vars, memory, persisted
<1>3. ASSUME NEW ck \in BOOLEAN, PeriodicBarrier(ck) PROVE KeptInv'
      BY <1>3, PeriodicInjects, NewBarrierKept
<1>4. ASSUME NEW S \in Commands, NEW mutates \in BOOLEAN, OtherCommand(S, mutates) PROVE KeptInv'
      BY <1>4, OtherCommandInjects, NewBarrierKept
<1>5. ASSUME NEW j \in Jobs,
             \/ CreateJob(j) \/ DropInCatalog(j) \/ DropIndependently(j) \/ JobReset(j)
             \/ DropInDatabase(j) \/ JobCollect(j) \/ JobFinishesNode(j)
             \/ JobFinishesSnapshot(j) \/ JobFinishesLogStore(j)
      PROVE  KeptInv'
  <2>1. CASE CreateJob(j) \/ DropInDatabase(j)
        BY <2>1, CreateJobInjects, DropInDatabaseInjects, NewBarrierKept
  <2>2. CASE DropInCatalog(j)
        BY <1>1, <2>2 DEF DropInCatalog
  <2>3. CASE DropIndependently(j) \/ JobReset(j)
        BY <2>3, StopSame, RecordsKept
  <2>4. CASE JobCollect(j) \/ JobFinishesNode(j)
        BY <2>4, CollectSame, RecordsKept
  <2>5. CASE JobFinishesSnapshot(j)
        BY <2>5, FinishesSnapshotSame, RecordsKept
  <2>6. CASE JobFinishesLogStore(j)
        BY <2>6, FinishesLogStoreSame, RecordsKept
  <2> QED  BY <1>5, <2>1, <2>2, <2>3, <2>4, <2>5, <2>6
<1>6. CASE DbCollect
  <2>1. /\ db' = CollectFirst(db) /\ db.inflight # {} /\ task' = task /\ job' = job /\ log' = log
        BY <1>6 DEF DbCollect, persisted
  <2>2. DbPending' = DbPending
    <3>1. \A x \in DbBarriers : x.prev \in Nat
          BY DEF DbBarriers
    <3>2. db \in Graphs(DbBarriers) /\ GraphOrder(db)
          BY DEF Inv, CCInv, EpochInv, TypeInv, DbInv
    <3> QED  BY <2>1, <3>1, <3>2, CollectGraph DEF DbPending
  <2>3. Somewhere' = Somewhere /\ CommitEpochs' = CommitEpochs
        BY <2>1, <2>2 DEF Somewhere, LogCheckpoints, CommitEpochs, DbCheckpoints
  <2> QED  BY <2>1, <2>3, JobsUnchangedKept
<1>7. ASSUME NEW more \in SUBSET Jobs, StartTask(more) PROVE KeptInv'
      BY <1>7, StartKept
<1>8. CASE TaskCommit
      BY <1>8, CommitKept
<1>9. CASE TaskPostCollect \/ TaskFinishJobs \/ TaskAck
      BY <1>9, TaskKept
<1>10. CASE TruncateFetch
      BY <1>1, <1>10 DEF TruncateFetch, memory, persisted
<1>11. CASE TruncateApply
  <2>1. TruncationSeesJobs
    <3>1. ~UNCHANGED vars
          BY <1>11 DEF TruncateApply, vars
    <3> QED  BY <3>1
  <2> QED  BY <1>11, <2>1, ApplyKept
<1>12. CASE Crash \/ TaskFails
  <2>1. \A j \in Jobs : job'[j] = NoJob
        BY <1>12 DEF Crash, TaskFails, LoseMemory
  <2> QED  BY <2>1, NoJobFields DEF KeptInv, Running
<1>13. CASE Recover
      BY <1>13, RecoverKept
<1> QED  BY <1>2, <1>3, <1>4, <1>5, <1>6, <1>7, <1>8, <1>9, <1>10, <1>11, <1>12, <1>13 DEF Next

\* If the truncation loop has read every running job when it truncates, every
\* checkpoint a job has yet to read is in the change log of T, with any number of
\* jobs, through commits that drop the log, merges, drops, failures and recoveries
\* (collect_commit_epoch_info, TableChangeLog::truncate, resolve_upstream_log_epochs).
\* The list of get_table_change_log_truncate_info, which leaves Initial jobs out, is
\* the only way the log can be lost.
THEOREM NeededLogKept == Spec /\ [][TruncationSeesJobs]_vars => []NeededLogPresent
<1>1. ASSUME Inv, KeptInv PROVE NeededLogPresent
  <2> SUFFICES ASSUME NEW j \in Jobs, Running(j),
                      NEW b \in job[j].graph.inflight \cup ToSet(job[j].pend),
                      b.ckpt, job[j].snap < b.prev, b.prev <= dbCommitted
               PROVE  b.prev \in LogCheckpoints
      BY DEF NeededLogPresent
  <2>1. PICK r : r = job[j]
        OBVIOUS
  <2>2. r \in JobRecords /\ r.pend \in Seq(JobBarriers) /\ r.snap \in Nat
        BY <1>1, <2>1 DEF Inv, CCInv, TypeInv, JobRecords
  <2>3. ToSet(r.pend) = {r.pend[i] : i \in 1 .. Len(r.pend)}
        BY <2>2 DEF ToSet
  <2>4. b \in Held(r)
        BY <2>1, <2>3 DEF Held, Outstanding
  <2>5. b.prev \in Nat
        BY <1>1, <2>1, <2>4, JobEpochs
  <2>6. b.prev \in AfterSnap(r)
        BY <2>1, <2>2, <2>4, <2>5 DEF AfterSnap, JobCheckpoints
  <2>7. AfterSnap(r) \subseteq LogCheckpoints \cup CommitEpochs \cup DbCheckpoints
        BY <1>1, <2>1 DEF KeptInv, LogKept, Somewhere
  <2>8. \A e \in CommitEpochs \cup DbCheckpoints : e \in Nat /\ dbCommitted < e
        BY <1>1, CheckpointOrder
  <2>9. dbCommitted \in Nat
        BY <1>1, CheckpointOrder
  <2> QED  BY <2>5, <2>6, <2>7, <2>8, <2>9
<1>2. Init => LogShape /\ KeptInv
  <2>1. Init => \A j \in Jobs : ~Running(j)
        BY NoJobFields DEF Init, Running
  <2> QED  BY <2>1, InitLogged DEF LogInv, KeptInv
<1>3. Inv /\ Inv' /\ LogShape /\ KeptInv /\ [Next]_vars /\ [TruncationSeesJobs]_vars
        => LogShape' /\ KeptInv'
      BY KeptNext, ShapeNext
<1> QED  BY <1>1, <1>2, <1>3, CheckpointInvariant, PTL DEF Spec

\* With one job over T the loop cannot miss it: every checkpoint the job has yet
\* to read is in the change log of T, whatever the loop does meanwhile
\* (truncate_table_change_log).
COROLLARY OneJobNeededLog ==
  ASSUME \A i, k \in Jobs : i = k
  PROVE  Spec => []NeededLogPresent
<1>1. Inv /\ [Next]_vars => [TruncationSeesJobs]_vars
  <2> SUFFICES ASSUME Inv, TruncateApply, NEW j \in Jobs PROVE j \in truncInfo
      BY DEF TruncationSeesJobs
  <2>1. truncInfo # {} /\ truncInfo \subseteq Jobs
        BY DEF TruncateApply, Inv, CCInv, TypeInv
  <2> QED  BY <2>1
<1> QED  BY <1>1, NeededLogKept, CheckpointInvariant, PTL DEF Spec

=============================================================================
