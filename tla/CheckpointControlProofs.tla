---------------------- MODULE CheckpointControlProofs ----------------------
(***************************************************************************)
(* Checkpoints of a database for any set of creating jobs, any number of   *)
(* barriers, failures and drops: no job is lost between its owners, a      *)
(* merge is atomic, no epoch is committed twice, and no subscriber leaks.  *)
(***************************************************************************)
EXTENDS CheckpointControl, FiniteSetTheorems, WellFoundedInduction, TLAPS

------------------------------------------------------------------------------
(* The inductive invariant. *)

JobBarriers == [prev : Nat, curr : Nat, ckpt : BOOLEAN]
DbBarriers == [prev : Nat, curr : Nat, ckpt : BOOLEAN, eps : Seq(Nat), tabs : SUBSET Jobs]
Graphs(B) == [inflight : SUBSET B, collected : SUBSET B, completing : SUBSET Nat]
JobRecords ==
  [ctl : {"none", "running", "resetting"}, ready : BOOLEAN,
   phase : {"snapshot", "log", "finishing"}, snap : Nat, fake : Nat,
   pend : Seq(JobBarriers), inLog : BOOLEAN, logDone : BOOLEAN, finishAt : Nat,
   graph : Graphs(JobBarriers)]
Tasks ==
  [step : {"none", "commit", "post", "finish", "ack"}, db : SUBSET DbBarriers,
   jobs : SUBSET (Jobs \X Nat), fin : SUBSET Jobs, log : BOOLEAN]

LogRecords == [epoch : Nat, ckpt : BOOLEAN]

FiniteGraph(g) ==
  IsFiniteSet(g.inflight) /\ IsFiniteSet(g.collected) /\ IsFiniteSet(g.completing)

TypeInv ==
  /\ up \in BOOLEAN
  /\ nextEpoch \in Nat
  /\ nonCkpt \in Seq(Nat)
  /\ db \in Graphs(DbBarriers)
  /\ job \in [Jobs -> JobRecords]
  /\ \A j \in Jobs : FiniteGraph(job[j].graph)
  /\ dbJobs \subseteq Jobs /\ dbCreating \subseteq dbJobs
  /\ subs \subseteq Jobs /\ pendSubs \subseteq Jobs
  /\ finWait \subseteq Nat \X Jobs /\ finGot \subseteq Nat \X Jobs
  /\ task \in Tasks
  /\ dropReq \subseteq Jobs
  /\ truncInfo \subseteq Jobs
  /\ dbCommitted \in Nat
  /\ jobCommitted \in [Jobs -> Nat \cup {None}]
  /\ catalog \in [Jobs -> {"none", "initial", "creating", "created", "dropped"}]
  /\ catSnap \in [Jobs -> Nat \cup {None}]
  /\ \A j \in Jobs : catalog[j] = "creating" => catSnap[j] \in Nat
  /\ log \in Seq(LogRecords)
  /\ crashes \in Nat

\* Nothing is in memory while the database is down, and the task is absent
\* exactly when it has no step left.
MemoryInv ==
  /\ ~up =>
       /\ job = [j \in Jobs |-> NoJob] /\ db = EmptyGraph /\ nonCkpt = <<>>
       /\ dbJobs = {} /\ subs = {} /\ pendSubs = {} /\ finWait = {} /\ finGot = {}
       /\ task = NoTask /\ dropReq = {}
  /\ task.step = "none" => task = NoTask

\* Exactly the jobs with a control that has not merged subscribe, and those
\* whose subscription the next barrier takes away.
Subscribes(r) == r.ctl = "resetting" \/ (r.ctl = "running" /\ r.phase # "finishing")
SubsInv ==
  \A j \in Jobs :
    /\ j \in subs <=> (Subscribes(job[j]) \/ j \in pendSubs)
    /\ j \in pendSubs => job[j].ctl = "none"

DbPending == db.inflight \cup db.collected

\* What the catalog says of a job's traces in memory.
CatalogInv ==
  /\ \A j \in dropReq : catalog[j] = "dropped"
  /\ \A j \in Jobs : catalog[j] = "none" =>
       /\ job[j].ctl = "none" /\ j \notin dbJobs /\ j \notin pendSubs
       /\ \A b \in DbPending \cup task.db : j \notin b.tabs
       /\ \A p \in task.jobs : p[1] # j

\* A running job whose tables the database commits has merged, at a barrier
\* not later than those that commit them, and is still waited for.
MergedAt(j, epoch) ==
  /\ job[j].phase = "finishing"
  /\ <<job[j].finishAt, j>> \in finWait
  /\ job[j].finishAt <= epoch
MergeInv ==
  \A j \in Jobs : Running(j) =>
    /\ job[j].phase = "finishing" => <<job[j].finishAt, j>> \in finWait
    /\ j \in dbJobs => MergedAt(j, nextEpoch)
    /\ \A b \in DbPending : j \in b.tabs => MergedAt(j, b.prev)
    /\ task.step = "commit" => \A b \in task.db : j \notin b.tabs

\* The first barrier of a new job has not been committed, or is under commit.
FirstBarrier == Barrier(0, 1, TRUE)
InitialInv ==
  \A j \in Jobs : up /\ catalog[j] = "initial" =>
    /\ Running(j)
    /\ \/ FirstBarrier \in job[j].graph.inflight \cup job[j].graph.collected
       \/ <<j, 0>> \in task.jobs /\ task.step \in {"commit", "post"}

FinishedInv == task.step = "ack" => \A j \in task.fin : catalog[j] # "creating"
------------------------------------------------------------------------------
(* Epochs. *)

\* A graph collects in the order of its barriers, whose prev epochs differ.
GraphOrder(g) ==
  /\ \A b \in g.collected, c \in g.inflight : b.prev < c.prev
  /\ \A b, c \in g.collected : b.prev = c.prev => b = c
  /\ \A b, c \in g.inflight : b.prev = c.prev => b = c

\* Every epoch in the hands of a job is older than n.
JobBounds(r, n) ==
  /\ r.snap < n /\ r.fake < n
  /\ \A b \in Outstanding(r) : b.prev < n
  /\ \A i \in 1 .. Len(r.pend) : r.pend[i].prev < n

\* An epoch of a job is one of its n - Base fake ones, or not before its snapshot.
JobEpoch(r, e, n) == e <= n - Base \/ e >= r.snap

\* What is queued comes after what is in the graph.
JobOrder(r, n) ==
  /\ GraphOrder(r.graph)
  /\ \A b \in Outstanding(r), i \in 1 .. Len(r.pend) : b.prev < r.pend[i].prev
  /\ \A i, k \in 1 .. Len(r.pend) : i < k => r.pend[i].prev < r.pend[k].prev
  /\ r.snap >= Base
  /\ \A b \in Outstanding(r) : JobEpoch(r, b.prev, n)
  /\ \A i \in 1 .. Len(r.pend) : JobEpoch(r, r.pend[i].prev, n)
  /\ r.phase = "snapshot" =>
       /\ r.fake <= n - Base
       /\ \A b \in Outstanding(r) : b.prev < r.fake
       /\ \A i \in 1 .. Len(r.pend) : r.pend[i].prev >= r.snap
  /\ r.phase = "finishing" =>
       /\ r.pend = <<>>
       /\ r.finishAt > r.snap
       /\ \A b \in Outstanding(r) : b.prev <= r.finishAt

\* The barriers of a job are a chain up to the database's newest one.
JobChain(r, n) ==
  /\ \A b \in Outstanding(r) : b.prev < b.curr
  /\ \A i \in 1 .. Len(r.pend) : r.pend[i].prev < r.pend[i].curr
  /\ \A i \in 1 .. Len(r.pend) :
       r.pend[i].curr = IF i = Len(r.pend) THEN n ELSE r.pend[i + 1].prev
  /\ r.phase = "snapshot" =>
       r.pend # <<>> /\ r.pend[1].prev = r.snap /\ Chained(Outstanding(r), r.fake)
  /\ r.phase = "log" =>
       Chained(Outstanding(r), IF r.pend = <<>> THEN n ELSE r.pend[1].prev)
  /\ r.phase = "finishing" => Chained(Outstanding(r), r.finishAt + 1)

JobOk(r, n) == JobBounds(r, n) /\ JobOrder(r, n) /\ JobChain(r, n)

\* What the job has still to commit comes after epoch e.
JobAfter(r, e) ==
  /\ \A b \in Outstanding(r) : b.prev > e
  /\ \A i \in 1 .. Len(r.pend) : r.pend[i].prev > e
  /\ r.phase = "snapshot" => r.fake > e

\* The graph of a job holds at most its limit, the barrier that merges it, and
\* the ov mutation barriers it was sent although it was full.
JobRoom(r, ov) ==
  /\ ov \in Nat
  /\ Cardinality(r.graph.completing) <= 1
  /\ PendingNum(r.graph) <= MaxPending + 1 + ov
  /\ r.phase # "finishing" => PendingNum(r.graph) <= MaxPending + ov

JobsInv ==
  \A j \in Jobs :
    /\ JobRoom(job[j], over[j])
    /\ \A e \in job[j].graph.completing : <<j, e>> \in task.jobs
    /\ Running(j) =>
         /\ JobOk(job[j], nextEpoch)
         /\ JobAfter(job[j], jobCommitted[j])
         /\ JobEpoch(job[j], jobCommitted[j], nextEpoch)
         /\ catSnap[j] \in {None, job[j].snap}

Rising(s) == \A i, k \in 1 .. Len(s) : i < k => s[i] < s[k]

\* The barriers of the database are after its committed epoch and after those
\* of the tables they commit; their logs follow each other.
DbInv ==
  /\ nextEpoch > Base /\ nextEpoch <= Base + MaxEpoch
  /\ dbCommitted >= Base /\ dbCommitted < nextEpoch
  /\ GraphOrder(db)
  /\ Cardinality(db.completing) <= 1
  /\ Rising(nonCkpt)
  /\ \A i \in 1 .. Len(nonCkpt) : dbCommitted < nonCkpt[i] /\ nonCkpt[i] < nextEpoch
  /\ \A b \in DbPending :
       /\ dbCommitted < b.prev /\ b.prev < nextEpoch
       /\ Rising(b.eps)
       /\ \A i \in 1 .. Len(b.eps) : dbCommitted < b.eps[i] /\ b.eps[i] <= b.prev
       /\ \A j \in b.tabs : jobCommitted[j] < b.prev
       /\ \A j \in b.tabs : catalog[j] = "creating" => catSnap[j] <= b.prev
       /\ dbCreating \subseteq b.tabs
       /\ b.ckpt => \A i \in 1 .. Len(nonCkpt) : b.prev < nonCkpt[i]
       /\ b.ckpt => \A c \in DbPending : b.prev < c.prev =>
                      \A i \in 1 .. Len(c.eps) : b.prev < c.eps[i]
  /\ \A w \in finWait \cup finGot :
       /\ w[1] < nextEpoch
       /\ \A b \in DbPending : b.prev = w[1] => w[2] \in b.tabs

\* What the task commits comes before all that is left.
TaskInv ==
  /\ \A p, q \in task.jobs : p[1] = q[1] => p[2] = q[2]
  /\ \A p \in task.jobs : p[2] < nextEpoch
  /\ \A j \in task.fin : task.step \in {"post", "finish"} => jobCommitted[j] = dbCommitted
  /\ task.step = "commit" =>
       /\ \A p \in task.jobs :
            /\ jobCommitted[p[1]] < p[2]
            /\ catalog[p[1]] = "creating" =>
                 JobEpoch([snap |-> catSnap[p[1]]], p[2], nextEpoch)
            /\ Running(p[1]) => /\ JobAfter(job[p[1]], p[2])
                                /\ JobEpoch(job[p[1]], p[2], nextEpoch)
            /\ \A b \in DbPending : p[1] \in b.tabs => p[2] < b.prev
       /\ \A b, c \in task.db : b.prev = c.prev
       /\ task.fin # {} => task.db # {}
       /\ \A b \in task.db :
            /\ dbCommitted < b.prev /\ b.prev < nextEpoch
            /\ Rising(b.eps)
            /\ \A i \in 1 .. Len(b.eps) : dbCommitted < b.eps[i] /\ b.eps[i] <= b.prev
            /\ \A j \in b.tabs : jobCommitted[j] < b.prev
            /\ \A j \in b.tabs : catalog[j] = "creating" => catSnap[j] <= b.prev
            /\ task.fin \subseteq b.tabs
            /\ \A i \in 1 .. Len(nonCkpt) : b.prev < nonCkpt[i]
            /\ \A c \in DbPending :
                 b.prev < c.prev /\ \A i \in 1 .. Len(c.eps) : b.prev < c.eps[i]

\* The persisted epochs.
PersistedInv ==
  /\ \A i \in 1 .. Len(log) : log[i].epoch <= dbCommitted
  /\ \A i, k \in 1 .. Len(log) : i < k => log[i].epoch < log[k].epoch
  /\ \A j \in Jobs :
       /\ jobCommitted[j] < nextEpoch /\ catSnap[j] < nextEpoch
       /\ catalog[j] = "none" => jobCommitted[j] = None
       /\ catalog[j] \in {"none", "initial"} => catSnap[j] = None
       /\ catalog[j] = "creating" =>
            /\ catSnap[j] >= Base
            /\ jobCommitted[j] < catSnap[j] => jobCommitted[j] <= nextEpoch - Base

CCInv ==
  /\ TypeInv /\ MemoryInv /\ SubsInv /\ CatalogInv /\ MergeInv /\ InitialInv
  /\ FinishedInv /\ NoJobForgotten
EpochInv == JobsInv /\ DbInv /\ TaskInv /\ PersistedInv
Inv == CCInv /\ EpochInv

------------------------------------------------------------------------------
(* Least elements. *)

\* A nonempty set of numbers has a least one, which Min is.
LEMMA MinIsLeast ==
  ASSUME NEW S \in SUBSET Nat, S # {}
  PROVE  Min(S) \in S /\ \A y \in S : Min(S) <= y
<1>1. PICK x \in S : \A y \in S : ~(<<y, x>> \in OpToRel(<, Nat))
      BY NatLessThanWellFounded, WFMin
<1>2. \A y \in S : x <= y
  <2> TAKE y \in S
  <2>1. x \in Nat /\ y \in Nat
        OBVIOUS
  <2>2. ~(y < x)
        BY <1>1, <2>1 DEF OpToRel
  <2> QED  BY <2>1, <2>2
<1> QED  BY <1>2 DEF Min

\* FirstOf is a barrier with the least prev epoch.
LEMMA FirstOfIsLeast ==
  ASSUME NEW S, S # {}, \A b \in S : b.prev \in Nat
  PROVE  FirstOf(S) \in S /\ \A c \in S : FirstOf(S).prev <= c.prev
<1> DEFINE T == {b.prev : b \in S}
<1>1. T \in SUBSET Nat /\ T # {}
      OBVIOUS
<1>2. Min(T) \in T /\ \A y \in T : Min(T) <= y
      BY <1>1, MinIsLeast
<1>3. PICK b \in S : b.prev = Min(T)
      BY <1>2
<1>4. \A c \in S : b.prev <= c.prev
      BY <1>2, <1>3
<1> QED  BY <1>4 DEF FirstOf

\* The larger and the smaller of two numbers.
LEMMA MaxOfTwo ==
  ASSUME NEW a \in Int, NEW b \in Int
  PROVE  Max({a, b}) = IF a >= b THEN a ELSE b
<1>1. CASE a >= b
      BY <1>1 DEF Max
<1>2. CASE ~(a >= b)
      BY <1>2 DEF Max
<1> QED  BY <1>1, <1>2

LEMMA MinOfTwo ==
  ASSUME NEW a \in Int, NEW b \in Int
  PROVE  Min({a, b}) = IF a <= b THEN a ELSE b
<1>1. CASE a <= b
      BY <1>1 DEF Min
<1>2. CASE ~(a <= b)
      BY <1>2 DEF Min
<1> QED  BY <1>1, <1>2

------------------------------------------------------------------------------
(* Graphs. *)

\* What is popped is a prefix of what is collected, up to one checkpoint.
LEMMA PoppedIsPrefix ==
  ASSUME NEW g, NEW bound \in Int, \A b \in g.collected : b.prev \in Nat,
         NEW P, P = PoppedFrom(g, bound)
  PROVE  /\ P \subseteq g.collected
         /\ \A b \in P : b.prev < bound
         /\ \A b, c \in CheckpointOf(P) : b.prev = c.prev
         /\ \A c \in P, b \in g.collected : b.prev <= c.prev => b \in P
         /\ \A c \in CheckpointOf(P), b \in g.collected : b \notin P => c.prev < b.prev
         /\ \A b \in g.collected : b.ckpt /\ b.prev < bound =>
              CheckpointOf(P) # {} /\ \A c \in P : c.prev <= b.prev
<1> DEFINE below == {b \in g.collected : b.prev < bound}
           ckpts == {b \in below : b.ckpt}
<1>1. CASE ckpts = {}
  <2>1. P = below
        BY <1>1 DEF PoppedFrom
  <2>2. CheckpointOf(P) = {}
        BY <1>1, <2>1 DEF CheckpointOf
  <2> QED  BY <1>1, <2>1, <2>2
<1>2. CASE ckpts # {}
  <2>1. \A b \in ckpts : b.prev \in Nat
        OBVIOUS
  <2>2. PICK f \in ckpts : f = FirstOf(ckpts) /\ \A c \in ckpts : f.prev <= c.prev
        BY <1>2, <2>1, FirstOfIsLeast
  <2>3. P = {b \in below : b.prev <= f.prev}
        BY <1>2, <2>2 DEF PoppedFrom
  <2>4. f \in CheckpointOf(P) /\ \A c \in CheckpointOf(P) : c \in ckpts /\ c.prev = f.prev
        BY <2>2, <2>3 DEF CheckpointOf
  <2>5. \A b \in P : b \in g.collected /\ b.prev < bound
        BY <2>3
  <2>6. \A b, c \in CheckpointOf(P) : b.prev = c.prev
        BY <2>4
  <2>7. \A c \in P, b \in g.collected : b.prev <= c.prev => b \in P
        BY <2>2, <2>3
  <2>8. \A c \in CheckpointOf(P), b \in g.collected : b \notin P => c.prev < b.prev
    <3> SUFFICES ASSUME NEW c \in CheckpointOf(P), NEW b \in g.collected, b \notin P
                 PROVE  c.prev < b.prev
        OBVIOUS
    <3>1. c.prev = f.prev /\ c \in below
          BY <2>4
    <3>2. ~(b.prev < bound) \/ ~(b.prev <= f.prev)
          BY <2>3
    <3>3. b.prev \in Nat /\ c.prev \in Nat /\ c.prev < bound
          BY <3>1
    <3> QED  BY <3>1, <3>2, <3>3
  <2>9. \A b \in g.collected : b.ckpt /\ b.prev < bound =>
          CheckpointOf(P) # {} /\ \A c \in P : c.prev <= b.prev
    <3> SUFFICES ASSUME NEW b \in g.collected, b.ckpt, b.prev < bound
                 PROVE  \A c \in P : c.prev <= b.prev
        BY <2>4
    <3>1. f.prev <= b.prev
          BY <2>2
    <3> QED  BY <2>2, <2>3, <3>1
  <2> QED  BY <2>5, <2>6, <2>7, <2>8, <2>9
<1> QED  BY <1>1, <1>2

\* The fields of a graph after each of its operations.
LEMMA StartCompletingFields ==
  ASSUME NEW B, NEW g \in Graphs(B), NEW bound
  PROVE  StartCompletingGraph(g, bound)
           = [inflight |-> g.inflight,
              collected |-> g.collected \ PoppedFrom(g, bound),
              completing |-> {b.prev : b \in CheckpointOf(PoppedFrom(g, bound))}]
<1> DEFINE P == PoppedFrom(g, bound)
           Q == {b.prev : b \in CheckpointOf(PoppedFrom(g, bound))}
<1> HIDE DEF P, Q
<1>1. PICK h : h = [g EXCEPT !.collected = g.collected \ P]
      OBVIOUS
<1>2. h = [inflight |-> g.inflight, collected |-> g.collected \ P,
           completing |-> g.completing]
      BY <1>1 DEF Graphs
<1>3. [h EXCEPT !.completing = Q]
        = [inflight |-> g.inflight, collected |-> g.collected \ P, completing |-> Q]
      BY <1>2
<1>4. [g EXCEPT !.collected = @ \ P, !.completing = Q] = [h EXCEPT !.completing = Q]
      BY <1>1, Zenon
<1>5. StartCompletingGraph(g, bound) = [g EXCEPT !.collected = @ \ P, !.completing = Q]
      BY Zenon DEF StartCompletingGraph, P, Q
<1> QED  BY <1>3, <1>4, <1>5, Zenon DEF P, Q

LEMMA CollectFirstFields ==
  ASSUME NEW B, NEW g \in Graphs(B)
  PROVE  CollectFirst(g)
           = [inflight |-> g.inflight \ {FirstOf(g.inflight)},
              collected |-> g.collected \cup {FirstOf(g.inflight)},
              completing |-> g.completing]
<1> DEFINE f == FirstOf(g.inflight)
<1> HIDE DEF f
<1>1. PICK h : h = [g EXCEPT !.inflight = g.inflight \ {f}]
      OBVIOUS
<1>2. h = [inflight |-> g.inflight \ {f}, collected |-> g.collected,
           completing |-> g.completing]
      BY <1>1 DEF Graphs
<1>3. [h EXCEPT !.collected = g.collected \cup {f}]
        = [inflight |-> g.inflight \ {f}, collected |-> g.collected \cup {f},
           completing |-> g.completing]
      BY <1>2
<1>4. [g EXCEPT !.inflight = @ \ {f}, !.collected = @ \cup {f}]
        = [h EXCEPT !.collected = g.collected \cup {f}]
      BY <1>1, Zenon
<1>5. CollectFirst(g) = [g EXCEPT !.inflight = @ \ {f}, !.collected = @ \cup {f}]
      BY Zenon DEF CollectFirst, f
<1> QED  BY <1>3, <1>4, <1>5, Zenon DEF f

LEMMA InjectFields ==
  ASSUME NEW B, NEW g \in Graphs(B), NEW S
  PROVE  InjectInto(g, S)
           = [inflight |-> g.inflight \cup S, collected |-> g.collected,
              completing |-> g.completing]
BY DEF InjectInto, Graphs

------------------------------------------------------------------------------
(* The fields of a job after each of its operations. *)

Rec(ctl, ready, phase, snap, fake, pend, inLog, logDone, finishAt, graph) ==
  [ctl |-> ctl, ready |-> ready, phase |-> phase, snap |-> snap, fake |-> fake,
   pend |-> pend, inLog |-> inLog, logDone |-> logDone, finishAt |-> finishAt,
   graph |-> graph]

\* A barrier is queued.
LEMMA PendFields ==
  ASSUME NEW r \in JobRecords, NEW q
  PROVE  [r EXCEPT !.pend = q]
           = Rec(r.ctl, r.ready, r.phase, r.snap, r.fake, q, r.inLog, r.logDone,
                 r.finishAt, r.graph)
<1>0. r = Rec(r.ctl, r.ready, r.phase, r.snap, r.fake, r.pend, r.inLog, r.logDone,
              r.finishAt, r.graph)
      BY DEF JobRecords, Rec
<1> QED  BY <1>0 DEF Rec

\* Queued barriers are injected.
LEMMA DrainFields ==
  ASSUME NEW r \in JobRecords, NEW q, NEW S
  PROVE  [r EXCEPT !.pend = q, !.graph = InjectInto(@, S)]
           = Rec(r.ctl, r.ready, r.phase, r.snap, r.fake, q, r.inLog, r.logDone,
                 r.finishAt, InjectInto(r.graph, S))
<1>0. r = Rec(r.ctl, r.ready, r.phase, r.snap, r.fake, r.pend, r.inLog, r.logDone,
              r.finishAt, r.graph)
      BY DEF JobRecords, Rec
<1>1. PICK h1 : h1 = [r EXCEPT !.pend = q]
      OBVIOUS
<1>2. h1 = Rec(r.ctl, r.ready, r.phase, r.snap, r.fake, q, r.inLog, r.logDone,
               r.finishAt, r.graph)
      BY <1>0, <1>1 DEF Rec
<1>3. [h1 EXCEPT !.graph = InjectInto(r.graph, S)]
        = Rec(r.ctl, r.ready, r.phase, r.snap, r.fake, q, r.inLog, r.logDone, r.finishAt,
              InjectInto(r.graph, S))
      BY <1>2 DEF Rec
<1> QED  BY <1>1, <1>3, Zenon

\* A fake barrier is injected, and the real one queued.
LEMMA FakeFields ==
  ASSUME NEW r \in JobRecords, NEW q, NEW S
  PROVE  [r EXCEPT !.pend = q, !.fake = @ + 1, !.graph = InjectInto(@, S)]
           = Rec(r.ctl, r.ready, r.phase, r.snap, r.fake + 1, q, r.inLog, r.logDone,
                 r.finishAt, InjectInto(r.graph, S))
<1>0. r = Rec(r.ctl, r.ready, r.phase, r.snap, r.fake, r.pend, r.inLog, r.logDone,
              r.finishAt, r.graph)
      BY DEF JobRecords, Rec
<1>1. PICK h1 : h1 = [r EXCEPT !.pend = q]
      OBVIOUS
<1>2. h1 = Rec(r.ctl, r.ready, r.phase, r.snap, r.fake, q, r.inLog, r.logDone,
               r.finishAt, r.graph)
      BY <1>0, <1>1 DEF Rec
<1>3. PICK h2 : h2 = [h1 EXCEPT !.fake = r.fake + 1]
      OBVIOUS
<1>4. h2 = Rec(r.ctl, r.ready, r.phase, r.snap, r.fake + 1, q, r.inLog, r.logDone,
               r.finishAt, r.graph)
      BY <1>2, <1>3 DEF Rec
<1>5. [h2 EXCEPT !.graph = InjectInto(r.graph, S)]
        = Rec(r.ctl, r.ready, r.phase, r.snap, r.fake + 1, q, r.inLog, r.logDone,
              r.finishAt, InjectInto(r.graph, S))
      BY <1>4 DEF Rec
<1> QED  BY <1>1, <1>3, <1>5, Zenon

\* start_consume_upstream.
LEMMA StartConsumeFields ==
  ASSUME NEW r \in JobRecords, NEW b
  PROVE  StartConsumeUpstream(r, b)
           = Rec(r.ctl, r.ready, "finishing", r.snap, r.fake, r.pend, r.inLog, r.logDone,
                 b.prev, InjectInto(r.graph, {b}))
<1>0. r = Rec(r.ctl, r.ready, r.phase, r.snap, r.fake, r.pend, r.inLog, r.logDone,
              r.finishAt, r.graph)
      BY DEF JobRecords, Rec
<1>1. PICK h1 : h1 = [r EXCEPT !.phase = "finishing"]
      OBVIOUS
<1>2. h1 = Rec(r.ctl, r.ready, "finishing", r.snap, r.fake, r.pend, r.inLog, r.logDone,
               r.finishAt, r.graph)
      BY <1>0, <1>1 DEF Rec
<1>3. PICK h2 : h2 = [h1 EXCEPT !.finishAt = b.prev]
      OBVIOUS
<1>4. h2 = Rec(r.ctl, r.ready, "finishing", r.snap, r.fake, r.pend, r.inLog, r.logDone,
               b.prev, r.graph)
      BY <1>2, <1>3 DEF Rec
<1>5. [h2 EXCEPT !.graph = InjectInto(r.graph, {b})]
        = Rec(r.ctl, r.ready, "finishing", r.snap, r.fake, r.pend, r.inLog, r.logDone,
              b.prev, InjectInto(r.graph, {b}))
      BY <1>4 DEF Rec
<1> QED  BY <1>1, <1>3, <1>5, Zenon DEF StartConsumeUpstream

\* IndependentCheckpointJobControl::drop.
LEMMA DroppedFields ==
  ASSUME NEW r \in JobRecords
  PROVE  DroppedJob(r)
           = Rec("resetting", r.ready, r.phase, r.snap, r.fake, r.pend, r.inLog,
                 r.logDone, r.finishAt, EmptyGraph)
<1>0. r = Rec(r.ctl, r.ready, r.phase, r.snap, r.fake, r.pend, r.inLog, r.logDone,
              r.finishAt, r.graph)
      BY DEF JobRecords, Rec
<1>1. PICK h1 : h1 = [r EXCEPT !.ctl = "resetting"]
      OBVIOUS
<1>2. h1 = Rec("resetting", r.ready, r.phase, r.snap, r.fake, r.pend, r.inLog, r.logDone,
               r.finishAt, r.graph)
      BY <1>0, <1>1 DEF Rec
<1>3. [h1 EXCEPT !.graph = EmptyGraph]
        = Rec("resetting", r.ready, r.phase, r.snap, r.fake, r.pend, r.inLog, r.logDone,
              r.finishAt, EmptyGraph)
      BY <1>2 DEF Rec
<1> QED  BY <1>1, <1>3, Zenon DEF DroppedJob

\* A barrier is collected.
LEMMA CollectedFields ==
  ASSUME NEW r \in JobRecords, NEW v
  PROVE  [r EXCEPT !.graph = CollectFirst(@), !.inLog = @ \/ v]
           = Rec(r.ctl, r.ready, r.phase, r.snap, r.fake, r.pend, (r.inLog \/ v),
                 r.logDone, r.finishAt, CollectFirst(r.graph))
<1>0. r = Rec(r.ctl, r.ready, r.phase, r.snap, r.fake, r.pend, r.inLog, r.logDone,
              r.finishAt, r.graph)
      BY DEF JobRecords, Rec
<1>1. PICK h1 : h1 = [r EXCEPT !.graph = CollectFirst(r.graph)]
      OBVIOUS
<1>2. h1 = Rec(r.ctl, r.ready, r.phase, r.snap, r.fake, r.pend, r.inLog, r.logDone,
               r.finishAt, CollectFirst(r.graph))
      BY <1>0, <1>1 DEF Rec
<1>3. [h1 EXCEPT !.inLog = (r.inLog \/ v)]
        = Rec(r.ctl, r.ready, r.phase, r.snap, r.fake, r.pend, (r.inLog \/ v), r.logDone,
              r.finishAt, CollectFirst(r.graph))
      BY <1>2 DEF Rec
<1> QED  BY <1>1, <1>3, Zenon

\* The snapshot is consumed.
LEMMA ToLogFields ==
  ASSUME NEW r \in JobRecords, NEW q
  PROVE  [r EXCEPT !.phase = "log", !.pend = q]
           = Rec(r.ctl, r.ready, "log", r.snap, r.fake, q, r.inLog, r.logDone,
                 r.finishAt, r.graph)
<1>0. r = Rec(r.ctl, r.ready, r.phase, r.snap, r.fake, r.pend, r.inLog, r.logDone,
              r.finishAt, r.graph)
      BY DEF JobRecords, Rec
<1>1. PICK h1 : h1 = [r EXCEPT !.phase = "log"]
      OBVIOUS
<1>2. h1 = Rec(r.ctl, r.ready, "log", r.snap, r.fake, r.pend, r.inLog, r.logDone,
               r.finishAt, r.graph)
      BY <1>0, <1>1 DEF Rec
<1>3. [h1 EXCEPT !.pend = q]
        = Rec(r.ctl, r.ready, "log", r.snap, r.fake, q, r.inLog, r.logDone, r.finishAt,
              r.graph)
      BY <1>2 DEF Rec
<1> QED  BY <1>1, <1>3, Zenon

\* recover_consuming_snapshot.
LEMMA RecoverFakeFields ==
  ASSUME NEW r \in JobRecords, NEW e, NEW q
  PROVE  [r EXCEPT !.fake = e, !.pend = q]
           = Rec(r.ctl, r.ready, r.phase, r.snap, e, q, r.inLog, r.logDone, r.finishAt,
                 r.graph)
<1>0. r = Rec(r.ctl, r.ready, r.phase, r.snap, r.fake, r.pend, r.inLog, r.logDone,
              r.finishAt, r.graph)
      BY DEF JobRecords, Rec
<1>1. PICK h1 : h1 = [r EXCEPT !.fake = e]
      OBVIOUS
<1>2. h1 = Rec(r.ctl, r.ready, r.phase, r.snap, e, r.pend, r.inLog, r.logDone,
               r.finishAt, r.graph)
      BY <1>0, <1>1 DEF Rec
<1>3. [h1 EXCEPT !.pend = q]
        = Rec(r.ctl, r.ready, r.phase, r.snap, e, q, r.inLog, r.logDone, r.finishAt,
              r.graph)
      BY <1>2 DEF Rec
<1> QED  BY <1>1, <1>3, Zenon

\* A control is created.
LEMMA StartFields ==
  ASSUME NEW r \in JobRecords, r = NoJob, NEW v, NEW e, e = 1,
         NEW g, g = InjectInto(EmptyGraph, {Barrier(0, 1, TRUE)})
  PROVE  NewJob(v)
           = Rec("running", r.ready, r.phase, v, e, r.pend, r.inLog, r.logDone,
                 r.finishAt, g)
<1>0. r = Rec(r.ctl, r.ready, r.phase, r.snap, r.fake, r.pend, r.inLog, r.logDone,
              r.finishAt, r.graph)
      BY DEF JobRecords, Rec
<1>1. PICK h1 : h1 = [r EXCEPT !.ctl = "running"]
      OBVIOUS
<1>2. h1 = Rec("running", r.ready, r.phase, r.snap, r.fake, r.pend, r.inLog, r.logDone,
               r.finishAt, r.graph)
      BY <1>0, <1>1 DEF Rec
<1>3. PICK h2 : h2 = [h1 EXCEPT !.snap = v]
      OBVIOUS
<1>4. h2 = Rec("running", r.ready, r.phase, v, r.fake, r.pend, r.inLog, r.logDone,
               r.finishAt, r.graph)
      BY <1>2, <1>3 DEF Rec
<1>5. PICK h3 : h3 = [h2 EXCEPT !.fake = e]
      OBVIOUS
<1>6. h3 = Rec("running", r.ready, r.phase, v, e, r.pend, r.inLog, r.logDone, r.finishAt,
               r.graph)
      BY <1>4, <1>5 DEF Rec
<1>7. [h3 EXCEPT !.graph = g]
        = Rec("running", r.ready, r.phase, v, e, r.pend, r.inLog, r.logDone, r.finishAt, g)
      BY <1>6 DEF Rec
<1> QED  BY <1>1, <1>3, <1>5, <1>7, Zenon DEF NewJob

\* A control is recovered.
LEMMA RecoverFields ==
  ASSUME NEW r \in JobRecords, r = NoJob, NEW t, NEW v
  PROVE  t = TRUE => [NoJob EXCEPT !.ctl = "running", !.ready = TRUE, !.snap = v]
           = Rec("running", t, r.phase, v, r.fake, r.pend, r.inLog, r.logDone,
                 r.finishAt, r.graph)
<1>0. r = Rec(r.ctl, r.ready, r.phase, r.snap, r.fake, r.pend, r.inLog, r.logDone,
              r.finishAt, r.graph)
      BY DEF JobRecords, Rec
<1>1. PICK h1 : h1 = [r EXCEPT !.ctl = "running"]
      OBVIOUS
<1>2. h1 = Rec("running", r.ready, r.phase, r.snap, r.fake, r.pend, r.inLog, r.logDone,
               r.finishAt, r.graph)
      BY <1>0, <1>1 DEF Rec
<1>3. PICK h2 : h2 = [h1 EXCEPT !.ready = t]
      OBVIOUS
<1>4. h2 = Rec("running", t, r.phase, r.snap, r.fake, r.pend, r.inLog, r.logDone,
               r.finishAt, r.graph)
      BY <1>2, <1>3 DEF Rec
<1>5. [h2 EXCEPT !.snap = v]
        = Rec("running", t, r.phase, v, r.fake, r.pend, r.inLog, r.logDone, r.finishAt,
              r.graph)
      BY <1>4 DEF Rec
<1> QED  BY <1>1, <1>3, <1>5, Zenon

------------------------------------------------------------------------------
(* Following a barrier of the database (on_new_upstream_barrier). *)

LEMMA BarrierFields ==
  ASSUME NEW p, NEW c, NEW k
  PROVE  /\ Barrier(p, c, k).prev = p /\ Barrier(p, c, k).curr = c
         /\ Barrier(p, c, k).ckpt = k
         /\ p \in Nat /\ c \in Nat /\ k \in BOOLEAN => Barrier(p, c, k) \in JobBarriers
BY DEF Barrier, JobBarriers

LEMMA EmptyGraphFinite ==
  /\ EmptyGraph \in Graphs(JobBarriers) /\ FiniteGraph(EmptyGraph)
  /\ PendingNum(EmptyGraph) = 0 /\ Cardinality(EmptyGraph.completing) = 0
  /\ EmptyGraph.inflight = {} /\ EmptyGraph.collected = {} /\ EmptyGraph.completing = {}
BY FS_EmptySet DEF EmptyGraph, Graphs, FiniteGraph, PendingNum

LEMMA NoJobFields ==
  /\ NoJob \in JobRecords
  /\ NoJob.ctl = "none" /\ NoJob.graph = EmptyGraph /\ NoJob.phase = "snapshot"
  /\ NoJob.pend = <<>> /\ NoJob.fake = 0 /\ NoJob.finishAt = 0
BY EmptyGraphFinite DEF NoJob, JobRecords

LEMMA PendingIsNat ==
  ASSUME NEW g, FiniteGraph(g)
  PROVE  /\ Cardinality(g.inflight) \in Nat /\ Cardinality(g.collected) \in Nat
         /\ Cardinality(g.completing) \in Nat
         /\ PendingNum(g) \in Nat
         /\ PendingNum(g) = Cardinality(g.inflight) + Cardinality(g.collected)
                              + Cardinality(g.completing)
BY FS_CardinalityType DEF FiniteGraph, PendingNum

LEMMA ImageOfInterval ==
  ASSUME NEW q, NEW m \in Nat
  PROVE  /\ IsFiniteSet({q[i] : i \in 1 .. m})
         /\ Cardinality({q[i] : i \in 1 .. m}) <= m
<1>1. IsFiniteSet(1 .. m) /\ Cardinality(1 .. m) = m
      BY FS_Interval
<1> DEFINE T == {q[i] : i \in 1 .. m}
           f == [i \in 1 .. m |-> q[i]]
<1>2. f \in Surjection(1 .. m, T)
      BY DEF Surjection
<1> QED  BY <1>1, <1>2, FS_Surjection

LEMMA CapacityIs ==
  ASSUME NEW r, FiniteGraph(r.graph)
  PROVE  /\ Capacity(r) \in Nat
         /\ Capacity(r) = IF 0 >= MaxPending - PendingNum(r.graph) THEN 0
                          ELSE MaxPending - PendingNum(r.graph)
<1>1. PendingNum(r.graph) \in Nat
      BY PendingIsNat
<1>2. MaxPending \in Nat
      BY CCAssumption
<1> DEFINE x == MaxPending - PendingNum(r.graph)
<1>3. x \in Int
      BY <1>1, <1>2
<1>4. Max({0, x}) = IF 0 >= x THEN 0 ELSE x
      BY <1>3, MaxOfTwo
<1> QED  BY <1>3, <1>4 DEF Capacity

\* The ways a job follows barrier b.
Unmoved(r, s) == (r.ctl # "running" \/ r.phase = "finishing") /\ s = r
Queues(r, b, s) ==
  /\ r.ctl = "running" /\ r.phase = "snapshot"
  /\ s = Rec(r.ctl, r.ready, r.phase, r.snap, r.fake, Append(r.pend, b), r.inLog,
             r.logDone, r.finishAt, r.graph)
Fakes(r, b, s) ==
  /\ r.ctl = "running" /\ r.phase = "snapshot"
  /\ s = Rec(r.ctl, r.ready, r.phase, r.snap, r.fake + 1, Append(r.pend, b), r.inLog,
             r.logDone, r.finishAt,
             [inflight |-> r.graph.inflight \cup {Barrier(r.fake, r.fake + 1, b.ckpt)},
              collected |-> r.graph.collected, completing |-> r.graph.completing])
Drains(r, b, m, s) ==
  LET q == Append(r.pend, b) IN
  /\ r.ctl = "running" /\ r.phase = "log"
  /\ m \in 0 .. Len(q)
  /\ m = 0 \/ m + PendingNum(r.graph) <= MaxPending
  /\ s = Rec(r.ctl, r.ready, r.phase, r.snap, r.fake, SubSeq(q, m + 1, Len(q)), r.inLog,
             r.logDone, r.finishAt,
             [inflight |-> r.graph.inflight \cup {q[i] : i \in 1 .. m},
              collected |-> r.graph.collected, completing |-> r.graph.completing])

LEMMA ForwardCases ==
  ASSUME NEW r \in JobRecords, FiniteGraph(r.graph), NEW b \in JobBarriers,
         NEW mu
  PROVE  \/ Unmoved(r, Forward(r, b, mu))
         \/ Queues(r, b, Forward(r, b, mu))
         \/ Fakes(r, b, Forward(r, b, mu))
         \/ \E m \in Nat : Drains(r, b, m, Forward(r, b, mu))
<1> DEFINE q == Append(r.pend, b)
           n == Min({Len(q), Capacity(r)})
<1>1. /\ r.graph \in Graphs(JobBarriers) /\ r.pend \in Seq(JobBarriers)
      /\ r.ctl \in {"none", "running", "resetting"}
      /\ r.phase \in {"snapshot", "log", "finishing"}
      BY DEF JobRecords
<1>2. Capacity(r) \in Nat
      BY CapacityIs
<1>3. CASE r.ctl # "running" \/ r.phase = "finishing"
  <2>1. Forward(r, b, mu) = r
        BY <1>3, Zenon DEF Forward
  <2> QED  BY <1>3, <2>1 DEF Unmoved
<1>4. CASE r.ctl = "running" /\ r.phase = "snapshot" /\ Capacity(r) = 0 /\ ~mu
  <2>1. Forward(r, b, mu) = [r EXCEPT !.pend = q]
        BY <1>4 DEF Forward
  <2>2. [r EXCEPT !.pend = q]
          = Rec(r.ctl, r.ready, r.phase, r.snap, r.fake, q, r.inLog, r.logDone,
                r.finishAt, r.graph)
        BY PendFields
  <2> QED  BY <1>4, <2>1, <2>2, Zenon DEF Queues
<1>5. CASE r.ctl = "running" /\ r.phase = "snapshot" /\ ~(Capacity(r) = 0 /\ ~mu)
  <2>1. PICK S : S = {NextFakeBarrier(r, b.ckpt)}
        OBVIOUS
  <2>2. Forward(r, b, mu) = [r EXCEPT !.pend = q, !.fake = @ + 1, !.graph = InjectInto(@, S)]
        BY <1>5, <2>1, Zenon DEF Forward
  <2>3. S = {Barrier(r.fake, r.fake + 1, b.ckpt)}
        BY <2>1 DEF NextFakeBarrier
  <2>4. InjectInto(r.graph, S)
          = [inflight |-> r.graph.inflight \cup S, collected |-> r.graph.collected,
             completing |-> r.graph.completing]
        BY <1>1, InjectFields
  <2>6. Forward(r, b, mu)
          = Rec(r.ctl, r.ready, r.phase, r.snap, r.fake + 1, q, r.inLog, r.logDone,
                r.finishAt, InjectInto(r.graph, S))
        BY <2>2, FakeFields, Zenon
  <2> QED  BY <1>5, <2>3, <2>4, <2>6, Zenon DEF Fakes
<1>6. CASE r.ctl = "running" /\ r.phase = "log"
  <2>1. Len(q) \in Nat
        BY <1>1
  <2>2. n = IF Len(q) <= Capacity(r) THEN Len(q) ELSE Capacity(r)
        BY <1>2, <2>1, MinOfTwo
  <2>3. n \in 0 .. Len(q) /\ n <= Capacity(r)
        BY <1>2, <2>1, <2>2
  <2>4. n = 0 \/ n + PendingNum(r.graph) <= MaxPending
        BY <2>1, <2>3, CapacityIs, PendingIsNat, CCAssumption
  <2>5. PICK S : S = {q[i] : i \in 1 .. n}
        OBVIOUS
  <2>6. Forward(r, b, mu) = DrainPendingBarriers(r, q, n)
        BY <1>6, Zenon DEF Forward
  <2>7. DrainPendingBarriers(r, q, n)
          = [r EXCEPT !.pend = SubSeq(q, n + 1, Len(q)), !.graph = InjectInto(@, S)]
        BY <2>5, Zenon DEF DrainPendingBarriers
  <2>8. InjectInto(r.graph, S)
          = [inflight |-> r.graph.inflight \cup S, collected |-> r.graph.collected,
             completing |-> r.graph.completing]
        BY <1>1, InjectFields
  <2>9. Forward(r, b, mu)
          = Rec(r.ctl, r.ready, r.phase, r.snap, r.fake, SubSeq(q, n + 1, Len(q)),
                r.inLog, r.logDone, r.finishAt, InjectInto(r.graph, S))
        BY <2>6, <2>7, DrainFields, Zenon
  <2>10. Drains(r, b, n, Forward(r, b, mu))
        BY <1>6, <2>3, <2>4, <2>5, <2>8, <2>9, Zenon DEF Drains
  <2> QED  BY <2>1, <2>3, <2>10
<1> QED  BY <1>1, <1>3, <1>4, <1>5, <1>6

\* A job keeps its type, and everything but its queue, its fake epoch and the
\* barriers in flight.
LEMMA ForwardType ==
  ASSUME NEW r \in JobRecords, FiniteGraph(r.graph), NEW b \in JobBarriers,
         NEW mu, NEW s, s = Forward(r, b, mu)
  PROVE  /\ s \in JobRecords /\ FiniteGraph(s.graph)
         /\ s.ctl = r.ctl /\ s.ready = r.ready /\ s.phase = r.phase /\ s.snap = r.snap
         /\ s.inLog = r.inLog /\ s.logDone = r.logDone /\ s.finishAt = r.finishAt
         /\ s.graph.collected = r.graph.collected
         /\ s.graph.completing = r.graph.completing
         /\ r.graph.inflight \subseteq s.graph.inflight
<1>1. /\ r.graph \in Graphs(JobBarriers) /\ r.pend \in Seq(JobBarriers)
      /\ r.fake \in Nat
      BY DEF JobRecords
<1>2. /\ r.graph.inflight \subseteq JobBarriers /\ r.graph.collected \subseteq JobBarriers
      /\ r.graph.completing \subseteq Nat
      BY <1>1 DEF Graphs
<1>3. /\ IsFiniteSet(r.graph.inflight) /\ IsFiniteSet(r.graph.collected)
      /\ IsFiniteSet(r.graph.completing)
      BY DEF FiniteGraph
<1>4. CASE Unmoved(r, s)
      BY <1>4 DEF Unmoved
<1>5. CASE Queues(r, b, s)
  <2>1. Append(r.pend, b) \in Seq(JobBarriers)
        BY <1>1
  <2>2. /\ s.pend = Append(r.pend, b) /\ s.graph = r.graph /\ s.fake = r.fake
        /\ s.ctl = r.ctl /\ s.ready = r.ready /\ s.phase = r.phase /\ s.snap = r.snap
        /\ s.inLog = r.inLog /\ s.logDone = r.logDone /\ s.finishAt = r.finishAt
        /\ s = Rec(s.ctl, s.ready, s.phase, s.snap, s.fake, s.pend, s.inLog, s.logDone,
                   s.finishAt, s.graph)
        BY <1>5 DEF Queues, Rec
  <2>3. s \in JobRecords
        BY <2>1, <2>2 DEF JobRecords, Rec
  <2> QED  BY <2>2, <2>3
<1>6. CASE Fakes(r, b, s)
  <2>1. Append(r.pend, b) \in Seq(JobBarriers) /\ r.fake + 1 \in Nat
        BY <1>1
  <2>2. PICK f : f = Barrier(r.fake, r.fake + 1, b.ckpt)
        OBVIOUS
  <2>3. f \in JobBarriers
        BY <1>1, <2>1, <2>2, BarrierFields DEF JobBarriers
  <2>4. PICK g : g = [inflight |-> r.graph.inflight \cup {f},
                      collected |-> r.graph.collected, completing |-> r.graph.completing]
        OBVIOUS
  <2>5. g \in Graphs(JobBarriers)
        BY <1>2, <2>3, <2>4 DEF Graphs
  <2>6. FiniteGraph(g)
        BY <1>3, <2>4, FS_AddElement DEF FiniteGraph
  <2>7. /\ s.pend = Append(r.pend, b) /\ s.graph = g /\ s.fake = r.fake + 1
        /\ s.ctl = r.ctl /\ s.ready = r.ready /\ s.phase = r.phase /\ s.snap = r.snap
        /\ s.inLog = r.inLog /\ s.logDone = r.logDone /\ s.finishAt = r.finishAt
        /\ s = Rec(s.ctl, s.ready, s.phase, s.snap, s.fake, s.pend, s.inLog, s.logDone,
                   s.finishAt, s.graph)
        BY <1>6, <2>2, <2>4 DEF Fakes, Rec
  <2>8. s \in JobRecords
        BY <2>1, <2>5, <2>7 DEF JobRecords, Rec
  <2> QED  BY <2>4, <2>6, <2>7, <2>8
<1>7. ASSUME NEW m \in Nat, Drains(r, b, m, s)
      PROVE  s \in JobRecords /\ FiniteGraph(s.graph)
             /\ s.ctl = r.ctl /\ s.ready = r.ready /\ s.phase = r.phase /\ s.snap = r.snap
             /\ s.inLog = r.inLog /\ s.logDone = r.logDone /\ s.finishAt = r.finishAt
             /\ s.graph.collected = r.graph.collected
             /\ s.graph.completing = r.graph.completing
             /\ r.graph.inflight \subseteq s.graph.inflight
  <2>1. PICK q : q = Append(r.pend, b)
        OBVIOUS
  <2>2. q \in Seq(JobBarriers) /\ m \in 0 .. Len(q)
        BY <1>1, <1>7, <2>1 DEF Drains
  <2>3. PICK S : S = {q[i] : i \in 1 .. m}
        OBVIOUS
  <2>4. S \subseteq JobBarriers
        BY <2>2, <2>3
  <2>5. IsFiniteSet(S)
        BY <2>3, ImageOfInterval
  <2>6. PICK g : g = [inflight |-> r.graph.inflight \cup S,
                      collected |-> r.graph.collected, completing |-> r.graph.completing]
        OBVIOUS
  <2>7. g \in Graphs(JobBarriers)
        BY <1>2, <2>4, <2>6 DEF Graphs
  <2>8. FiniteGraph(g)
        BY <1>3, <2>5, <2>6, FS_Union DEF FiniteGraph
  <2>9. PICK t : t = SubSeq(q, m + 1, Len(q))
        OBVIOUS
  <2>10. t \in Seq(JobBarriers)
        BY <2>2, <2>9
  <2>11. s = Rec(r.ctl, r.ready, r.phase, r.snap, r.fake, t, r.inLog, r.logDone,
                 r.finishAt, g)
        BY <1>7, <2>1, <2>3, <2>6, <2>9, Zenon DEF Drains
  <2>12. /\ s.pend = t /\ s.graph = g /\ s.fake = r.fake
         /\ s.ctl = r.ctl /\ s.ready = r.ready /\ s.phase = r.phase /\ s.snap = r.snap
         /\ s.inLog = r.inLog /\ s.logDone = r.logDone /\ s.finishAt = r.finishAt
         /\ s = Rec(s.ctl, s.ready, s.phase, s.snap, s.fake, s.pend, s.inLog, s.logDone,
                    s.finishAt, s.graph)
        BY <2>11 DEF Rec
  <2>13. s \in JobRecords
        BY <2>7, <2>10, <2>12 DEF JobRecords, Rec
  <2> QED  BY <2>6, <2>8, <2>12, <2>13
<1> QED  BY <1>4, <1>5, <1>6, <1>7, ForwardCases

\* Injecting a set of barriers adds at most as many to the graph.
LEMMA InjectedPending ==
  ASSUME NEW g, FiniteGraph(g), NEW S, IsFiniteSet(S), NEW h,
         h = [inflight |-> g.inflight \cup S, collected |-> g.collected,
              completing |-> g.completing]
  PROVE  /\ FiniteGraph(h)
         /\ PendingNum(h) <= PendingNum(g) + Cardinality(S)
<1>1. /\ IsFiniteSet(g.inflight) /\ IsFiniteSet(g.collected) /\ IsFiniteSet(g.completing)
      BY DEF FiniteGraph
<1>2. IsFiniteSet(g.inflight \cap S)
      BY <1>1, FS_Subset
<1>3. Cardinality(g.inflight \cap S) \in Nat /\ Cardinality(S) \in Nat
      BY <1>2, FS_CardinalityType
<1>4. /\ IsFiniteSet(g.inflight \cup S)
      /\ Cardinality(g.inflight \cup S)
           = Cardinality(g.inflight) + Cardinality(S) - Cardinality(g.inflight \cap S)
      BY <1>1, FS_Union
<1>5. h.inflight = g.inflight \cup S /\ h.collected = g.collected
      /\ h.completing = g.completing
      OBVIOUS
<1>6. FiniteGraph(h)
      BY <1>1, <1>4, <1>5 DEF FiniteGraph
<1>7. /\ Cardinality(g.inflight) \in Nat /\ Cardinality(g.collected) \in Nat
      /\ Cardinality(g.completing) \in Nat
      /\ PendingNum(g) = Cardinality(g.inflight) + Cardinality(g.collected)
                           + Cardinality(g.completing)
      BY PendingIsNat
<1>8. PendingNum(h) = Cardinality(g.inflight \cup S) + Cardinality(g.collected)
                        + Cardinality(g.completing)
      BY <1>5 DEF PendingNum
<1> QED  BY <1>3, <1>4, <1>6, <1>7, <1>8

\* A job takes no more barriers than it has room for.
LEMMA ForwardRoom ==
  ASSUME NEW r \in JobRecords, FiniteGraph(r.graph), NEW b \in JobBarriers,
         NEW ov, JobRoom(r, ov), NEW mu, NEW s, s = Forward(r, b, mu),
         NEW ow, ow = OverAfter(r, ov, mu)
  PROVE  JobRoom(s, ow)
<1>1. /\ s.phase = r.phase /\ s.graph.completing = r.graph.completing
      /\ FiniteGraph(s.graph)
      BY ForwardType
<1>2. /\ PendingNum(r.graph) \in Nat /\ PendingNum(s.graph) \in Nat
      /\ MaxPending \in Nat /\ ov \in Nat
      /\ PendingNum(r.graph) <= MaxPending + 1 + ov
      /\ r.phase # "finishing" => PendingNum(r.graph) <= MaxPending + ov
      BY <1>1, PendingIsNat, CCAssumption DEF JobRoom
<1>0. /\ Capacity(r) \in Nat
      /\ Capacity(r) > 0 => PendingNum(r.graph) < MaxPending
      BY <1>2, CapacityIs
<1>3. Cardinality(s.graph.completing) <= 1
      BY <1>1 DEF JobRoom
<1>4. CASE Unmoved(r, s)
  <2>1. s = r /\ ow = ov
        BY <1>4 DEF Unmoved, OverAfter
  <2> QED  BY <2>1
<1>7. CASE Queues(r, b, s)
  <2>1. s.graph = r.graph /\ r.ctl = "running" /\ r.phase = "snapshot"
        BY <1>7 DEF Queues, Rec
  <2>2. CASE Capacity(r) > 0
    <3>1. ow = 0
          BY <2>1, <2>2 DEF OverAfter
    <3> QED  BY <1>0, <1>1, <1>2, <1>3, <2>1, <2>2, <3>1 DEF JobRoom
  <2>3. CASE ~(Capacity(r) > 0)
    <3>1. ow = ov + 1 \/ ow = ov
          BY <2>1, <2>3 DEF OverAfter
    <3> QED  BY <1>1, <1>2, <1>3, <2>1, <3>1 DEF JobRoom
  <2> QED  BY <2>2, <2>3
<1>5. CASE Fakes(r, b, s)
  <2>1. PICK S : S = {Barrier(r.fake, r.fake + 1, b.ckpt)}
        OBVIOUS
  <2>2. s.graph = [inflight |-> r.graph.inflight \cup S, collected |-> r.graph.collected,
                   completing |-> r.graph.completing]
        BY <1>5, <2>1 DEF Fakes, Rec
  <2>3. IsFiniteSet(S) /\ Cardinality(S) = 1
        BY <2>1, FS_Singleton
  <2>4. PendingNum(s.graph) <= PendingNum(r.graph) + 1
        BY <2>2, <2>3, InjectedPending
  <2>5. r.ctl = "running" /\ r.phase = "snapshot"
        BY <1>5 DEF Fakes
  <2>6. CASE Capacity(r) > 0
    <3>1. ow = 0
          BY <2>5, <2>6 DEF OverAfter
    <3> QED  BY <1>0, <1>2, <1>3, <2>4, <2>6, <3>1 DEF JobRoom
  <2>7. CASE ~(Capacity(r) > 0) /\ mu
    <3>1. ow = ov + 1
          BY <2>5, <2>7 DEF OverAfter
    <3> QED  BY <1>2, <1>3, <2>4, <2>5, <3>1 DEF JobRoom
  <2>8. CASE ~(Capacity(r) > 0) /\ ~mu
    <3>1. ow = ov
          BY <2>5, <2>8 DEF OverAfter
    <3>2. Capacity(r) = 0
          BY <1>0, <2>8
    <3>3. s = [r EXCEPT !.pend = Append(r.pend, b)]
          BY <2>5, <2>8, <3>2 DEF Forward
    <3>4. s.graph = r.graph
          BY <3>3 DEF JobRecords
    <3> QED  BY <1>1, <1>2, <1>3, <3>1, <3>4 DEF JobRoom
  <2> QED  BY <2>6, <2>7, <2>8
<1>6. ASSUME NEW m \in Nat, Drains(r, b, m, s)
      PROVE  JobRoom(s, ow)
  <2>1. PICK q : q = Append(r.pend, b)
        OBVIOUS
  <2>2. PICK S : S = {q[i] : i \in 1 .. m}
        OBVIOUS
  <2>3. s.graph = [inflight |-> r.graph.inflight \cup S, collected |-> r.graph.collected,
                   completing |-> r.graph.completing]
    <3>1. PICK t : t = SubSeq(q, m + 1, Len(q))
          OBVIOUS
    <3>2. PICK g : g = [inflight |-> r.graph.inflight \cup S,
                        collected |-> r.graph.collected,
                        completing |-> r.graph.completing]
          OBVIOUS
    <3>3. s = Rec(r.ctl, r.ready, r.phase, r.snap, r.fake, t, r.inLog, r.logDone,
                  r.finishAt, g)
          BY <1>6, <2>1, <2>2, <3>1, <3>2, Zenon DEF Drains
    <3> QED  BY <3>2, <3>3 DEF Rec
  <2>4. IsFiniteSet(S) /\ Cardinality(S) <= m /\ Cardinality(S) \in Nat
        BY <2>2, ImageOfInterval, FS_CardinalityType
  <2>5. PendingNum(s.graph) <= PendingNum(r.graph) + m
        BY <1>2, <2>3, <2>4, InjectedPending
  <2>6. m = 0 \/ m + PendingNum(r.graph) <= MaxPending
        BY <1>6 DEF Drains
  <2>7. PendingNum(s.graph) <= PendingNum(r.graph) \/ PendingNum(s.graph) <= MaxPending
        BY <1>2, <2>5, <2>6
  <2>8. r.ctl = "running" /\ r.phase = "log"
        BY <1>6 DEF Drains
  <2>9. ow = IF Capacity(r) > 0 THEN 0 ELSE ov
        BY <2>8 DEF OverAfter
  <2> QED  BY <1>0, <1>1, <1>2, <1>3, <2>7, <2>8, <2>9 DEF JobRoom
<1> QED  BY <1>4, <1>5, <1>6, <1>7, ForwardCases

\* The queue of a job with the database's new barrier at its end.
QueueOk(r, n, b, q) ==
  /\ q \in Seq(JobBarriers) /\ Len(q) = Len(r.pend) + 1 /\ q[Len(q)] = b
  /\ \A i \in 1 .. Len(q) : q[i] \in JobBarriers
  /\ \A i \in 1 .. Len(r.pend) : q[i] = r.pend[i]
  /\ \A i \in 1 .. Len(q) : q[i].prev < n + 1
  /\ \A i, k \in 1 .. Len(q) : i < k => q[i].prev < q[k].prev
  /\ \A i \in 1 .. Len(q) : q[i].prev < q[i].curr
  /\ \A i \in 1 .. Len(q) :
       q[i].curr = IF i = Len(q) THEN n + 1 ELSE q[i + 1].prev
  /\ \A c \in Outstanding(r), i \in 1 .. Len(q) : c.prev < q[i].prev
  /\ \A i \in 1 .. Len(q) : JobEpoch(r, q[i].prev, n + 1)
  /\ q[1].prev = IF r.pend = <<>> THEN n ELSE r.pend[1].prev

\* An epoch of a job stays one when the database goes on.
LEMMA EpochGrows ==
  ASSUME NEW r, r.snap \in Nat, NEW e \in Nat, NEW n \in Nat, JobEpoch(r, e, n)
  PROVE  JobEpoch(r, e, n + 1)
<1>1. PICK s, m : s = r.snap /\ s \in Nat /\ m = Base /\ m \in Int
      BY CCAssumption DEF Base
<1>2. e <= n - m \/ e >= s
      BY <1>1 DEF JobEpoch
<1>3. e <= n + 1 - m \/ e >= s
      BY <1>1, <1>2
<1> QED  BY <1>1, <1>3 DEF JobEpoch

LEMMA QueueWithNew ==
  ASSUME NEW r \in JobRecords, NEW n \in Nat, NEW ck \in BOOLEAN,
         NEW b, b = Barrier(n, n + 1, ck), NEW q, q = Append(r.pend, b),
         JobBounds(r, n), JobOrder(r, n), JobChain(r, n)
  PROVE  QueueOk(r, n, b, q)
<1>1. /\ r.pend \in Seq(JobBarriers) /\ r.snap \in Nat /\ r.graph \in Graphs(JobBarriers)
      BY DEF JobRecords
<1>2. b \in JobBarriers /\ b.prev = n /\ b.curr = n + 1
      BY BarrierFields
<1>3. /\ q \in Seq(JobBarriers) /\ Len(q) = Len(r.pend) + 1 /\ q[Len(q)] = b
      /\ \A i \in 1 .. Len(r.pend) : q[i] = r.pend[i]
      BY <1>1, <1>2
<1>4. \A i \in 1 .. Len(q) : q[i] \in JobBarriers /\ q[i].prev \in Nat /\ q[i].curr \in Nat
  <2>1. \A x \in JobBarriers : x.prev \in Nat /\ x.curr \in Nat
        BY DEF JobBarriers
  <2>2. \A i \in 1 .. Len(q) : q[i] \in JobBarriers
        BY <1>3
  <2> QED  BY <2>1, <2>2
<1>5. \A c \in Outstanding(r) : c.prev \in Nat
      BY <1>1 DEF Outstanding, Graphs, JobBarriers
<1>6. \A i \in 1 .. Len(q) : i \in 1 .. Len(r.pend) \/ (i = Len(q) /\ q[i] = b)
      BY <1>3
<1>7. \A i \in 1 .. Len(r.pend) : r.pend[i].prev < n
      BY DEF JobBounds
<1>8. \A i \in 1 .. Len(q) : q[i].prev < n + 1
      BY <1>2, <1>3, <1>4, <1>6, <1>7
<1>9. \A i, k \in 1 .. Len(q) : i < k => q[i].prev < q[k].prev
  <2> SUFFICES ASSUME NEW i \in 1 .. Len(q), NEW k \in 1 .. Len(q), i < k
               PROVE  q[i].prev < q[k].prev
      OBVIOUS
  <2>1. i \in 1 .. Len(r.pend)
        BY <1>1, <1>3
  <2>2. CASE k \in 1 .. Len(r.pend)
        BY <1>3, <2>1, <2>2 DEF JobOrder
  <2>3. CASE k = Len(q)
        BY <1>2, <1>3, <1>7, <2>1, <2>3
  <2> QED  BY <1>6, <2>2, <2>3
<1>10. \A i \in 1 .. Len(q) : q[i].prev < q[i].curr
       BY <1>2, <1>3, <1>6 DEF JobChain
<1>11. ASSUME NEW i \in 1 .. Len(q)
       PROVE  q[i].curr = IF i = Len(q) THEN n + 1 ELSE q[i + 1].prev
  <2>1. CASE i = Len(q)
        BY <1>2, <1>3, <2>1
  <2>2. CASE i # Len(q) /\ i = Len(r.pend)
    <3>1. r.pend[i].curr = n
          BY <1>6, <2>2 DEF JobChain
    <3>2. i + 1 = Len(q) /\ q[i + 1] = b /\ q[i] = r.pend[i]
          BY <1>3, <1>6, <2>2
    <3> QED  BY <1>2, <2>2, <3>1, <3>2
  <2>3. CASE i # Len(q) /\ i # Len(r.pend)
    <3>1. i \in 1 .. Len(r.pend) /\ i + 1 \in 1 .. Len(r.pend)
          BY <1>1, <1>3, <1>6, <2>3
    <3>2. r.pend[i].curr = r.pend[i + 1].prev
          BY <2>3, <3>1 DEF JobChain
    <3> QED  BY <1>3, <2>3, <3>1, <3>2
  <2> QED  BY <2>1, <2>2, <2>3
<1>12. ASSUME NEW c \in Outstanding(r), NEW i \in 1 .. Len(q) PROVE c.prev < q[i].prev
  <2>1. CASE i \in 1 .. Len(r.pend)
        BY <1>3, <2>1 DEF JobOrder
  <2>2. CASE q[i] = b
        BY <1>2, <2>2 DEF JobBounds
  <2> QED  BY <1>6, <2>1, <2>2
<1>13. ASSUME NEW i \in 1 .. Len(q) PROVE JobEpoch(r, q[i].prev, n + 1)
  <2>0. Base \in Int
        BY CCAssumption DEF Base
  <2>1. CASE i \in 1 .. Len(r.pend)
    <3>1. JobEpoch(r, q[i].prev, n)
          BY <1>3, <2>1 DEF JobOrder
    <3>2. PICK e : e = q[i].prev
          OBVIOUS
    <3>3. e \in Nat
          BY <1>4, <3>2
    <3>4. JobEpoch(r, e, n + 1)
          BY <1>1, <3>1, <3>2, <3>3, EpochGrows
    <3> QED  BY <3>2, <3>4
  <2>2. CASE q[i] = b
        BY <1>1, <1>2, <2>2 DEF JobEpoch, JobBounds
  <2> QED  BY <1>6, <2>1, <2>2
<1>14. q[1].prev = IF r.pend = <<>> THEN n ELSE r.pend[1].prev
  <2>1. CASE r.pend = <<>>
        BY <1>2, <1>3, <2>1
  <2>2. CASE r.pend # <<>>
        BY <1>1, <1>3, <2>2
  <2> QED  BY <2>1, <2>2
<1> QED  BY <1>3, <1>4, <1>8, <1>9, <1>10, <1>11, <1>12, <1>13, <1>14 DEF QueueOk

\* A job that has injected the first m barriers of q.
Drained(r, q, m, s) ==
  /\ m \in 0 .. Len(q)
  /\ s.pend = SubSeq(q, m + 1, Len(q))
  /\ s.graph.inflight = r.graph.inflight \cup {q[i] : i \in 1 .. m}
  /\ s.graph.collected = r.graph.collected
  /\ s.graph.completing = r.graph.completing
  /\ s.snap = r.snap /\ s.fake = r.fake /\ s.phase = r.phase
  /\ s.phase = "log"

LEMMA DrainsFields ==
  ASSUME NEW r \in JobRecords, NEW b, NEW m \in Nat, NEW s, Drains(r, b, m, s),
         NEW q, q = Append(r.pend, b)
  PROVE  Drained(r, q, m, s)
<1>1. PICK S : S = {q[i] : i \in 1 .. m}
      OBVIOUS
<1>2. PICK t : t = SubSeq(q, m + 1, Len(q))
      OBVIOUS
<1>3. PICK g : g = [inflight |-> r.graph.inflight \cup S, collected |-> r.graph.collected,
                    completing |-> r.graph.completing]
      OBVIOUS
<1>4. s = Rec(r.ctl, r.ready, r.phase, r.snap, r.fake, t, r.inLog, r.logDone,
              r.finishAt, g)
      BY <1>1, <1>2, <1>3, Zenon DEF Drains
<1>5. m \in 0 .. Len(q) /\ r.phase = "log"
      BY DEF Drains
<1>6. s.pend = t /\ s.graph = g /\ s.snap = r.snap /\ s.fake = r.fake /\ s.phase = r.phase
      BY <1>4 DEF Rec
<1> QED  BY <1>1, <1>2, <1>3, <1>5, <1>6 DEF Drained

\* Following the database keeps a job's epochs in order and in one chain.
LEMMA ForwardKeeps ==
  ASSUME NEW r \in JobRecords, FiniteGraph(r.graph), NEW n \in Nat, NEW ck \in BOOLEAN,
         NEW b, b = Barrier(n, n + 1, ck), r.ctl = "running",
         n > Base, n <= Base + MaxEpoch,
         JobOk(r, n), NEW mu, NEW s, s = Forward(r, b, mu)
  PROVE  /\ JobOk(s, n + 1)
         /\ \A e \in Int : e < n /\ JobAfter(r, e) => JobAfter(s, e)
<1>0. JobBounds(r, n) /\ JobOrder(r, n) /\ JobChain(r, n)
      BY DEF JobOk
<1>1. /\ r.pend \in Seq(JobBarriers) /\ r.snap \in Nat /\ r.graph \in Graphs(JobBarriers)
      /\ r.fake \in Nat /\ r.finishAt \in Nat
      BY DEF JobRecords
<1>2. b \in JobBarriers /\ b.prev = n /\ b.curr = n + 1 /\ b.ckpt = ck
      BY BarrierFields
<1>3. Base \in Nat /\ Base = MaxEpoch + 1
      BY CCAssumption DEF Base
<1>4. \A c \in Outstanding(r) : c \in JobBarriers /\ c.prev \in Nat /\ c.curr \in Nat
      BY <1>1 DEF Outstanding, Graphs, JobBarriers
<1>5. PICK q : q = Append(r.pend, b)
      OBVIOUS
<1>6. /\ q \in Seq(JobBarriers) /\ Len(q) = Len(r.pend) + 1 /\ q[Len(q)] = b
      /\ \A i \in 1 .. Len(q) : q[i] \in JobBarriers
      /\ \A i \in 1 .. Len(r.pend) : q[i] = r.pend[i]
      /\ \A i \in 1 .. Len(q) : q[i].prev < n + 1
      /\ \A i, k \in 1 .. Len(q) : i < k => q[i].prev < q[k].prev
      /\ \A i \in 1 .. Len(q) : q[i].prev < q[i].curr
      /\ \A i \in 1 .. Len(q) :
           q[i].curr = IF i = Len(q) THEN n + 1 ELSE q[i + 1].prev
      /\ \A c \in Outstanding(r), i \in 1 .. Len(q) : c.prev < q[i].prev
      /\ \A i \in 1 .. Len(q) : JobEpoch(r, q[i].prev, n + 1)
      /\ q[1].prev = IF r.pend = <<>> THEN n ELSE r.pend[1].prev
  <2>1. QueueOk(r, n, b, q)
        BY <1>0, <1>5, QueueWithNew, Zenon
  <2> QED  BY <2>1, Zenon DEF QueueOk
<1>7. Len(r.pend) \in Nat /\ Len(q) \in Nat \ {0}
      BY <1>1, <1>6
<1>8. \A i \in 1 .. Len(q) : q[i].prev \in Nat /\ q[i].curr \in Nat
  <2>1. \A x \in JobBarriers : x.prev \in Nat /\ x.curr \in Nat
        BY DEF JobBarriers
  <2> QED  BY <1>6, <2>1
<1>9. /\ \A c \in Outstanding(r) : c.prev < n /\ JobEpoch(r, c.prev, n + 1)
      /\ r.snap < n /\ r.fake < n /\ r.snap >= Base
  <2>1. \A c \in Outstanding(r) : c.prev < n /\ JobEpoch(r, c.prev, n)
        BY <1>0 DEF JobBounds, JobOrder
  <2>2. r.snap < n /\ r.fake < n /\ r.snap >= Base
        BY <1>0 DEF JobBounds, JobOrder
  <2> QED  BY <1>1, <1>3, <1>4, <2>1, <2>2 DEF JobEpoch
<1>10. ASSUME NEW e \in Int, e < n, JobAfter(r, e), NEW i \in 1 .. Len(q)
       PROVE  q[i].prev > e
  <2>1. CASE i \in 1 .. Len(r.pend)
        BY <1>6, <1>10, <2>1 DEF JobAfter
  <2>2. CASE i = Len(q)
        BY <1>2, <1>6, <1>10, <2>2
  <2> QED  BY <1>6, <1>7, <2>1, <2>2
<1>11. CASE Unmoved(r, s)
  <2>1. s = r /\ r.phase = "finishing" /\ r.pend = <<>>
        BY <1>0, <1>11 DEF Unmoved, JobOrder
  <2>2. JobBounds(s, n + 1)
        BY <1>1, <1>4, <1>9, <2>1 DEF JobBounds
  <2>3. JobOrder(s, n + 1)
        BY <1>0, <1>1, <1>9, <2>1 DEF JobOrder
  <2>4. JobChain(s, n + 1)
        BY <1>0, <2>1 DEF JobChain
  <2> QED  BY <2>1, <2>2, <2>3, <2>4 DEF JobOk
<1>12. CASE Queues(r, b, s) \/ Fakes(r, b, s)
  <2>1. /\ s.pend = q /\ s.snap = r.snap /\ s.phase = "snapshot" /\ r.phase = "snapshot"
        /\ s.graph.collected = r.graph.collected
        /\ \/ s.fake = r.fake /\ s.graph.inflight = r.graph.inflight
           \/ /\ s.fake = r.fake + 1
              /\ s.graph.inflight
                   = r.graph.inflight \cup {Barrier(r.fake, r.fake + 1, b.ckpt)}
    <3>1. CASE Queues(r, b, s)
          BY <1>5, <3>1 DEF Queues, Rec
    <3>2. CASE Fakes(r, b, s)
          BY <1>5, <3>2 DEF Fakes, Rec
    <3> QED  BY <1>12, <3>1, <3>2
  <2>2. PICK f : f = Barrier(r.fake, r.fake + 1, b.ckpt)
        OBVIOUS
  <2>3. f.prev = r.fake /\ f.curr = r.fake + 1
        BY <2>2, BarrierFields
  <2>4. /\ r.fake <= n - Base
        /\ \A c \in Outstanding(r) : c.prev < r.fake
        /\ \A i \in 1 .. Len(r.pend) : r.pend[i].prev >= r.snap
        /\ Chained(Outstanding(r), r.fake)
        /\ r.pend # <<>> /\ r.pend[1].prev = r.snap
        BY <1>0, <2>1 DEF JobOrder, JobChain
  <2>5. \A i \in 1 .. Len(q) : q[i].prev >= r.snap
    <3> TAKE i \in 1 .. Len(q)
    <3>1. CASE i \in 1 .. Len(r.pend)
          BY <1>6, <2>4, <3>1
    <3>2. CASE i = Len(q)
          BY <1>1, <1>2, <1>6, <1>9, <3>2
    <3> QED  BY <1>6, <1>7, <3>1, <3>2
  <2>6. \/ s.fake = r.fake /\ Outstanding(s) = Outstanding(r)
        \/ s.fake = r.fake + 1 /\ Outstanding(s) = Outstanding(r) \cup {f}
        BY <2>1, <2>2 DEF Outstanding
  <2>7. r.fake < Base /\ s.fake <= (n + 1) - Base /\ s.fake <= r.snap /\ s.fake < n + 1
    <3>1. MaxEpoch \in Nat
          BY CCAssumption
    <3>2. r.fake <= n - Base /\ r.snap >= Base /\ r.fake < n
          BY <1>9, <2>4
    <3>3. s.fake = r.fake \/ s.fake = r.fake + 1
          BY <2>6
    <3> QED  BY <1>1, <1>3, <3>1, <3>2, <3>3
  <2>8. \A c \in Outstanding(s) : c = f \/ c \in Outstanding(r)
        BY <2>6
  <2>9. JobBounds(s, n + 1)
    <3>1. \A c \in Outstanding(s) : c.prev < n + 1
          BY <1>1, <1>4, <1>9, <2>3, <2>8
    <3>2. s.snap < n + 1
          BY <1>1, <1>9, <2>1
    <3> QED  BY <1>6, <2>1, <2>7, <3>1, <3>2 DEF JobBounds
  <2>10. \A c \in Outstanding(s) : JobEpoch(s, c.prev, n + 1)
        BY <1>1, <1>3, <1>9, <2>1, <2>3, <2>4, <2>8 DEF JobEpoch
  <2>11. \A i \in 1 .. Len(q) : JobEpoch(s, q[i].prev, n + 1)
        BY <1>6, <2>1 DEF JobEpoch
  <2>12. \A c \in Outstanding(s) : c.prev < s.fake
        BY <1>1, <1>4, <2>3, <2>4, <2>6
  <2>13. \A c \in Outstanding(s), i \in 1 .. Len(q) : c.prev < q[i].prev
    <3> TAKE c \in Outstanding(s), i \in 1 .. Len(q)
    <3>1. CASE c \in Outstanding(r)
          BY <1>6, <3>1
    <3>2. CASE c = f
          BY <1>1, <1>3, <1>8, <1>9, <2>3, <2>5, <2>7, <3>2
    <3> QED  BY <2>8, <3>1, <3>2
  <2>14. GraphOrder(s.graph)
    <3>1. GraphOrder(r.graph)
          BY <1>0 DEF JobOrder
    <3>2. CASE s.graph.inflight = r.graph.inflight
          BY <2>1, <3>1, <3>2 DEF GraphOrder
    <3>3. CASE s.graph.inflight = r.graph.inflight \cup {f}
      <4>1. \A c \in r.graph.inflight \cup r.graph.collected : c.prev < f.prev /\ c.prev \in Nat
            BY <1>4, <2>3, <2>4 DEF Outstanding
      <4> QED  BY <1>1, <2>1, <2>3, <3>1, <3>3, <4>1 DEF GraphOrder
    <3> QED  BY <2>1, <2>2, <3>2, <3>3
  <2>15. JobOrder(s, n + 1)
    <3>1. s.snap >= Base /\ s.fake <= (n + 1) - Base
          BY <1>9, <2>1, <2>7
    <3>2. \A i, k \in 1 .. Len(s.pend) : i < k => s.pend[i].prev < s.pend[k].prev
          BY <1>6, <2>1
    <3>3. /\ \A c \in Outstanding(s), i \in 1 .. Len(s.pend) : c.prev < s.pend[i].prev
          /\ \A i \in 1 .. Len(s.pend) : JobEpoch(s, s.pend[i].prev, n + 1)
          /\ \A i \in 1 .. Len(s.pend) : s.pend[i].prev >= s.snap
          BY <2>1, <2>5, <2>11, <2>13
    <3>4. s.phase = "snapshot" /\ s.phase # "finishing"
          BY <2>1
    <3> QED  BY <2>10, <2>12, <2>14, <3>1, <3>2, <3>3, <3>4, Zenon DEF JobOrder
  <2>16. Chained(Outstanding(s), s.fake)
    <3>1. CASE s.fake = r.fake /\ Outstanding(s) = Outstanding(r)
          BY <2>4, <3>1
    <3>2. CASE s.fake = r.fake + 1 /\ Outstanding(s) = Outstanding(r) \cup {f}
          BY <2>3, <2>4, <3>2 DEF Chained
    <3> QED  BY <2>6, <3>1, <3>2
  <2>17. q # <<>> /\ q[1].prev = r.snap
        BY <1>6, <1>7, <2>4
  <2>18. \A c \in Outstanding(s) : c.prev < c.curr
    <3>1. \A c \in Outstanding(r) : c.prev < c.curr
          BY <1>0 DEF JobChain
    <3> QED  BY <1>1, <2>3, <2>8, <3>1
  <2>19. JobChain(s, n + 1)
        BY <1>6, <2>1, <2>16, <2>17, <2>18 DEF JobChain
  <2>20. ASSUME NEW e \in Int, e < n, JobAfter(r, e) PROVE JobAfter(s, e)
    <3>1. r.fake > e /\ \A c \in Outstanding(r) : c.prev > e
          BY <2>1, <2>20 DEF JobAfter
    <3>2. s.fake > e /\ \A c \in Outstanding(s) : c.prev > e
          BY <1>1, <2>3, <2>6, <2>8, <3>1
    <3>3. \A i \in 1 .. Len(q) : q[i].prev > e
          BY <1>10, <2>20
    <3> QED  BY <2>1, <3>2, <3>3 DEF JobAfter
  <2> QED  BY <2>9, <2>15, <2>19, <2>20 DEF JobOk
<1>13. ASSUME NEW m \in Nat, Drains(r, b, m, s)
       PROVE  /\ JobOk(s, n + 1)
              /\ \A e \in Int : e < n /\ JobAfter(r, e) => JobAfter(s, e)
  <2>1. /\ m \in 0 .. Len(q)
        /\ s.pend = SubSeq(q, m + 1, Len(q))
        /\ s.graph.inflight = r.graph.inflight \cup {q[i] : i \in 1 .. m}
        /\ s.graph.collected = r.graph.collected
        /\ s.snap = r.snap /\ s.fake = r.fake /\ s.phase = r.phase
        /\ s.phase = "log" /\ s.phase # "snapshot" /\ s.phase # "finishing"
    <3>1. Drained(r, q, m, s)
          BY <1>5, <1>13, DrainsFields
    <3> QED  BY <3>1 DEF Drained
  <2>2. /\ Len(s.pend) = Len(q) - m
        /\ \A i \in 1 .. Len(s.pend) : m + i \in 1 .. Len(q) /\ s.pend[i] = q[m + i]
    <3>1. m <= Len(q) /\ m + 1 \in 1 .. Len(q) + 1
          BY <1>7, <2>1
    <3>2. /\ Len(SubSeq(q, m + 1, Len(q))) = Len(q) - m
          /\ \A i \in 1 .. Len(q) - m : SubSeq(q, m + 1, Len(q))[i] = q[m + i]
          BY <1>6, <1>7, <3>1
    <3> QED  BY <1>7, <2>1, <3>1, <3>2
  <2>3. \A c \in Outstanding(s) : c \in Outstanding(r) \/ \E i \in 1 .. m : c = q[i]
        BY <2>1 DEF Outstanding
  <2>4. Outstanding(r) \subseteq Outstanding(s) /\ \A i \in 1 .. m : q[i] \in Outstanding(s)
        BY <2>1 DEF Outstanding
  <2>5. \A i \in 1 .. m : i \in 1 .. Len(q)
        BY <1>7, <2>1
  <2>6. JobBounds(s, n + 1)
    <3>1. \A c \in Outstanding(s) : c.prev < n + 1
          BY <1>4, <1>6, <1>9, <2>3, <2>5
    <3>2. s.snap < n + 1 /\ s.fake < n + 1
          BY <1>1, <1>9, <2>1
    <3>3. \A i \in 1 .. Len(s.pend) : s.pend[i].prev < n + 1
          BY <1>6, <2>2
    <3> QED  BY <3>1, <3>2, <3>3 DEF JobBounds
  <2>7. GraphOrder(s.graph)
    <3>1. GraphOrder(r.graph)
          BY <1>0 DEF JobOrder
    <3>2. \A c \in s.graph.inflight : c \in r.graph.inflight \/ \E i \in 1 .. m : c = q[i]
          BY <2>1
    <3>3. \A c \in r.graph.inflight \cup r.graph.collected, i \in 1 .. m :
             c.prev < q[i].prev /\ c.prev \in Nat
          BY <1>4, <1>6, <2>5 DEF Outstanding
    <3>4. ASSUME NEW c \in s.graph.collected, NEW d \in s.graph.inflight
          PROVE  c.prev < d.prev
          BY <2>1, <3>1, <3>2, <3>3 DEF GraphOrder
    <3>5. \A c, d \in s.graph.collected : c.prev = d.prev => c = d
          BY <2>1, <3>1 DEF GraphOrder
    <3>6. ASSUME NEW c \in s.graph.inflight, NEW d \in s.graph.inflight, c.prev = d.prev
          PROVE  c = d
      <4>1. CASE c \in r.graph.inflight /\ d \in r.graph.inflight
            BY <3>1, <3>6, <4>1 DEF GraphOrder
      <4>2. CASE c \in r.graph.inflight /\ \E i \in 1 .. m : d = q[i]
            BY <3>3, <3>6, <4>2
      <4>3. CASE d \in r.graph.inflight /\ \E i \in 1 .. m : c = q[i]
            BY <3>3, <3>6, <4>3
      <4>4. ASSUME NEW i \in 1 .. m, c = q[i], NEW k \in 1 .. m, d = q[k] PROVE c = d
        <5>1. q[i].prev \in Nat /\ q[k].prev \in Nat
              BY <1>8, <2>5
        <5>2. ~(i < k) /\ ~(k < i)
              BY <1>6, <2>5, <3>6, <4>4, <5>1
        <5>3. i = k
              BY <5>2
        <5> QED  BY <4>4, <5>3
      <4> QED  BY <3>2, <4>1, <4>2, <4>3, <4>4
    <3> QED  BY <3>4, <3>5, <3>6 DEF GraphOrder
  <2>8. \A c \in Outstanding(s), i \in 1 .. Len(s.pend) : c.prev < s.pend[i].prev
    <3> TAKE c \in Outstanding(s), i \in 1 .. Len(s.pend)
    <3>1. CASE c \in Outstanding(r)
          BY <1>6, <2>2, <3>1
    <3>2. ASSUME NEW k \in 1 .. m, c = q[k] PROVE c.prev < s.pend[i].prev
      <4>1. m + i \in 1 .. Len(q) /\ s.pend[i] = q[m + i]
            BY <2>2
      <4>2. k \in 1 .. Len(q) /\ k < m + i
            BY <2>2, <2>5
      <4> QED  BY <1>6, <3>2, <4>1, <4>2
    <3> QED  BY <2>3, <3>1, <3>2
  <2>9. ASSUME NEW i \in 1 .. Len(s.pend), NEW k \in 1 .. Len(s.pend), i < k
        PROVE  s.pend[i].prev < s.pend[k].prev
    <3>1. /\ m + i \in 1 .. Len(q) /\ s.pend[i] = q[m + i]
          /\ m + k \in 1 .. Len(q) /\ s.pend[k] = q[m + k]
          BY <2>2
    <3>2. m + i < m + k
          BY <2>9
    <3> QED  BY <1>6, <3>1, <3>2
  <2>10. \A c \in Outstanding(s) : JobEpoch(s, c.prev, n + 1)
    <3>1. \A x : JobEpoch(s, x, n + 1) <=> JobEpoch(r, x, n + 1)
          BY <2>1 DEF JobEpoch
    <3> QED  BY <1>6, <1>9, <2>3, <2>5, <3>1
  <2>11. \A i \in 1 .. Len(s.pend) : JobEpoch(s, s.pend[i].prev, n + 1)
    <3>1. \A x : JobEpoch(s, x, n + 1) <=> JobEpoch(r, x, n + 1)
          BY <2>1 DEF JobEpoch
    <3> QED  BY <1>6, <2>2, <3>1
  <2>12. s.snap >= Base
         BY <1>9, <2>1
  <2>13. JobOrder(s, n + 1)
         BY <2>1, <2>7, <2>8, <2>9, <2>10, <2>11, <2>12, Zenon DEF JobOrder
  <2>14. \A c \in Outstanding(s) : c.prev < c.curr
    <3>1. \A c \in Outstanding(r) : c.prev < c.curr
          BY <1>0 DEF JobChain
    <3> QED  BY <1>6, <2>3, <2>5, <3>1
  <2>15. ASSUME NEW i \in 1 .. Len(s.pend)
         PROVE  /\ s.pend[i].prev < s.pend[i].curr
                /\ s.pend[i].curr = IF i = Len(s.pend) THEN n + 1 ELSE s.pend[i + 1].prev
    <3>1. m + i \in 1 .. Len(q) /\ s.pend[i] = q[m + i]
          BY <2>2
    <3>2. q[m + i].prev < q[m + i].curr
          BY <1>6, <3>1
    <3>3. CASE i = Len(s.pend)
      <4>1. m + i = Len(q)
            BY <1>7, <2>1, <2>2, <3>3
      <4> QED  BY <1>6, <3>1, <3>2, <3>3, <4>1
    <3>4. CASE i # Len(s.pend)
      <4>1. m + i # Len(q) /\ i + 1 \in 1 .. Len(s.pend) /\ (m + i) + 1 = m + (i + 1)
            BY <1>7, <2>1, <2>2, <3>4
      <4>2. s.pend[i + 1] = q[(m + i) + 1]
            BY <2>2, <4>1
      <4>3. q[m + i].curr = q[(m + i) + 1].prev
            BY <1>6, <3>1, <4>1
      <4> QED  BY <3>1, <3>2, <3>4, <4>2, <4>3
    <3> QED  BY <3>3, <3>4
  <2>16. PICK end : end = IF s.pend = <<>> THEN n + 1 ELSE s.pend[1].prev
         OBVIOUS
  <2>17. m < Len(q) => end = q[m + 1].prev
    <3> SUFFICES ASSUME m < Len(q) PROVE end = q[m + 1].prev
        OBVIOUS
    <3>1. Len(s.pend) > 0 /\ 1 \in 1 .. Len(s.pend) /\ s.pend # <<>>
          BY <1>6, <1>7, <2>1, <2>2
    <3>2. s.pend[1] = q[m + 1]
          BY <2>2, <3>1
    <3> QED  BY <2>16, <3>1, <3>2
  <2>18. m = Len(q) => end = n + 1
         BY <1>6, <1>7, <2>1, <2>2, <2>16
  <2>19. Chained(Outstanding(s), end)
    <3> SUFFICES ASSUME NEW c \in Outstanding(s)
                 PROVE  c.curr = end \/ \E d \in Outstanding(s) : d.prev = c.curr
        BY DEF Chained
    <3>1. CASE c \in Outstanding(r)
      <4>1. Chained(Outstanding(r), q[1].prev)
            BY <1>0, <1>6, <2>1 DEF JobChain
      <4>2. c.curr = q[1].prev \/ \E d \in Outstanding(r) : d.prev = c.curr
            BY <3>1, <4>1 DEF Chained
      <4>3. CASE m = 0
            BY <1>7, <2>4, <2>17, <4>2, <4>3
      <4>4. CASE m # 0
            BY <2>4, <4>2, <4>4
      <4> QED  BY <4>3, <4>4
    <3>2. ASSUME NEW i \in 1 .. m, c = q[i]
          PROVE  c.curr = end \/ \E d \in Outstanding(s) : d.prev = c.curr
      <4>1. i \in 1 .. Len(q) /\ c.curr = IF i = Len(q) THEN n + 1 ELSE q[i + 1].prev
            BY <1>6, <2>5, <3>2
      <4>2. CASE i < m
            BY <1>7, <2>1, <2>4, <4>1, <4>2
      <4>3. CASE i = m
            BY <1>7, <2>1, <2>17, <2>18, <4>1, <4>3
      <4> QED  BY <4>2, <4>3
    <3> QED  BY <2>3, <3>1, <3>2
  <2>20. JobChain(s, n + 1)
         BY <2>1, <2>14, <2>15, <2>16, <2>19 DEF JobChain
  <2>21. ASSUME NEW e \in Int, e < n, JobAfter(r, e) PROVE JobAfter(s, e)
    <3>1. \A c \in Outstanding(r) : c.prev > e
          BY <2>21 DEF JobAfter
    <3>2. \A i \in 1 .. Len(q) : q[i].prev > e
          BY <1>10, <2>21
    <3>3. \A c \in Outstanding(s) : c.prev > e
          BY <2>3, <2>5, <3>1, <3>2
    <3>4. \A i \in 1 .. Len(s.pend) : s.pend[i].prev > e
          BY <2>2, <3>2
    <3> QED  BY <2>1, <3>3, <3>4 DEF JobAfter
  <2> QED  BY <2>6, <2>13, <2>20, <2>21 DEF JobOk
<1> QED  BY <1>2, <1>11, <1>12, <1>13, ForwardCases

------------------------------------------------------------------------------
(* A job that is created, and one that merges. *)

LEMMA FirstBarrierFields ==
  /\ FirstBarrier \in JobBarriers
  /\ FirstBarrier.prev = 0 /\ FirstBarrier.curr = 1 /\ FirstBarrier.ckpt
BY DEF FirstBarrier, Barrier, JobBarriers

LEMMA NewJobFields ==
  ASSUME NEW n \in Nat
  PROVE  /\ NewJob(n) \in JobRecords /\ FiniteGraph(NewJob(n).graph)
         /\ NewJob(n).ctl = "running" /\ NewJob(n).phase = "snapshot"
         /\ NewJob(n).snap = n /\ NewJob(n).fake = 1 /\ NewJob(n).pend = <<>>
         /\ NewJob(n).graph = [inflight |-> {FirstBarrier}, collected |-> {},
                               completing |-> {}]
         /\ (\A ov \in Nat : JobRoom(NewJob(n), ov))
<1>1. PICK g : g = InjectInto(EmptyGraph, {FirstBarrier})
      OBVIOUS
<1>2. PICK r : r = NoJob /\ r \in JobRecords
      BY NoJobFields
<1>3. g = [inflight |-> {FirstBarrier}, collected |-> {}, completing |-> {}]
      BY <1>1, EmptyGraphFinite, InjectFields DEF EmptyGraph
<1>4. NewJob(n) = Rec("running", r.ready, r.phase, n, 1, r.pend, r.inLog, r.logDone,
                      r.finishAt, g)
      BY <1>1, <1>2, StartFields, Zenon DEF FirstBarrier
<1>5. FirstBarrier \in JobBarriers
      BY FirstBarrierFields
<1>6. g \in Graphs(JobBarriers)
      BY <1>3, <1>5 DEF Graphs
<1>7. NewJob(n) \in JobRecords
      BY <1>2, <1>4, <1>6 DEF JobRecords, Rec
<1>8. FiniteGraph(g) /\ PendingNum(g) = 1 /\ Cardinality(g.completing) = 0
  <2>1. IsFiniteSet({FirstBarrier}) /\ Cardinality({FirstBarrier}) = 1
        BY FS_Singleton
  <2> QED  BY <1>3, <2>1, FS_EmptySet DEF FiniteGraph, PendingNum
<1>9. /\ NewJob(n).ctl = "running" /\ NewJob(n).phase = "snapshot" /\ NewJob(n).snap = n
      /\ NewJob(n).fake = 1 /\ NewJob(n).pend = <<>> /\ NewJob(n).graph = g
      BY <1>2, <1>4, NoJobFields DEF Rec
<1>10. \A ov \in Nat : JobRoom(NewJob(n), ov)
      BY <1>8, <1>9, CCAssumption DEF JobRoom
<1> QED  BY <1>3, <1>7, <1>8, <1>9, <1>10

\* The new job follows the barrier that creates it.
LEMMA NewJobFollows ==
  ASSUME NEW n \in Nat, NEW ck \in BOOLEAN, n > Base, n <= Base + MaxEpoch,
         NEW b, b = Barrier(n, n + 1, ck), NEW mu,
         NEW s, s = Forward(NewJob(n), b, mu),
         NEW ov \in Nat, NEW ow, ow = OverAfter(NewJob(n), ov, mu)
  PROVE  /\ s \in JobRecords /\ FiniteGraph(s.graph) /\ JobRoom(s, ow)
         /\ s.ctl = "running" /\ s.phase = "snapshot" /\ s.snap = n
         /\ s.graph.completing = {}
         /\ FirstBarrier \in s.graph.inflight
         /\ JobOk(s, n + 1) /\ JobAfter(s, None)
<1>1. PICK r : r = NewJob(n)
      OBVIOUS
<1>2. /\ r \in JobRecords /\ FiniteGraph(r.graph) /\ JobRoom(r, ov)
      /\ r.ctl = "running" /\ r.phase = "snapshot" /\ r.snap = n /\ r.fake = 1
      /\ r.pend = <<>>
      /\ r.graph = [inflight |-> {FirstBarrier}, collected |-> {}, completing |-> {}]
      BY <1>1, NewJobFields
<1>3. b \in JobBarriers /\ b.prev = n /\ b.curr = n + 1 /\ b.ckpt = ck
      BY BarrierFields
<1>4. /\ s \in JobRecords /\ FiniteGraph(s.graph) /\ s.ctl = "running"
      /\ s.phase = "snapshot" /\ s.snap = n /\ s.graph.collected = {}
      /\ s.graph.completing = {} /\ FirstBarrier \in s.graph.inflight
      BY <1>1, <1>2, <1>3, ForwardType
<1>5. JobRoom(s, ow)
      BY <1>1, <1>2, <1>3, ForwardRoom
<1>6. FirstBarrier.prev = 0 /\ FirstBarrier.curr = 1
      BY FirstBarrierFields
<1>7. PICK f : f = Barrier(1, 2, ck)
      OBVIOUS
<1>8. f.prev = 1 /\ f.curr = 2
      BY <1>7, BarrierFields
<1>9. /\ s.pend = <<b>>
      /\ \/ s.fake = 1 /\ s.graph.inflight = {FirstBarrier}
         \/ s.fake = 2 /\ s.graph.inflight = {FirstBarrier, f}
  <2>1. Queues(r, b, s) \/ Fakes(r, b, s)
    <3>1. ~Unmoved(r, s) /\ ~(\E m \in Nat : Drains(r, b, m, s))
          BY <1>2 DEF Unmoved, Drains
    <3> QED  BY <1>1, <1>2, <1>3, <3>1, ForwardCases
  <2>2. CASE Queues(r, b, s)
        BY <1>2, <2>2 DEF Queues, Rec
  <2>3. CASE Fakes(r, b, s)
    <3>1. Barrier(r.fake, r.fake + 1, b.ckpt) = f
          BY <1>2, <1>3, <1>7 DEF Barrier
    <3> QED  BY <1>2, <2>3, <3>1 DEF Fakes, Rec
  <2> QED  BY <2>1, <2>2, <2>3
<1>10. Base \in Nat /\ Base = MaxEpoch + 1 /\ MaxEpoch \in Nat
      BY CCAssumption DEF Base
<1>11. /\ Len(s.pend) = 1 /\ s.pend[1] = b /\ s.pend # <<>>
       /\ \A i \in 1 .. Len(s.pend) : i = 1
  <2>1. s.pend = <<b>>
        BY <1>9
  <2>2. Len(<<b>>) = 1 /\ <<b>>[1] = b /\ <<b>> # <<>>
        OBVIOUS
  <2>3. Len(s.pend) = 1
        BY <2>1, <2>2
  <2>4. \A i \in 1 .. 1 : i = 1
        OBVIOUS
  <2> QED  BY <2>1, <2>2, <2>3, <2>4
<1>12. \/ s.fake = 1 /\ Outstanding(s) = {FirstBarrier}
       \/ s.fake = 2 /\ Outstanding(s) = {FirstBarrier, f}
      BY <1>4, <1>9 DEF Outstanding
<1>13. JobBounds(s, n + 1)
      BY <1>3, <1>4, <1>6, <1>8, <1>10, <1>11, <1>12 DEF JobBounds
<1>14. GraphOrder(s.graph)
      BY <1>4, <1>6, <1>8, <1>9 DEF GraphOrder
<1>15. /\ \A c \in Outstanding(s) : JobEpoch(s, c.prev, n + 1) /\ c.prev < s.fake
       /\ JobEpoch(s, b.prev, n + 1) /\ s.fake <= (n + 1) - Base
      BY <1>3, <1>4, <1>6, <1>8, <1>10, <1>12 DEF JobEpoch
<1>16. \A c \in Outstanding(s) : c.prev < b.prev
      BY <1>3, <1>6, <1>8, <1>10, <1>12
<1>17. s.snap >= Base
      BY <1>4, <1>10
<1>18. \A i \in 1 .. Len(s.pend) : s.pend[i].prev >= s.snap /\ JobEpoch(s, s.pend[i].prev, n + 1)
      BY <1>3, <1>4, <1>11, <1>15
<1>19. \A c \in Outstanding(s), i \in 1 .. Len(s.pend) : c.prev < s.pend[i].prev
      BY <1>11, <1>16
<1>20. \A i, k \in 1 .. Len(s.pend) : i < k => s.pend[i].prev < s.pend[k].prev
      BY <1>11
<1>21. s.phase # "finishing" /\ s.phase # "log"
      BY <1>4
<1>22. JobOrder(s, n + 1)
      BY <1>14, <1>15, <1>17, <1>18, <1>19, <1>20, <1>21, Zenon DEF JobOrder
<1>23. \A c \in Outstanding(s) : c.prev < c.curr
      BY <1>6, <1>8, <1>12
<1>24. Chained(Outstanding(s), s.fake)
      BY <1>6, <1>8, <1>12 DEF Chained
<1>25. JobChain(s, n + 1)
      BY <1>3, <1>4, <1>11, <1>21, <1>23, <1>24 DEF JobChain
<1>26. JobAfter(s, None)
      BY <1>3, <1>6, <1>8, <1>11, <1>12 DEF JobAfter, None
<1> QED  BY <1>4, <1>5, <1>13, <1>22, <1>25, <1>26 DEF JobOk

\* The types of a job's parts.
LEMMA RecordFacts ==
  ASSUME NEW r \in JobRecords
  PROVE  /\ r.pend \in Seq(JobBarriers) /\ r.graph \in Graphs(JobBarriers)
         /\ r.snap \in Nat /\ r.fake \in Nat /\ r.finishAt \in Nat
         /\ r.graph.inflight \subseteq JobBarriers /\ r.graph.collected \subseteq JobBarriers
         /\ r.graph.completing \subseteq Nat
         /\ Len(r.pend) \in Nat
         /\ \A c \in Outstanding(r) : c.prev \in Nat /\ c.curr \in Nat
         /\ \A i \in 1 .. Len(r.pend) : r.pend[i].prev \in Nat /\ r.pend[i].curr \in Nat
         /\ \A i \in 1 .. Len(r.pend) : r.pend[i] \in JobBarriers
<1>1. /\ r.pend \in Seq(JobBarriers) /\ r.graph \in Graphs(JobBarriers)
      /\ r.snap \in Nat /\ r.fake \in Nat /\ r.finishAt \in Nat
      BY DEF JobRecords
<1>2. /\ r.graph.inflight \subseteq JobBarriers /\ r.graph.collected \subseteq JobBarriers
      /\ r.graph.completing \subseteq Nat
      BY <1>1 DEF Graphs
<1>3. \A x \in JobBarriers : x.prev \in Nat /\ x.curr \in Nat
      BY DEF JobBarriers
<1>4. \A c \in Outstanding(r) : c.prev \in Nat /\ c.curr \in Nat
      BY <1>2, <1>3 DEF Outstanding
<1>5. Len(r.pend) \in Nat /\ \A i \in 1 .. Len(r.pend) : r.pend[i] \in JobBarriers
      BY <1>1
<1> QED  BY <1>1, <1>2, <1>3, <1>4, <1>5

\* A job that merges takes the database's barrier as its last one.
LEMMA MergeType ==
  ASSUME NEW r \in JobRecords, FiniteGraph(r.graph), NEW b \in JobBarriers,
         NEW s, s = StartConsumeUpstream(r, b)
  PROVE  /\ s \in JobRecords /\ FiniteGraph(s.graph)
         /\ s.ctl = r.ctl /\ s.ready = r.ready /\ s.phase = "finishing" /\ s.snap = r.snap
         /\ s.fake = r.fake /\ s.pend = r.pend /\ s.finishAt = b.prev
         /\ s.graph = [inflight |-> r.graph.inflight \cup {b},
                       collected |-> r.graph.collected, completing |-> r.graph.completing]
         /\ PendingNum(s.graph) <= PendingNum(r.graph) + 1
<1>1. PICK g : g = InjectInto(r.graph, {b})
      OBVIOUS
<1>2. s = Rec(r.ctl, r.ready, "finishing", r.snap, r.fake, r.pend, r.inLog, r.logDone,
              b.prev, g)
      BY <1>1, StartConsumeFields, Zenon
<1>3. g = [inflight |-> r.graph.inflight \cup {b},
           collected |-> r.graph.collected, completing |-> r.graph.completing]
      BY <1>1, RecordFacts, InjectFields
<1>4. IsFiniteSet({b}) /\ Cardinality({b}) = 1
      BY FS_Singleton
<1>5. FiniteGraph(g) /\ PendingNum(g) <= PendingNum(r.graph) + 1
      BY <1>3, <1>4, InjectedPending
<1>6. g \in Graphs(JobBarriers)
      BY <1>3, RecordFacts DEF Graphs
<1>7. b.prev \in Nat
      BY DEF JobBarriers
<1>8. s \in JobRecords
      BY <1>2, <1>6, <1>7 DEF JobRecords, Rec
<1>9. /\ s.ctl = r.ctl /\ s.ready = r.ready /\ s.phase = "finishing" /\ s.snap = r.snap
      /\ s.fake = r.fake /\ s.pend = r.pend /\ s.finishAt = b.prev /\ s.graph = g
      BY <1>2 DEF Rec
<1> QED  BY <1>3, <1>5, <1>8, <1>9

LEMMA MergeKeeps ==
  ASSUME NEW r \in JobRecords, FiniteGraph(r.graph), NEW n \in Nat, NEW ck \in BOOLEAN,
         NEW b, b = Barrier(n, n + 1, ck), r.phase = "log", r.pend = <<>>,
         n > Base, JobOk(r, n), NEW ov, JobRoom(r, ov), NEW s, s = StartConsumeUpstream(r, b)
  PROVE  /\ JobOk(s, n + 1) /\ JobRoom(s, ov)
         /\ \A e \in Int : e < n /\ JobAfter(r, e) => JobAfter(s, e)
<1>0. JobBounds(r, n) /\ JobOrder(r, n) /\ JobChain(r, n)
      BY DEF JobOk
<1>1. b \in JobBarriers /\ b.prev = n /\ b.curr = n + 1
      BY BarrierFields
<1>2. /\ s \in JobRecords /\ FiniteGraph(s.graph)
      /\ s.phase = "finishing" /\ s.snap = r.snap
      /\ s.fake = r.fake /\ s.pend = <<>> /\ s.finishAt = n
      /\ s.graph.inflight = r.graph.inflight \cup {b}
      /\ s.graph.collected = r.graph.collected /\ s.graph.completing = r.graph.completing
      /\ PendingNum(s.graph) <= PendingNum(r.graph) + 1
  <2>1. /\ s \in JobRecords /\ FiniteGraph(s.graph)
        /\ s.phase = "finishing" /\ s.snap = r.snap
        /\ s.fake = r.fake /\ s.pend = r.pend /\ s.finishAt = b.prev
        /\ s.graph = [inflight |-> r.graph.inflight \cup {b},
                      collected |-> r.graph.collected, completing |-> r.graph.completing]
        /\ PendingNum(s.graph) <= PendingNum(r.graph) + 1
        BY <1>1, MergeType
  <2>2. /\ s.graph.inflight = r.graph.inflight \cup {b}
        /\ s.graph.collected = r.graph.collected /\ s.graph.completing = r.graph.completing
        BY <2>1
  <2>3. s.finishAt = n /\ s.pend = <<>>
        BY <1>1, <2>1, Zenon
  <2> QED  BY <2>1, <2>2, <2>3, Zenon
<1>3. Outstanding(s) = Outstanding(r) \cup {b}
      BY <1>2 DEF Outstanding
<1>4. /\ r.snap \in Nat /\ r.fake \in Nat
      /\ \A c \in Outstanding(r) : c.prev \in Nat /\ c.curr \in Nat
      BY RecordFacts
<1>5. Base \in Int
      BY CCAssumption DEF Base
<1>6. /\ \A c \in Outstanding(r) : c.prev < n /\ JobEpoch(r, c.prev, n) /\ c.prev < c.curr
      /\ r.snap < n /\ r.fake < n /\ r.snap >= Base
      /\ Chained(Outstanding(r), n)
      BY <1>0 DEF JobBounds, JobOrder, JobChain
<1>7. Len(s.pend) = 0 /\ \A i \in 1 .. Len(s.pend) : FALSE
      BY <1>2
<1>8. JobBounds(s, n + 1)
      BY <1>1, <1>2, <1>3, <1>4, <1>6, <1>7 DEF JobBounds
<1>9. GraphOrder(s.graph)
  <2>1. GraphOrder(r.graph)
        BY <1>0 DEF JobOrder
  <2>2. \A c \in r.graph.inflight \cup r.graph.collected : c.prev < b.prev /\ c.prev \in Nat
        BY <1>1, <1>4, <1>6 DEF Outstanding
  <2> QED  BY <1>1, <1>2, <2>1, <2>2 DEF GraphOrder
<1>10. \A c \in Outstanding(s) : JobEpoch(s, c.prev, n + 1)
  <2>1. \A x : JobEpoch(s, x, n + 1) <=> JobEpoch(r, x, n + 1)
        BY <1>2 DEF JobEpoch
  <2>2. JobEpoch(r, b.prev, n + 1)
        BY <1>1, <1>4, <1>6 DEF JobEpoch
  <2>3. \A c \in Outstanding(r) : JobEpoch(r, c.prev, n + 1)
        BY <1>4, <1>5, <1>6 DEF JobEpoch
  <2> QED  BY <1>3, <2>1, <2>2, <2>3
<1>11. s.finishAt > s.snap /\ \A c \in Outstanding(s) : c.prev <= s.finishAt
      BY <1>1, <1>2, <1>3, <1>4, <1>6
<1>12. JobOrder(s, n + 1)
  <2>1. s.phase # "snapshot" /\ s.snap >= Base
        BY <1>2, <1>6
  <2> QED  BY <1>2, <1>7, <1>9, <1>10, <1>11, <2>1 DEF JobOrder
<1>13. Chained(Outstanding(s), s.finishAt + 1)
  <2> SUFFICES ASSUME NEW c \in Outstanding(s)
               PROVE  c.curr = n + 1 \/ \E d \in Outstanding(s) : d.prev = c.curr
      BY <1>2 DEF Chained
  <2>1. CASE c = b
        BY <1>1, <2>1
  <2>2. CASE c \in Outstanding(r)
    <3>1. c.curr = n \/ \E d \in Outstanding(r) : d.prev = c.curr
          BY <1>6, <2>2 DEF Chained
    <3> QED  BY <1>1, <1>3, <3>1
  <2> QED  BY <1>3, <2>1, <2>2
<1>14. JobChain(s, n + 1)
  <2>1. \A c \in Outstanding(s) : c.prev < c.curr
        BY <1>1, <1>3, <1>6
  <2>2. s.phase # "snapshot" /\ s.phase # "log"
        BY <1>2
  <2> QED  BY <1>7, <1>13, <2>1, <2>2 DEF JobChain
<1>15. JobRoom(s, ov)
  <2>1. /\ PendingNum(r.graph) <= MaxPending + ov /\ ov \in Nat
        /\ Cardinality(s.graph.completing) <= 1
        BY <1>2 DEF JobRoom
  <2>2. PendingNum(r.graph) \in Nat /\ PendingNum(s.graph) \in Nat /\ MaxPending \in Nat
        BY <1>2, PendingIsNat, CCAssumption
  <2> QED  BY <1>2, <2>1, <2>2 DEF JobRoom
<1>16. ASSUME NEW e \in Int, e < n, JobAfter(r, e) PROVE JobAfter(s, e)
  <2>1. \A c \in Outstanding(s) : c.prev > e
        BY <1>1, <1>3, <1>16 DEF JobAfter
  <2> QED  BY <1>2, <1>7, <2>1 DEF JobAfter
<1> QED  BY <1>8, <1>12, <1>14, <1>15, <1>16 DEF JobOk

------------------------------------------------------------------------------
(* Collecting and completing barriers of a graph. *)

\* Collecting moves the first barrier in flight, and keeps the order.
LEMMA CollectGraph ==
  ASSUME NEW B, \A x \in B : x.prev \in Nat, NEW g \in Graphs(B), g.inflight # {},
         NEW h, h = CollectFirst(g)
  PROVE  /\ h \in Graphs(B) /\ h.completing = g.completing
         /\ h.inflight \cup h.collected = g.inflight \cup g.collected
         /\ GraphOrder(g) => GraphOrder(h)
         /\ FiniteGraph(g) => FiniteGraph(h) /\ PendingNum(h) <= PendingNum(g)
<1>1. g.inflight \subseteq B /\ g.collected \subseteq B /\ g.completing \subseteq Nat
      BY DEF Graphs
<1>2. PICK f : f = FirstOf(g.inflight)
      OBVIOUS
<1>3. f \in g.inflight /\ \A c \in g.inflight : f.prev <= c.prev
  <2>1. \A c \in g.inflight : c.prev \in Nat
        BY <1>1
  <2> QED  BY <1>2, <2>1, FirstOfIsLeast
<1>4. h = [inflight |-> g.inflight \ {f}, collected |-> g.collected \cup {f},
           completing |-> g.completing]
      BY <1>2, CollectFirstFields, Zenon
<1>5. /\ h.inflight = g.inflight \ {f} /\ h.collected = g.collected \cup {f}
      /\ h.completing = g.completing
      BY <1>4
<1>6. h \in Graphs(B)
      BY <1>1, <1>3, <1>4 DEF Graphs
<1>7. h.inflight \cup h.collected = g.inflight \cup g.collected
      BY <1>3, <1>5
<1>8. ASSUME GraphOrder(g) PROVE GraphOrder(h)
  <2>1. /\ \A b \in g.collected, c \in g.inflight : b.prev < c.prev
        /\ \A b, c \in g.collected : b.prev = c.prev => b = c
        /\ \A b, c \in g.inflight : b.prev = c.prev => b = c
        BY <1>8 DEF GraphOrder
  <2>2. \A b \in g.inflight \cup g.collected : b.prev \in Nat
        BY <1>1
  <2>3. ASSUME NEW b \in h.collected, NEW c \in h.inflight PROVE b.prev < c.prev
    <3>1. CASE b \in g.collected
          BY <1>5, <2>1, <2>3, <3>1
    <3>2. CASE b = f
      <4>1. c \in g.inflight /\ c # f
            BY <1>5, <2>3
      <4>2. f.prev <= c.prev /\ f.prev # c.prev
            BY <1>3, <2>1, <4>1
      <4> QED  BY <1>3, <2>2, <3>2, <4>1, <4>2
    <3> QED  BY <1>5, <2>3, <3>1, <3>2
  <2>4. ASSUME NEW b \in h.collected, NEW c \in h.collected, b.prev = c.prev PROVE b = c
    <3>1. CASE b \in g.collected /\ c \in g.collected
          BY <2>1, <2>4, <3>1
    <3>2. CASE b = f /\ c \in g.collected
          BY <1>3, <2>1, <2>2, <2>4, <3>2
    <3>3. CASE b \in g.collected /\ c = f
          BY <1>3, <2>1, <2>2, <2>4, <3>3
    <3> QED  BY <1>5, <2>4, <3>1, <3>2, <3>3
  <2>5. \A b, c \in h.inflight : b.prev = c.prev => b = c
        BY <1>5, <2>1
  <2> QED  BY <2>3, <2>4, <2>5 DEF GraphOrder
<1>9. ASSUME FiniteGraph(g) PROVE FiniteGraph(h) /\ PendingNum(h) <= PendingNum(g)
  <2>1. IsFiniteSet(g.inflight) /\ IsFiniteSet(g.collected) /\ IsFiniteSet(g.completing)
        BY <1>9 DEF FiniteGraph
  <2>2. /\ IsFiniteSet(g.inflight \ {f})
        /\ Cardinality(g.inflight \ {f}) = Cardinality(g.inflight) - 1
        BY <1>3, <2>1, FS_RemoveElement
  <2>3. /\ IsFiniteSet(g.collected \cup {f})
        /\ Cardinality(g.collected \cup {f}) <= Cardinality(g.collected) + 1
    <3>1. Cardinality(g.collected) \in Nat
          BY <2>1, FS_CardinalityType
    <3>2. /\ IsFiniteSet(g.collected \cup {f})
          /\ Cardinality(g.collected \cup {f})
               = IF f \in g.collected THEN Cardinality(g.collected)
                 ELSE Cardinality(g.collected) + 1
          BY <2>1, FS_AddElement, Zenon
    <3> QED  BY <3>1, <3>2
  <2>4. FiniteGraph(h)
        BY <1>5, <2>1, <2>2, <2>3 DEF FiniteGraph
  <2>5. /\ Cardinality(g.inflight) \in Nat /\ Cardinality(g.collected) \in Nat
        /\ Cardinality(g.completing) \in Nat /\ Cardinality(h.collected) \in Nat
        BY <1>9, <2>4, PendingIsNat
  <2> QED  BY <1>5, <2>2, <2>3, <2>4, <2>5 DEF PendingNum
<1> QED  BY <1>5, <1>6, <1>7, <1>8, <1>9

\* Nothing is lost but a prefix of what was in the graph.
Suffix(r, s) ==
  /\ Outstanding(s) \subseteq Outstanding(r)
  /\ \A b \in Outstanding(s), c \in Outstanding(r) : b.prev < c.prev => c \in Outstanding(s)
  /\ GraphOrder(r.graph) => GraphOrder(s.graph)
  /\ s.pend = r.pend /\ s.snap = r.snap /\ s.fake = r.fake /\ s.phase = r.phase
  /\ s.finishAt = r.finishAt

LEMMA SuffixKeeps ==
  ASSUME NEW r \in JobRecords, NEW s, Suffix(r, s), NEW n
  PROVE  /\ JobOk(r, n) => JobOk(s, n)
         /\ \A e : JobAfter(r, e) => JobAfter(s, e)
         /\ \A e : JobEpoch(r, e, n) <=> JobEpoch(s, e, n)
<1>1. /\ Outstanding(s) \subseteq Outstanding(r)
      /\ \A b \in Outstanding(s), c \in Outstanding(r) :
           b.prev < c.prev => c \in Outstanding(s)
      /\ GraphOrder(r.graph) => GraphOrder(s.graph)
      /\ s.pend = r.pend /\ s.snap = r.snap /\ s.fake = r.fake /\ s.phase = r.phase
      /\ s.finishAt = r.finishAt
      BY DEF Suffix
<1>2. \A e : JobEpoch(r, e, n) <=> JobEpoch(s, e, n)
      BY <1>1 DEF JobEpoch
<1>3. \A e : JobAfter(r, e) => JobAfter(s, e)
      BY <1>1 DEF JobAfter
<1>4. ASSUME JobOk(r, n) PROVE JobOk(s, n)
  <2>0. JobBounds(r, n) /\ JobOrder(r, n) /\ JobChain(r, n)
        BY <1>4 DEF JobOk
  <2>1. JobBounds(s, n)
        BY <1>1, <2>0 DEF JobBounds
  <2>2. JobOrder(s, n)
        BY <1>1, <1>2, <2>0 DEF JobOrder
  <2>3. \A end : Chained(Outstanding(r), end) => Chained(Outstanding(s), end)
    <3> SUFFICES ASSUME NEW end, Chained(Outstanding(r), end), NEW b \in Outstanding(s)
                 PROVE  b.curr = end \/ \E c \in Outstanding(s) : c.prev = b.curr
        BY DEF Chained
    <3>1. b \in Outstanding(r) /\ b.prev < b.curr
          BY <1>1, <2>0 DEF JobChain
    <3>2. b.curr = end \/ \E c \in Outstanding(r) : c.prev = b.curr
          BY <3>1 DEF Chained
    <3> QED  BY <1>1, <3>1, <3>2
  <2>4. JobChain(s, n)
        BY <1>1, <2>0, <2>3 DEF JobChain
  <2> QED  BY <2>1, <2>2, <2>4 DEF JobOk
<1> QED  BY <1>2, <1>3, <1>4

\* A job that collects its first barrier.
LEMMA CollectJob ==
  ASSUME NEW r \in JobRecords, FiniteGraph(r.graph), r.graph.inflight # {}, NEW ov, JobRoom(r, ov),
         NEW w \in BOOLEAN,
         NEW s, s = Rec(r.ctl, r.ready, r.phase, r.snap, r.fake, r.pend, w, r.logDone,
                        r.finishAt, CollectFirst(r.graph))
  PROVE  /\ s \in JobRecords /\ FiniteGraph(s.graph) /\ JobRoom(s, ov)
         /\ s.ctl = r.ctl /\ s.ready = r.ready
         /\ Outstanding(s) = Outstanding(r) /\ s.graph.completing = r.graph.completing
         /\ Suffix(r, s)
<1>1. \A x \in JobBarriers : x.prev \in Nat
      BY DEF JobBarriers
<1>2. r.graph \in Graphs(JobBarriers)
      BY RecordFacts
<1>3. PICK h : h = CollectFirst(r.graph)
      OBVIOUS
<1>4. /\ h \in Graphs(JobBarriers) /\ h.completing = r.graph.completing
      /\ h.inflight \cup h.collected = r.graph.inflight \cup r.graph.collected
      /\ GraphOrder(r.graph) => GraphOrder(h)
      /\ FiniteGraph(h) /\ PendingNum(h) <= PendingNum(r.graph)
      BY <1>1, <1>2, <1>3, CollectGraph
<1>5. s = Rec(r.ctl, r.ready, r.phase, r.snap, r.fake, r.pend, w, r.logDone, r.finishAt, h)
      BY <1>3, Zenon
<1>6. /\ s.ctl = r.ctl /\ s.ready = r.ready /\ s.phase = r.phase /\ s.snap = r.snap
      /\ s.fake = r.fake /\ s.pend = r.pend /\ s.finishAt = r.finishAt /\ s.graph = h
      BY <1>5 DEF Rec
<1>7. s \in JobRecords
      BY <1>4, <1>5 DEF JobRecords, Rec
<1>8. Outstanding(s) = Outstanding(r)
      BY <1>4, <1>6 DEF Outstanding
<1>9. JobRoom(s, ov)
  <2>1. PendingNum(r.graph) \in Nat /\ PendingNum(h) \in Nat /\ MaxPending \in Nat
        BY <1>4, PendingIsNat, CCAssumption
  <2> QED  BY <1>4, <1>6, <2>1 DEF JobRoom
<1>10. Suffix(r, s)
      BY <1>4, <1>6, <1>8 DEF Suffix
<1> QED  BY <1>4, <1>6, <1>7, <1>8, <1>9, <1>10

\* The job turns to the log: the barrier that ends the fake epochs comes first.
LEMMA ToLogKeeps ==
  ASSUME NEW r \in JobRecords, NEW n \in Nat, n <= Base + MaxEpoch, JobOk(r, n),
         r.phase = "snapshot",
         NEW f \in JobBarriers, f.prev = r.fake, f.curr = r.snap,
         NEW s, s = Rec(r.ctl, r.ready, "log", r.snap, r.fake, <<f>> \o r.pend, r.inLog,
                        r.logDone, r.finishAt, r.graph)
  PROVE  /\ s \in JobRecords /\ s.ctl = r.ctl /\ s.ready = r.ready /\ s.phase = "log"
         /\ s.snap = r.snap /\ s.graph = r.graph /\ s.inLog = r.inLog
         /\ JobOk(s, n)
         /\ \A e : JobAfter(r, e) => JobAfter(s, e)
<1>0. JobBounds(r, n) /\ JobOrder(r, n) /\ JobChain(r, n)
      BY DEF JobOk
<1>1. /\ r.pend \in Seq(JobBarriers) /\ r.snap \in Nat /\ r.fake \in Nat
      /\ Len(r.pend) \in Nat
      /\ \A c \in Outstanding(r) : c.prev \in Nat /\ c.curr \in Nat
      /\ \A i \in 1 .. Len(r.pend) : r.pend[i].prev \in Nat /\ r.pend[i].curr \in Nat
      BY RecordFacts
<1>2. PICK q : q = <<f>> \o r.pend
      OBVIOUS
<1>3. /\ q \in Seq(JobBarriers) /\ Len(q) = Len(r.pend) + 1 /\ q[1] = f /\ q # <<>>
      /\ \A i \in 2 .. Len(q) : i - 1 \in 1 .. Len(r.pend) /\ q[i] = r.pend[i - 1]
      BY <1>1, <1>2
<1>4. s = Rec(r.ctl, r.ready, "log", r.snap, r.fake, q, r.inLog, r.logDone, r.finishAt,
              r.graph)
      BY <1>2, Zenon
<1>5. /\ s.ctl = r.ctl /\ s.ready = r.ready /\ s.phase = "log" /\ s.snap = r.snap
      /\ s.fake = r.fake /\ s.pend = q /\ s.finishAt = r.finishAt /\ s.graph = r.graph
      /\ s.inLog = r.inLog
      BY <1>4 DEF Rec
<1>6. s \in JobRecords
      BY <1>3, <1>4 DEF JobRecords, Rec
<1>7. Outstanding(s) = Outstanding(r)
      BY <1>5 DEF Outstanding
<1>8. Base \in Nat /\ Base = MaxEpoch + 1 /\ MaxEpoch \in Nat
      BY CCAssumption DEF Base
<1>9. /\ r.fake <= n - Base /\ r.snap >= Base /\ r.fake < n /\ r.snap < n
      /\ \A c \in Outstanding(r) : c.prev < r.fake /\ c.prev < n /\ c.prev < c.curr
      /\ \A i \in 1 .. Len(r.pend) : r.pend[i].prev >= r.snap
      /\ Chained(Outstanding(r), r.fake)
      /\ r.pend # <<>> /\ r.pend[1].prev = r.snap
      BY <1>0 DEF JobBounds, JobOrder, JobChain
<1>10. r.fake < Base /\ r.fake < r.snap
      BY <1>1, <1>8, <1>9
<1>11. \A i \in 1 .. Len(q) : i = 1 \/ i \in 2 .. Len(q)
      BY <1>1, <1>3
<1>12. \A x : JobEpoch(s, x, n) <=> JobEpoch(r, x, n)
      BY <1>5 DEF JobEpoch
<1>13. JobBounds(s, n)
  <2>1. \A i \in 1 .. Len(q) : q[i].prev < n
    <3> TAKE i \in 1 .. Len(q)
    <3>1. CASE i = 1
          BY <1>3, <1>9, <3>1
    <3>2. CASE i \in 2 .. Len(q)
          BY <1>0, <1>3, <3>2 DEF JobBounds
    <3> QED  BY <1>11, <3>1, <3>2
  <2> QED  BY <1>5, <1>7, <1>9, <2>1 DEF JobBounds
<1>14. JobOrder(s, n)
  <2>1. GraphOrder(s.graph)
        BY <1>0, <1>5 DEF JobOrder
  <2>2. \A c \in Outstanding(s), i \in 1 .. Len(q) : c.prev < q[i].prev
    <3> TAKE c \in Outstanding(s), i \in 1 .. Len(q)
    <3>1. CASE i = 1
          BY <1>3, <1>7, <1>9, <3>1
    <3>2. CASE i \in 2 .. Len(q)
          BY <1>0, <1>3, <1>7, <3>2 DEF JobOrder
    <3> QED  BY <1>11, <3>1, <3>2
  <2>3. ASSUME NEW i \in 1 .. Len(q), NEW k \in 1 .. Len(q), i < k
        PROVE  q[i].prev < q[k].prev
    <3>1. k \in 2 .. Len(q) /\ q[k] = r.pend[k - 1] /\ k - 1 \in 1 .. Len(r.pend)
          BY <1>3, <1>11, <2>3
    <3>2. CASE i = 1
      <4>1. q[i].prev = r.fake
            BY <1>3, <3>2
      <4>2. r.pend[k - 1].prev >= r.snap /\ r.pend[k - 1].prev \in Nat
            BY <1>1, <1>9, <3>1
      <4> QED  BY <1>1, <1>10, <3>1, <4>1, <4>2
    <3>3. CASE i \in 2 .. Len(q)
      <4>1. i - 1 \in 1 .. Len(r.pend) /\ q[i] = r.pend[i - 1] /\ i - 1 < k - 1
            BY <1>3, <2>3, <3>3
      <4> QED  BY <1>0, <3>1, <4>1 DEF JobOrder
    <3> QED  BY <1>11, <3>2, <3>3
  <2>4. \A c \in Outstanding(s) : JobEpoch(s, c.prev, n)
        BY <1>0, <1>7, <1>12 DEF JobOrder
  <2>5. \A i \in 1 .. Len(q) : JobEpoch(s, q[i].prev, n)
    <3> TAKE i \in 1 .. Len(q)
    <3>1. CASE i = 1
      <4>1. JobEpoch(r, r.fake, n)
            BY <1>9 DEF JobEpoch
      <4> QED  BY <1>3, <1>12, <3>1, <4>1
    <3>2. CASE i \in 2 .. Len(q)
          BY <1>0, <1>3, <1>12, <3>2 DEF JobOrder
    <3> QED  BY <1>11, <3>1, <3>2
  <2>6. s.phase # "snapshot" /\ s.phase # "finishing" /\ s.snap >= Base
        BY <1>5, <1>9
  <2> QED  BY <1>5, <2>1, <2>2, <2>3, <2>4, <2>5, <2>6, Zenon DEF JobOrder
<1>15. JobChain(s, n)
  <2>1. ASSUME NEW i \in 1 .. Len(q)
        PROVE  /\ q[i].prev < q[i].curr
               /\ q[i].curr = IF i = Len(q) THEN n ELSE q[i + 1].prev
    <3>1. CASE i = 1
      <4>1. Len(q) >= 2 /\ 2 \in 2 .. Len(q) /\ q[2] = r.pend[1]
            BY <1>1, <1>3, <1>9
      <4> QED  BY <1>3, <1>9, <1>10, <3>1, <4>1
    <3>2. CASE i \in 2 .. Len(q)
      <4>1. i - 1 \in 1 .. Len(r.pend) /\ q[i] = r.pend[i - 1]
            BY <1>3, <3>2
      <4>2. /\ r.pend[i - 1].prev < r.pend[i - 1].curr
            /\ r.pend[i - 1].curr = IF i - 1 = Len(r.pend) THEN n ELSE r.pend[(i - 1) + 1].prev
            BY <1>0, <4>1 DEF JobChain
      <4>3. (i - 1) + 1 = i /\ (i + 1) - 1 = i
            OBVIOUS
      <4>4. CASE i = Len(q)
            BY <1>1, <1>3, <4>1, <4>2, <4>4
      <4>5. CASE i # Len(q)
        <5>1. i + 1 \in 2 .. Len(q) /\ i - 1 # Len(r.pend)
              BY <1>1, <1>3, <4>5
        <5>2. q[i + 1] = r.pend[(i + 1) - 1]
              BY <1>3, <5>1
        <5> QED  BY <4>1, <4>2, <4>3, <4>5, <5>1, <5>2
      <4> QED  BY <4>4, <4>5
    <3> QED  BY <1>11, <3>1, <3>2
  <2>2. s.phase # "snapshot" /\ s.phase # "finishing"
        BY <1>5
  <2>3. Chained(Outstanding(s), q[1].prev)
        BY <1>3, <1>7, <1>9
  <2>4. \A c \in Outstanding(s) : c.prev < c.curr
        BY <1>7, <1>9
  <2>5. Chained(Outstanding(s), IF s.pend = <<>> THEN n ELSE s.pend[1].prev)
        BY <1>3, <1>5, <2>3
  <2>6. \A i \in 1 .. Len(s.pend) : s.pend[i].prev < s.pend[i].curr
        BY <1>5, <2>1
  <2>7. \A i \in 1 .. Len(s.pend) :
          s.pend[i].curr = IF i = Len(s.pend) THEN n ELSE s.pend[i + 1].prev
        BY <1>5, <2>1, Zenon
  <2> QED  BY <2>2, <2>4, <2>5, <2>6, <2>7, Zenon DEF JobChain
<1>16. ASSUME NEW e, JobAfter(r, e) PROVE JobAfter(s, e)
  <2>1. /\ r.fake > e /\ \A c \in Outstanding(s) : c.prev > e
        /\ \A i \in 1 .. Len(r.pend) : r.pend[i].prev > e
        BY <1>7, <1>16 DEF JobAfter
  <2>2. \A i \in 1 .. Len(q) : q[i].prev > e
        BY <1>3, <1>11, <2>1
  <2> QED  BY <1>5, <2>1, <2>2 DEF JobAfter
<1> QED  BY <1>5, <1>6, <1>13, <1>14, <1>15, <1>16 DEF JobOk

\* What start_completing takes off a graph.
LEMMA CompleteGraph ==
  ASSUME NEW B, \A x \in B : x.prev \in Nat, NEW g \in Graphs(B), NEW bound \in Int,
         NEW P, P = PoppedFrom(g, bound), NEW h, h = StartCompletingGraph(g, bound)
  PROVE  /\ h \in Graphs(B)
         /\ h.inflight = g.inflight /\ h.collected = g.collected \ P
         /\ P \subseteq g.collected
         /\ h.completing = {b.prev : b \in CheckpointOf(P)}
         /\ IsFiniteSet(h.completing) /\ Cardinality(h.completing) <= 1
<1>1. g.inflight \subseteq B /\ g.collected \subseteq B /\ g.completing \subseteq Nat
      BY DEF Graphs
<1>2. PICK T : T = {b.prev : b \in CheckpointOf(P)}
      OBVIOUS
<1>3. h = [inflight |-> g.inflight, collected |-> g.collected \ P, completing |-> T]
      BY <1>2, StartCompletingFields, Zenon
<1>4. P \subseteq g.collected /\ \A b, c \in CheckpointOf(P) : b.prev = c.prev
  <2>1. \A b \in g.collected : b.prev \in Nat
        BY <1>1
  <2> QED  BY <2>1, PoppedIsPrefix
<1>5. CheckpointOf(P) \subseteq g.collected
      BY <1>4 DEF CheckpointOf
<1>6. T \subseteq Nat
      BY <1>1, <1>2, <1>5
<1>7. h \in Graphs(B)
      BY <1>1, <1>3, <1>6 DEF Graphs
<1>8. IsFiniteSet(T) /\ Cardinality(T) <= 1
  <2>1. CASE CheckpointOf(P) = {}
    <3>1. T = {}
          BY <1>2, <2>1
    <3> QED  BY <3>1, FS_EmptySet
  <2>2. CASE CheckpointOf(P) # {}
    <3>1. PICK c : c \in CheckpointOf(P)
          BY <2>2
    <3>2. T = {c.prev}
          BY <1>2, <1>4, <3>1
    <3>3. IsFiniteSet({c.prev}) /\ Cardinality({c.prev}) = 1
          BY FS_Singleton
    <3> QED  BY <3>2, <3>3
  <2> QED  BY <2>1, <2>2
<1> QED  BY <1>2, <1>3, <1>4, <1>7, <1>8

\* It leaves a suffix of the graph, and what is taken comes before it.
LEMMA CompleteOrder ==
  ASSUME NEW B, \A x \in B : x.prev \in Nat, NEW g \in Graphs(B), NEW bound \in Int,
         NEW P, P = PoppedFrom(g, bound), NEW h, h = StartCompletingGraph(g, bound),
         GraphOrder(g)
  PROVE  /\ GraphOrder(h)
         /\ \A b \in h.inflight \cup h.collected, c \in g.inflight \cup g.collected :
              b.prev < c.prev => c \in h.inflight \cup h.collected
         /\ \A c \in CheckpointOf(P), b \in h.inflight \cup h.collected : c.prev < b.prev
<1>1. g.inflight \subseteq B /\ g.collected \subseteq B
      BY DEF Graphs
<1>2. /\ h.inflight = g.inflight /\ h.collected = g.collected \ P
      /\ P \subseteq g.collected
      BY CompleteGraph
<1>3. /\ \A b \in g.collected, c \in g.inflight : b.prev < c.prev
      /\ \A b, c \in g.collected : b.prev = c.prev => b = c
      /\ \A b, c \in g.inflight : b.prev = c.prev => b = c
      BY DEF GraphOrder
<1>4. \A b \in g.collected : b.prev \in Nat
      BY <1>1
<1>5. /\ \A c \in P, b \in g.collected : b.prev <= c.prev => b \in P
      /\ \A c \in CheckpointOf(P), b \in g.collected : b \notin P => c.prev < b.prev
      BY <1>4, PoppedIsPrefix
<1>6. GraphOrder(h)
      BY <1>2, <1>3 DEF GraphOrder
<1>7. ASSUME NEW b \in h.inflight \cup h.collected, NEW c \in g.inflight \cup g.collected,
             b.prev < c.prev, c \notin h.inflight \cup h.collected
      PROVE  FALSE
  <2>1. c \in P /\ c \in g.collected
        BY <1>2, <1>7
  <2>2. b.prev \in Nat /\ c.prev \in Nat
        BY <1>1, <1>2, <1>7
  <2>3. CASE b \in g.inflight
    <3>1. c.prev < b.prev
          BY <1>3, <2>1, <2>3
    <3> QED  BY <1>7, <2>2, <3>1
  <2>4. CASE b \in g.collected \ P
    <3>1. b.prev <= c.prev
          BY <1>7, <2>2
    <3> QED  BY <1>5, <2>1, <2>4, <3>1
  <2> QED  BY <1>2, <1>7, <2>3, <2>4
<1>8. ASSUME NEW c \in CheckpointOf(P), NEW b \in h.inflight \cup h.collected
      PROVE  c.prev < b.prev
  <2>1. c \in P
        BY DEF CheckpointOf
  <2>2. CASE b \in g.inflight
        BY <1>2, <1>3, <2>1, <2>2
  <2>3. CASE b \in g.collected \ P
        BY <1>5, <2>3
  <2> QED  BY <1>2, <1>8, <2>2, <2>3
<1> QED  BY <1>6, <1>7, <1>8

\* A graph with nothing under commit does not grow.
LEMMA CompleteRoom ==
  ASSUME NEW B, \A x \in B : x.prev \in Nat, NEW g \in Graphs(B), NEW bound \in Int,
         NEW P, P = PoppedFrom(g, bound), NEW h, h = StartCompletingGraph(g, bound),
         FiniteGraph(g)
  PROVE  FiniteGraph(h) /\ PendingNum(h) <= PendingNum(g)
<1>1. /\ h.inflight = g.inflight /\ h.collected = g.collected \ P
      /\ P \subseteq g.collected
      /\ h.completing = {b.prev : b \in CheckpointOf(P)}
      /\ IsFiniteSet(h.completing) /\ Cardinality(h.completing) <= 1
      BY CompleteGraph
<1>2. /\ IsFiniteSet(g.inflight) /\ IsFiniteSet(g.collected) /\ IsFiniteSet(g.completing)
      BY DEF FiniteGraph
<1>3. /\ IsFiniteSet(g.collected \ P)
      /\ Cardinality(g.collected \ P) <= Cardinality(g.collected)
  <2>1. g.collected \ P \subseteq g.collected
        OBVIOUS
  <2> QED  BY <1>2, <2>1, FS_Subset
<1>4. FiniteGraph(h)
      BY <1>1, <1>2, <1>3 DEF FiniteGraph
<1>5. /\ Cardinality(g.inflight) \in Nat /\ Cardinality(g.collected) \in Nat
      /\ Cardinality(g.completing) \in Nat
      /\ Cardinality(h.collected) \in Nat /\ Cardinality(h.completing) \in Nat
      BY <1>4, PendingIsNat
<1>6. Cardinality(h.collected) + Cardinality(h.completing) <= Cardinality(g.collected)
  <2>1. CASE CheckpointOf(P) = {}
    <3>1. h.completing = {}
          BY <1>1, <2>1
    <3>2. Cardinality(h.completing) = 0
          BY <3>1, FS_EmptySet
    <3> QED  BY <1>1, <1>3, <1>5, <3>2
  <2>2. CASE CheckpointOf(P) # {}
    <3>1. PICK c : c \in P
          BY <2>2 DEF CheckpointOf
    <3>2. c \in g.collected
          BY <1>1, <3>1
    <3>3. /\ IsFiniteSet(g.collected \ {c})
          /\ Cardinality(g.collected \ {c}) = Cardinality(g.collected) - 1
          BY <1>2, <3>2, FS_RemoveElement
    <3>4. g.collected \ P \subseteq g.collected \ {c}
          BY <3>1
    <3>5. Cardinality(g.collected \ P) <= Cardinality(g.collected) - 1
          BY <3>3, <3>4, FS_Subset
    <3> QED  BY <1>1, <1>5, <3>5
  <2> QED  BY <2>1, <2>2
<1> QED  BY <1>1, <1>4, <1>5, <1>6 DEF PendingNum

\* What a job keeps when the barriers P of its graph are taken.
Completed(r, s, P, n, ov) ==
  /\ s \in JobRecords /\ FiniteGraph(s.graph) /\ JobRoom(s, ov)
  /\ s.ctl = r.ctl /\ s.ready = r.ready /\ s.phase = r.phase /\ s.snap = r.snap
  /\ s.finishAt = r.finishAt
  /\ Suffix(r, s)
  /\ s.graph.inflight = r.graph.inflight /\ s.graph.collected = r.graph.collected \ P
  /\ s.graph.completing = {b.prev : b \in CheckpointOf(P)}
  /\ \A c \in CheckpointOf(P) : JobAfter(s, c.prev) /\ JobEpoch(s, c.prev, n)
  /\ CheckpointOf(P) \subseteq Outstanding(r)

\* A job after start_completing.
LEMMA CompleteJob ==
  ASSUME NEW r \in JobRecords, FiniteGraph(r.graph), NEW n, JobOk(r, n), NEW ov, JobRoom(r, ov),
         NEW bound \in Int, NEW P, P = PoppedFrom(r.graph, bound),
         NEW h, h = StartCompletingGraph(r.graph, bound),
         NEW s, s = Rec(r.ctl, r.ready, r.phase, r.snap, r.fake, r.pend, r.inLog, r.logDone,
                        r.finishAt, h)
  PROVE  Completed(r, s, P, n, ov)
<1>0. JobOrder(r, n)
      BY DEF JobOk
<1>1. \A x \in JobBarriers : x.prev \in Nat
      BY DEF JobBarriers
<1>2. r.graph \in Graphs(JobBarriers)
      BY RecordFacts
<1>4. /\ h \in Graphs(JobBarriers)
      /\ h.inflight = r.graph.inflight /\ h.collected = r.graph.collected \ P
      /\ P \subseteq r.graph.collected
      /\ h.completing = {b.prev : b \in CheckpointOf(P)}
      /\ Cardinality(h.completing) <= 1
      BY <1>1, <1>2, CompleteGraph
<1>5. GraphOrder(r.graph)
      BY <1>0 DEF JobOrder
<1>6. /\ GraphOrder(h)
      /\ \A b \in h.inflight \cup h.collected, c \in r.graph.inflight \cup r.graph.collected :
           b.prev < c.prev => c \in h.inflight \cup h.collected
      /\ \A c \in CheckpointOf(P), b \in h.inflight \cup h.collected : c.prev < b.prev
      BY <1>1, <1>2, <1>5, CompleteOrder
<1>7. FiniteGraph(h) /\ PendingNum(h) <= PendingNum(r.graph)
      BY <1>1, <1>2, CompleteRoom
<1>9. /\ s \in JobRecords /\ s.graph = h
      /\ s.ctl = r.ctl /\ s.ready = r.ready /\ s.phase = r.phase /\ s.snap = r.snap
      /\ s.finishAt = r.finishAt /\ s.pend = r.pend /\ s.fake = r.fake
      BY <1>4 DEF JobRecords, Rec
<1>10. JobRoom(s, ov)
  <2>1. PendingNum(r.graph) \in Nat /\ PendingNum(h) \in Nat /\ MaxPending \in Nat
        BY <1>7, PendingIsNat, CCAssumption
  <2>2. /\ PendingNum(r.graph) <= MaxPending + 1 + ov
        /\ r.phase # "finishing" => PendingNum(r.graph) <= MaxPending + ov
        /\ ov \in Nat
        BY DEF JobRoom
  <2>3. /\ PendingNum(h) <= MaxPending + 1 + ov
        /\ r.phase # "finishing" => PendingNum(h) <= MaxPending + ov
        BY <1>7, <2>1, <2>2
  <2> QED  BY <1>4, <1>9, <2>2, <2>3, Zenon DEF JobRoom
<1>11. Suffix(r, s)
      BY <1>4, <1>6, <1>9 DEF Suffix, Outstanding
<1>12. CheckpointOf(P) \subseteq Outstanding(r)
      BY <1>4 DEF CheckpointOf, Outstanding
<1>13. ASSUME NEW c \in CheckpointOf(P) PROVE JobAfter(s, c.prev) /\ JobEpoch(s, c.prev, n)
  <2>1. c \in Outstanding(r)
        BY <1>12
  <2>2. /\ \A b \in Outstanding(s) : b.prev > c.prev
        BY <1>6, <1>9, <2>1, RecordFacts DEF Outstanding
  <2>3. \A i \in 1 .. Len(r.pend) : r.pend[i].prev > c.prev
        BY <1>0, <2>1, RecordFacts DEF JobOrder
  <2>4. r.phase = "snapshot" => r.fake > c.prev
        BY <1>0, <2>1, RecordFacts DEF JobOrder
  <2>5. JobEpoch(r, c.prev, n)
        BY <1>0, <2>1 DEF JobOrder
  <2> QED  BY <1>9, <2>2, <2>3, <2>4, <2>5 DEF JobAfter, JobEpoch
<1> QED  BY <1>4, <1>7, <1>9, <1>10, <1>11, <1>12, <1>13 DEF Completed

------------------------------------------------------------------------------
(* Recovered jobs. *)

LEMMA FunctionIsSeq ==
  ASSUME NEW S, NEW m \in Nat, NEW f \in [1 .. m -> S]
  PROVE  f \in Seq(S) /\ Len(f) = m
OBVIOUS

LEMMA SuffixIsSeq ==
  ASSUME NEW S, NEW q \in Seq(S), NEW m \in Nat, m <= Len(q)
  PROVE  /\ SubSeq(q, m + 1, Len(q)) \in Seq(S)
         /\ Len(SubSeq(q, m + 1, Len(q))) = Len(q) - m
         /\ \A i \in 1 .. Len(q) - m : SubSeq(q, m + 1, Len(q))[i] = q[m + i]
<1>1. Len(q) \in Nat
      OBVIOUS
<1>2. m + 1 \in 1 .. Len(q) + 1
      BY <1>1
<1> QED  BY <1>1, <1>2

\* A queue of barriers from epoch e up to epoch n.
QueueFrom(q, e, n) ==
  /\ q \in Seq(JobBarriers) /\ Len(q) >= 1 /\ q[1].prev = e
  /\ \A i \in 1 .. Len(q) : e <= q[i].prev /\ q[i].prev < n /\ q[i].prev < q[i].curr
  /\ \A i, k \in 1 .. Len(q) : i < k => q[i].prev < q[k].prev
  /\ \A i \in 1 .. Len(q) : q[i].curr = IF i = Len(q) THEN n ELSE q[i + 1].prev

LogRising(s) ==
  s \in Seq(LogRecords) /\ \A i, k \in 1 .. Len(s) : i < k => s[i].epoch < s[k].epoch

LogSuffix(a, e) ==
  /\ a \in Seq(LogRecords)
  /\ \A i \in 1 .. Len(a) : e < a[i].epoch
  /\ \A i \in 1 .. Len(a) : \E k \in 1 .. Len(log) : a[i] = log[k]
  /\ \A i, k \in 1 .. Len(a) : i < k => a[i].epoch < a[k].epoch

\* What the log holds after a checkpoint.
LEMMA LogAfterIs ==
  ASSUME NEW e \in Nat, LogRising(log),
         OldestStart # dbCommitted => e \in LogCheckpoints
  PROVE  LogSuffix(LogAfter(e), e)
<1>0. /\ log \in Seq(LogRecords)
      /\ \A i, k \in 1 .. Len(log) : i < k => log[i].epoch < log[k].epoch
      BY DEF LogRising
<1> PICK a : a = LogAfter(e)
    OBVIOUS
<1> SUFFICES LogSuffix(a, e)
    OBVIOUS
<1>1. CASE OldestStart = dbCommitted
  <2>1. a = <<>>
        BY <1>1 DEF LogAfter
  <2> QED  BY <2>1 DEF LogSuffix
<1>2. CASE OldestStart # dbCommitted
  <2>1. PICK x \in 1 .. Len(log) : log[x].ckpt /\ log[x].epoch = e
        BY <1>2 DEF LogCheckpoints
  <2>2. PICK at : at = CHOOSE i \in 1 .. Len(log) : log[i].ckpt /\ log[i].epoch = e
        OBVIOUS
  <2>3. at \in 1 .. Len(log) /\ log[at].epoch = e
        BY <2>1, <2>2
  <2>4. a = SubSeq(log, at + 1, Len(log))
        BY <1>2, <2>2 DEF LogAfter
  <2>5. Len(log) \in Nat /\ at \in Nat /\ at <= Len(log)
        BY <1>0, <2>3
  <2>6. /\ a \in Seq(LogRecords)
        /\ Len(a) = Len(log) - at
        /\ \A i \in 1 .. Len(log) - at : a[i] = log[at + i]
        BY <1>0, <2>4, <2>5, SuffixIsSeq
  <2>7. \A i \in 1 .. Len(a) : at + i \in 1 .. Len(log) /\ a[i] = log[at + i] /\ at < at + i
        BY <2>5, <2>6
  <2>8. \A i \in 1 .. Len(a) : e < a[i].epoch
        BY <1>0, <2>3, <2>7
  <2>9. \A i \in 1 .. Len(a) : \E k \in 1 .. Len(log) : a[i] = log[k]
        BY <2>7
  <2>10. ASSUME NEW i \in 1 .. Len(a), NEW k \in 1 .. Len(a), i < k
         PROVE  a[i].epoch < a[k].epoch
    <3>1. at + i < at + k
          BY <2>5, <2>10
    <3> QED  BY <1>0, <2>7, <3>1
  <2> QED  BY <2>6, <2>8, <2>9, <2>10 DEF LogSuffix
<1> QED  BY <1>1, <1>2

LEMMA ResolveIs ==
  ASSUME NEW e \in Nat, NEW n \in Nat, e < n,
         LogRising(log), \A i \in 1 .. Len(log) : log[i].epoch < n,
         OldestStart # dbCommitted => e \in LogCheckpoints,
         NEW q, q = ResolveFrom(e, n)
  PROVE  QueueFrom(q, e, n)
<1>1. PICK a : a = LogAfter(e)
      OBVIOUS
<1>2. /\ a \in Seq(LogRecords)
      /\ \A i \in 1 .. Len(a) : e < a[i].epoch
      /\ \A i \in 1 .. Len(a) : \E k \in 1 .. Len(log) : a[i] = log[k]
      /\ \A i, k \in 1 .. Len(a) : i < k => a[i].epoch < a[k].epoch
  <2>1. LogSuffix(a, e)
        BY <1>1, LogAfterIs, Zenon
  <2> QED  BY <2>1 DEF LogSuffix
<1>3. \A i \in 1 .. Len(a) :
        a[i].epoch \in Nat /\ a[i].ckpt \in BOOLEAN /\ a[i].epoch < n
  <2> TAKE i \in 1 .. Len(a)
  <2>1. a[i] \in LogRecords
        BY <1>2
  <2>2. a[i].epoch < n
        BY <1>2
  <2> QED  BY <2>1, <2>2 DEF LogRecords
<1>4. PICK m : m = Len(a) + 1
      OBVIOUS
<1>5. m \in Nat /\ m >= 1 /\ Len(a) \in Nat
      BY <1>2, <1>4
<1> DEFINE p(i) == IF i = 1 THEN e ELSE a[i - 1].epoch
           c(i) == IF i = m THEN n ELSE a[i].epoch
           k(i) == i = 1 \/ a[i - 1].ckpt
<1>6. q = [i \in 1 .. m |-> Barrier(p(i), c(i), k(i))]
      BY <1>1, <1>4, Zenon DEF ResolveFrom
<1>7. \A i \in 1 .. m : i = 1 \/ i - 1 \in 1 .. Len(a)
      BY <1>4, <1>5
<1>8. \A i \in 1 .. m : i = m \/ i \in 1 .. Len(a)
      BY <1>4, <1>5
<1>9. \A i \in 1 .. m : p(i) \in Nat
  <2> TAKE i \in 1 .. m
  <2>1. CASE i = 1
        BY <2>1
  <2>2. CASE i # 1
        BY <1>3, <1>7, <2>2
  <2> QED  BY <2>1, <2>2
<1>10. \A i \in 1 .. m : c(i) \in Nat
  <2> TAKE i \in 1 .. m
  <2>1. CASE i = m
        BY <2>1
  <2>2. CASE i # m
        BY <1>3, <1>8, <2>2
  <2> QED  BY <2>1, <2>2
<1>11. \A i \in 1 .. m : k(i) \in BOOLEAN
      OBVIOUS
<1>12. \A i \in 1 .. m : e <= p(i) /\ p(i) < n
  <2> TAKE i \in 1 .. m
  <2>1. CASE i = 1
        BY <2>1
  <2>2. CASE i # 1
        BY <1>2, <1>3, <1>7, <2>2
  <2> QED  BY <2>1, <2>2
<1>13. ASSUME NEW i \in 1 .. m, NEW x \in 1 .. m, i < x PROVE p(i) < p(x)
  <2>1. x # 1 /\ x - 1 \in 1 .. Len(a)
        BY <1>5, <1>7, <1>13
  <2>2. CASE i = 1
        BY <1>2, <2>1, <2>2
  <2>3. CASE i # 1
    <3>1. i - 1 \in 1 .. Len(a) /\ i - 1 < x - 1
          BY <1>7, <1>13, <2>3
    <3> QED  BY <1>2, <2>1, <2>3, <3>1
  <2> QED  BY <2>2, <2>3
<1>14. \A i \in 1 .. m : c(i) = IF i = m THEN n ELSE p(i + 1)
  <2> TAKE i \in 1 .. m
  <2>1. i + 1 # 1 /\ (i + 1) - 1 = i
        OBVIOUS
  <2> QED  BY <2>1
<1>15. \A i \in 1 .. m : p(i) < c(i)
  <2> TAKE i \in 1 .. m
  <2>1. CASE i = m
        BY <1>12, <2>1
  <2>2. CASE i # m
    <3>1. i + 1 \in 1 .. m /\ i < i + 1
          BY <1>5, <2>2
    <3>2. p(i) < p(i + 1)
          BY <1>13, <3>1
    <3> QED  BY <1>14, <2>2, <3>2
  <2> QED  BY <2>1, <2>2
<1>16. p(1) = e
      OBVIOUS
<1> HIDE DEF p, c, k
<1>17. \A i \in 1 .. m :
         /\ Barrier(p(i), c(i), k(i)).prev = p(i) /\ Barrier(p(i), c(i), k(i)).curr = c(i)
         /\ Barrier(p(i), c(i), k(i)) \in JobBarriers
  <2> TAKE i \in 1 .. m
  <2>1. p(i) \in Nat /\ c(i) \in Nat /\ k(i) \in BOOLEAN
        BY <1>9, <1>10, <1>11
  <2>2. PICK kk : kk = k(i) /\ kk \in BOOLEAN
        BY <2>1
  <2>3. /\ Barrier(p(i), c(i), kk).prev = p(i) /\ Barrier(p(i), c(i), kk).curr = c(i)
        /\ Barrier(p(i), c(i), kk) \in JobBarriers
        BY <2>1, <2>2, BarrierFields
  <2> QED  BY <2>2, <2>3, Zenon
<1> DEFINE B(i) == Barrier(p(i), c(i), k(i))
<1>18. \A i \in 1 .. m : B(i) \in JobBarriers /\ B(i).prev = p(i) /\ B(i).curr = c(i)
      BY <1>17
<1>19. q = [i \in 1 .. m |-> B(i)]
      BY <1>6
<1> HIDE DEF B
<1>20. q \in [1 .. m -> JobBarriers]
      BY <1>18, <1>19
<1>21. q \in Seq(JobBarriers) /\ Len(q) = m
      BY <1>5, <1>20, FunctionIsSeq
<1>22. \A i \in 1 .. Len(q) : i \in 1 .. m /\ q[i].prev = p(i) /\ q[i].curr = c(i)
      BY <1>18, <1>19, <1>21
<1>23. q[1].prev = e /\ Len(q) >= 1
      BY <1>5, <1>16, <1>21, <1>22
<1>24. \A i \in 1 .. Len(q) : e <= q[i].prev /\ q[i].prev < n /\ q[i].prev < q[i].curr
      BY <1>12, <1>15, <1>22
<1>25. \A i, x \in 1 .. Len(q) : i < x => q[i].prev < q[x].prev
      BY <1>13, <1>22
<1>26. ASSUME NEW i \in 1 .. Len(q)
       PROVE  q[i].curr = IF i = Len(q) THEN n ELSE q[i + 1].prev
  <2>1. CASE i = Len(q)
        BY <1>14, <1>21, <1>22, <2>1
  <2>2. CASE i # Len(q)
    <3>1. i + 1 \in 1 .. Len(q)
          BY <1>5, <1>21, <2>2
    <3> QED  BY <1>14, <1>21, <1>22, <2>2, <3>1
  <2> QED  BY <2>1, <2>2
<1> QED  BY <1>21, <1>23, <1>24, <1>25, <1>26 DEF QueueFrom

\* A job that has recovered at epoch n with committed epoch c.
Recovered(s, v, c, n) ==
  /\ s \in JobRecords /\ s.ctl = "running" /\ s.snap = v
  /\ s.phase # "finishing" /\ s.graph = EmptyGraph
  /\ JobOk(s, n) /\ JobAfter(s, c) /\ JobEpoch(s, c, n)

LEMMA RecoverSnapshot ==
  ASSUME NEW v \in Nat, NEW c \in Int, c >= -1, NEW n \in Nat, NEW q, QueueFrom(q, v, n),
         v >= Base, v < n, c < v, c < n - Base, NEW t \in BOOLEAN,
         NEW s, s = Rec("running", t, NoJob.phase, v, c + 1, q, NoJob.inLog, NoJob.logDone,
                        NoJob.finishAt, EmptyGraph)
  PROVE  Recovered(s, v, c, n)
<1>1. /\ q \in Seq(JobBarriers) /\ Len(q) >= 1 /\ q[1].prev = v
      /\ \A i \in 1 .. Len(q) : v <= q[i].prev /\ q[i].prev < n /\ q[i].prev < q[i].curr
      /\ \A i, k \in 1 .. Len(q) : i < k => q[i].prev < q[k].prev
      /\ \A i \in 1 .. Len(q) : q[i].curr = IF i = Len(q) THEN n ELSE q[i + 1].prev
      BY DEF QueueFrom
<1>2. PICK r : r = NoJob /\ r \in JobRecords /\ r.phase = "snapshot"
      BY NoJobFields
<1>3. EmptyGraph \in Graphs(JobBarriers) /\ c + 1 \in Nat
      BY EmptyGraphFinite
<1>4. s = Rec("running", t, r.phase, v, c + 1, q, r.inLog, r.logDone, r.finishAt,
              EmptyGraph)
      BY <1>2, Zenon
<1>5. s \in JobRecords
      BY <1>1, <1>2, <1>3, <1>4 DEF JobRecords, Rec
<1>6. /\ s.ctl = "running" /\ s.phase = "snapshot" /\ s.snap = v /\ s.fake = c + 1
      /\ s.pend = q /\ s.graph = EmptyGraph
      BY <1>2, <1>4 DEF Rec
<1>7. Outstanding(s) = {} /\ GraphOrder(s.graph)
      BY <1>6, EmptyGraphFinite DEF Outstanding, GraphOrder
<1>8. Base \in Nat /\ \A i \in 1 .. Len(q) : q[i].prev \in Nat
  <2>1. \A i \in 1 .. Len(q) : q[i] \in JobBarriers
        BY <1>1
  <2> QED  BY <2>1, CCAssumption DEF Base, JobBarriers
<1>9. JobBounds(s, n)
      BY <1>1, <1>6, <1>7, <1>8 DEF JobBounds
<1>10. s.phase # "finishing" /\ s.phase # "log"
      BY <1>6
<1>11. JobOrder(s, n)
  <2>1. s.snap >= Base /\ s.fake <= n - Base
        BY <1>6, <1>8
  <2>2. \A i \in 1 .. Len(s.pend) : s.pend[i].prev >= s.snap
        BY <1>1, <1>6, <1>8
  <2>3. \A i \in 1 .. Len(s.pend) : JobEpoch(s, s.pend[i].prev, n)
        BY <2>2 DEF JobEpoch
  <2> QED  BY <1>1, <1>6, <1>7, <1>10, <2>1, <2>2, <2>3 DEF JobOrder
<1>12. JobChain(s, n)
  <2>1. Chained(Outstanding(s), s.fake)
        BY <1>7 DEF Chained
  <2>2. s.pend # <<>> /\ s.pend[1].prev = s.snap
        BY <1>1, <1>6
  <2> QED  BY <1>1, <1>6, <1>7, <1>10, <2>1, <2>2 DEF JobChain
<1>13. JobAfter(s, c)
      BY <1>1, <1>6, <1>7, <1>8 DEF JobAfter
<1>14. JobEpoch(s, c, n)
      BY <1>8 DEF JobEpoch
<1> QED  BY <1>5, <1>6, <1>9, <1>10, <1>11, <1>12, <1>13, <1>14 DEF Recovered, JobOk

LEMMA RecoverLog ==
  ASSUME NEW v \in Nat, NEW c \in Nat, NEW n \in Nat, NEW q0, QueueFrom(q0, c, n),
         v >= Base, v < n, v <= c, n > 0, NEW t \in BOOLEAN,
         NEW s, s = Rec("running", t, "log", v, NoJob.fake, Tail(q0), NoJob.inLog,
                        NoJob.logDone, NoJob.finishAt, EmptyGraph)
  PROVE  Recovered(s, v, c, n)
<1>1. /\ q0 \in Seq(JobBarriers) /\ Len(q0) >= 1 /\ q0[1].prev = c
      /\ \A i \in 1 .. Len(q0) : c <= q0[i].prev /\ q0[i].prev < n /\ q0[i].prev < q0[i].curr
      /\ \A i, k \in 1 .. Len(q0) : i < k => q0[i].prev < q0[k].prev
      /\ \A i \in 1 .. Len(q0) : q0[i].curr = IF i = Len(q0) THEN n ELSE q0[i + 1].prev
      BY DEF QueueFrom
<1>2. PICK r : r = NoJob /\ r \in JobRecords /\ r.fake = 0
      BY NoJobFields
<1>3. EmptyGraph \in Graphs(JobBarriers)
      BY EmptyGraphFinite
<1>4. PICK q : q = Tail(q0)
      OBVIOUS
<1>5. /\ q \in Seq(JobBarriers) /\ Len(q) = Len(q0) - 1 /\ Len(q) \in Nat
      /\ \A i \in 1 .. Len(q) : i + 1 \in 1 .. Len(q0) /\ q[i] = q0[i + 1] /\ 1 < i + 1
  <2>1. q0 # <<>> /\ Len(q0) \in Nat
        BY <1>1
  <2> QED  BY <1>1, <1>4, <2>1
<1>6. s = Rec("running", t, "log", v, r.fake, q, r.inLog, r.logDone, r.finishAt, EmptyGraph)
      BY <1>2, <1>4, Zenon
<1>7. s \in JobRecords
  <2>1. r.fake \in Nat /\ r.inLog \in BOOLEAN /\ r.logDone \in BOOLEAN /\ r.finishAt \in Nat
        BY <1>2 DEF JobRecords
  <2>2. s = [ctl |-> "running", ready |-> t, phase |-> "log", snap |-> v, fake |-> r.fake,
             pend |-> q, inLog |-> r.inLog, logDone |-> r.logDone,
             finishAt |-> r.finishAt, graph |-> EmptyGraph]
        BY <1>6, Zenon DEF Rec
  <2> HIDE DEF EmptyGraph
  <2> QED  BY <1>3, <1>5, <2>1, <2>2 DEF JobRecords
<1>8. /\ s.ctl = "running" /\ s.phase = "log" /\ s.snap = v /\ s.fake = 0
      /\ s.pend = q /\ s.graph = EmptyGraph
      BY <1>2, <1>6 DEF Rec
<1>9. Outstanding(s) = {} /\ GraphOrder(s.graph)
      BY <1>8, EmptyGraphFinite DEF Outstanding, GraphOrder
<1>10. Base \in Nat /\ \A i \in 1 .. Len(q) : q[i].prev \in Nat
  <2>1. \A i \in 1 .. Len(q) : q[i] \in JobBarriers
        BY <1>5
  <2> QED  BY <2>1, CCAssumption DEF Base, JobBarriers
<1>11. \A i \in 1 .. Len(q) : q[i].prev > c /\ q[i].prev < n /\ q[i].prev < q[i].curr
  <2> TAKE i \in 1 .. Len(q)
  <2>1. 1 \in 1 .. Len(q0) /\ i + 1 \in 1 .. Len(q0) /\ q[i] = q0[i + 1] /\ 1 < i + 1
        BY <1>1, <1>5
  <2> QED  BY <1>1, <2>1
<1>12. s.phase # "finishing" /\ s.phase # "snapshot"
      BY <1>8
<1>13. JobBounds(s, n)
      BY <1>8, <1>9, <1>11 DEF JobBounds
<1>14. JobOrder(s, n)
  <2>1. s.snap >= Base
        BY <1>8
  <2>2. \A i \in 1 .. Len(s.pend) : JobEpoch(s, s.pend[i].prev, n)
        BY <1>8, <1>10, <1>11 DEF JobEpoch
  <2>3. ASSUME NEW i \in 1 .. Len(q), NEW k \in 1 .. Len(q), i < k
        PROVE  q[i].prev < q[k].prev
    <3>1. i + 1 < k + 1
          BY <2>3
    <3> QED  BY <1>1, <1>5, <3>1
  <2> QED  BY <1>8, <1>9, <1>12, <2>1, <2>2, <2>3 DEF JobOrder
<1>15. ASSUME NEW i \in 1 .. Len(q)
       PROVE  q[i].curr = IF i = Len(q) THEN n ELSE q[i + 1].prev
  <2>1. /\ i + 1 \in 1 .. Len(q0) /\ q[i] = q0[i + 1]
        /\ q0[i + 1].curr = IF i + 1 = Len(q0) THEN n ELSE q0[(i + 1) + 1].prev
        BY <1>1, <1>5
  <2>2. CASE i = Len(q)
    <3>1. i + 1 = Len(q0)
          BY <1>1, <1>5, <2>2
    <3> QED  BY <2>1, <2>2, <3>1
  <2>3. CASE i # Len(q)
    <3>1. i + 1 # Len(q0) /\ i + 1 \in 1 .. Len(q)
          BY <1>1, <1>5, <2>3
    <3>2. q[i + 1] = q0[(i + 1) + 1]
          BY <1>5, <3>1
    <3> QED  BY <2>1, <2>3, <3>1, <3>2
  <2> QED  BY <2>2, <2>3
<1>16. JobChain(s, n)
  <2>1. \A e : Chained(Outstanding(s), e)
        BY <1>9 DEF Chained
  <2>2. \A i \in 1 .. Len(s.pend) : s.pend[i].prev < s.pend[i].curr
        BY <1>8, <1>11
  <2>3. \A i \in 1 .. Len(s.pend) :
          s.pend[i].curr = IF i = Len(s.pend) THEN n ELSE s.pend[i + 1].prev
        BY <1>8, <1>15, Zenon
  <2>4. \A x \in Outstanding(s) : x.prev < x.curr
        BY <1>9
  <2> QED  BY <1>12, <2>1, <2>2, <2>3, <2>4, Zenon DEF JobChain
<1>17. JobAfter(s, c)
      BY <1>8, <1>9, <1>11, <1>12 DEF JobAfter
<1>18. JobEpoch(s, c, n)
      BY <1>8 DEF JobEpoch
<1> QED  BY <1>7, <1>8, <1>12, <1>13, <1>14, <1>16, <1>17, <1>18 DEF Recovered, JobOk

LEMMA RecoveredJobIs ==
  ASSUME NEW j, NEW n \in Nat, catSnap[j] \in Nat, jobCommitted[j] \in Nat \cup {None},
         NEW q, q = ResolveFrom(StartEpoch(j), n), QueueFrom(q, StartEpoch(j), n),
         catSnap[j] >= Base, catSnap[j] < n, n > 0,
         jobCommitted[j] < catSnap[j] => jobCommitted[j] < n - Base
  PROVE  Recovered(RecoveredJob(j, n), catSnap[j], jobCommitted[j], n)
<1>1. PICK v, c : v = catSnap[j] /\ c = jobCommitted[j]
      OBVIOUS
<1>2. v \in Nat /\ c \in Int /\ c >= -1 /\ (c < v => c < n - Base) /\ v < n /\ v >= Base
      BY <1>1 DEF None
<1>3. StartEpoch(j) = IF c >= v THEN c ELSE v
      BY <1>1, <1>2, MaxOfTwo DEF StartEpoch
<1>4. PICK x : x = [NoJob EXCEPT !.ctl = "running", !.ready = TRUE, !.snap = catSnap[j]]
      OBVIOUS
<1>5. PICK r : r = NoJob /\ r \in JobRecords /\ r.graph = EmptyGraph
      BY NoJobFields
<1>6. PICK t \in BOOLEAN : t = TRUE
      OBVIOUS
<1>7. x = Rec("running", t, r.phase, v, r.fake, r.pend, r.inLog, r.logDone, r.finishAt,
              r.graph)
      BY <1>1, <1>4, <1>5, <1>6, RecoverFields, Zenon
<1>8. x \in JobRecords
      BY <1>2, <1>5, <1>7 DEF JobRecords, Rec
<1>9. /\ x.ctl = "running" /\ x.ready = t /\ x.phase = r.phase /\ x.snap = v
      /\ x.fake = r.fake /\ x.pend = r.pend /\ x.inLog = r.inLog /\ x.logDone = r.logDone
      /\ x.finishAt = r.finishAt /\ x.graph = EmptyGraph
      BY <1>5, <1>7 DEF Rec
<1>10. CASE c < v
  <2>1. RecoveredJob(j, n) = [x EXCEPT !.fake = c + 1, !.pend = q]
        BY <1>1, <1>4, <1>10, Zenon DEF RecoveredJob, RecoverConsumingSnapshot
  <2>2. [x EXCEPT !.fake = c + 1, !.pend = q]
          = Rec(x.ctl, x.ready, x.phase, x.snap, c + 1, q, x.inLog, x.logDone, x.finishAt,
                x.graph)
        BY <1>8, RecoverFakeFields, Zenon
  <2>3. RecoveredJob(j, n)
          = Rec("running", t, NoJob.phase, v, c + 1, q, NoJob.inLog, NoJob.logDone,
                NoJob.finishAt, EmptyGraph)
        BY <1>5, <1>9, <2>1, <2>2, Zenon
  <2>4. QueueFrom(q, v, n)
        BY <1>2, <1>3, <1>10
  <2>5. Recovered(RecoveredJob(j, n), v, c, n)
        BY <1>2, <1>10, <2>3, <2>4, RecoverSnapshot
  <2> QED  BY <1>1, <2>5
<1>11. CASE ~(c < v)
  <2>1. RecoveredJob(j, n) = [x EXCEPT !.phase = "log", !.pend = Tail(q)]
        BY <1>1, <1>4, <1>11, Zenon DEF RecoveredJob, RecoverConsumingLogStore
  <2>2. PICK w : w = Tail(q)
        OBVIOUS
  <2>3. [x EXCEPT !.phase = "log", !.pend = w]
          = Rec(x.ctl, x.ready, "log", x.snap, x.fake, w, x.inLog, x.logDone, x.finishAt,
                x.graph)
        BY <1>8, ToLogFields, Zenon
  <2>4. RecoveredJob(j, n)
          = Rec("running", t, "log", v, NoJob.fake, Tail(q), NoJob.inLog, NoJob.logDone,
                NoJob.finishAt, EmptyGraph)
        BY <1>5, <1>9, <2>1, <2>2, <2>3, Zenon
  <2>5. QueueFrom(q, c, n) /\ c \in Nat /\ v <= c
        BY <1>2, <1>3, <1>11
  <2>6. Recovered(RecoveredJob(j, n), v, c, n)
        BY <1>2, <2>4, <2>5, RecoverLog
  <2> QED  BY <1>1, <2>6
<1> QED  BY <1>10, <1>11

------------------------------------------------------------------------------
(* The inductive invariant holds initially ... *)

LEMMA BaseFacts ==
  /\ Base \in Nat /\ Base = MaxEpoch + 1 /\ MaxEpoch \in Nat /\ MaxEpoch >= 1
  /\ Unbounded \in Nat /\ Unbounded = 2 * Base
BY CCAssumption DEF Base, Unbounded

LEMMA NoJobRoom == (\A ov \in Nat : JobRoom(NoJob, ov)) /\ FiniteGraph(NoJob.graph)
<1>1. NoJob.graph = EmptyGraph
      BY NoJobFields
<1> QED  BY <1>1, EmptyGraphFinite, CCAssumption DEF JobRoom

LEMMA NoTaskFields ==
  /\ NoTask \in Tasks /\ NoTask.step = "none" /\ NoTask.db = {} /\ NoTask.jobs = {}
  /\ NoTask.fin = {}
BY DEF NoTask, Tasks

LEMMA EmptyDb ==
  EmptyGraph \in Graphs(DbBarriers) /\ GraphOrder(EmptyGraph)
BY DEF EmptyGraph, Graphs, GraphOrder

LEMMA InitInv == Init => Inv
<1> SUFFICES ASSUME Init PROVE CCInv /\ EpochInv
    BY DEF Inv
<1>1. /\ up = TRUE /\ nextEpoch = Base + 1 /\ nonCkpt = <<>> /\ db = EmptyGraph
      /\ \A j \in Jobs : job[j] = NoJob
      /\ dbJobs = {} /\ dbCreating = {} /\ subs = {} /\ pendSubs = {}
      /\ finWait = {} /\ finGot = {} /\ task = NoTask /\ dropReq = {} /\ truncInfo = {}
      /\ dbCommitted = Base /\ \A j \in Jobs : jobCommitted[j] = None
      /\ \A j \in Jobs : catalog[j] = "none" /\ catSnap[j] = None
      /\ log = <<>> /\ crashes = 0 /\ \A j \in Jobs : over[j] = 0
      BY DEF Init
<1>2. /\ DbPending = {} /\ db.inflight = {} /\ db.collected = {} /\ db.completing = {}
      BY <1>1, EmptyGraphFinite DEF DbPending
<1>3. TypeInv
  <2>1. job \in [Jobs -> JobRecords]
        BY NoJobFields DEF Init
  <2>2. \A j \in Jobs : FiniteGraph(job[j].graph)
        BY <1>1, NoJobRoom
  <2>3. /\ jobCommitted \in [Jobs -> Nat \cup {None}]
        /\ catalog \in [Jobs -> {"none", "initial", "creating", "created", "dropped"}]
        /\ catSnap \in [Jobs -> Nat \cup {None}]
        BY DEF Init
  <2>4. task \in Tasks /\ db \in Graphs(DbBarriers)
        BY <1>1, NoTaskFields, EmptyDb
  <2>5. nextEpoch \in Nat /\ dbCommitted \in Nat
        BY <1>1, BaseFacts
  <2> QED  BY <1>1, <2>1, <2>2, <2>3, <2>4, <2>5 DEF TypeInv
<1>4. MemoryInv
      BY <1>1 DEF MemoryInv
<1>5. SubsInv
      BY <1>1, NoJobFields DEF SubsInv, Subscribes
<1>6. CatalogInv
      BY <1>1, <1>2, NoJobFields, NoTaskFields DEF CatalogInv
<1>7. MergeInv /\ InitialInv /\ FinishedInv /\ NoJobForgotten
  <2>1. \A j \in Jobs : ~Running(j)
        BY <1>1, NoJobFields DEF Running
  <2> QED  BY <1>1, <2>1, NoTaskFields DEF MergeInv, InitialInv, FinishedInv, NoJobForgotten
<1>8. JobsInv
  <2>1. \A j \in Jobs : ~Running(j)
        BY <1>1, NoJobFields DEF Running
  <2>2. \A j \in Jobs : JobRoom(job[j], over[j]) /\ job[j].graph.completing = {}
        BY <1>1, NoJobRoom, NoJobFields, EmptyGraphFinite
  <2> QED  BY <2>1, <2>2 DEF JobsInv
<1>9. DbInv
  <2>1. Cardinality(db.completing) <= 1
        BY <1>2, FS_EmptySet
  <2>2. GraphOrder(db)
        BY <1>1, EmptyDb
  <2> QED  BY <1>1, <1>2, <2>1, <2>2, BaseFacts DEF DbInv, Rising
<1>10. TaskInv
      BY <1>1, NoTaskFields DEF TaskInv
<1>11. PersistedInv
      BY <1>1, BaseFacts DEF PersistedInv, None
<1> QED  BY <1>3, <1>4, <1>5, <1>6, <1>7, <1>8, <1>9, <1>10, <1>11 DEF CCInv, EpochInv

------------------------------------------------------------------------------
(* ... and every step keeps it: truncation of the log, and failures. *)

LEMMA SameMemory ==
  ASSUME Inv, UNCHANGED <<memory, persisted, over>>, truncInfo' \subseteq Jobs, crashes' \in Nat
  PROVE  Inv'
<1> USE DEF Inv, CCInv, EpochInv, memory, persisted
<1>1. /\ up' = up /\ nextEpoch' = nextEpoch /\ nonCkpt' = nonCkpt /\ db' = db /\ job' = job
      /\ dbJobs' = dbJobs /\ dbCreating' = dbCreating /\ subs' = subs
      /\ pendSubs' = pendSubs /\ finWait' = finWait /\ finGot' = finGot /\ task' = task
      /\ dropReq' = dropReq /\ dbCommitted' = dbCommitted /\ jobCommitted' = jobCommitted
      /\ catalog' = catalog /\ catSnap' = catSnap /\ log' = log
      OBVIOUS
<1>2. TypeInv'
      BY <1>1 DEF TypeInv
<1>3. MemoryInv' /\ SubsInv'
      BY <1>1 DEF MemoryInv, SubsInv
<1>4. CatalogInv'
      BY <1>1 DEF CatalogInv, DbPending
<1>5. MergeInv'
      BY <1>1 DEF MergeInv, DbPending, Running, MergedAt
<1>6. InitialInv' /\ FinishedInv' /\ NoJobForgotten'
      BY <1>1 DEF InitialInv, FinishedInv, NoJobForgotten, Running
<1>7. JobsInv'
      BY <1>1 DEF JobsInv, Running
<1>8. DbInv'
      BY <1>1 DEF DbInv, DbPending
<1>9. TaskInv'
      BY <1>1 DEF TaskInv, DbPending, Running
<1>10. PersistedInv'
      BY <1>1 DEF PersistedInv
<1> QED  BY <1>2, <1>3, <1>4, <1>5, <1>6, <1>7, <1>8, <1>9, <1>10

LEMMA FetchKeeps == ASSUME Inv, TruncateFetch PROVE Inv'
<1>1. truncInfo' \subseteq Jobs /\ crashes' \in Nat
      BY DEF TruncateFetch, Inv, CCInv, TypeInv
<1> QED  BY <1>1, SameMemory DEF TruncateFetch

LEMMA ApplyKeeps == ASSUME Inv, TruncateApply PROVE Inv'
<1> USE DEF Inv, CCInv, EpochInv, memory
<1>1. /\ up' = up /\ nextEpoch' = nextEpoch /\ nonCkpt' = nonCkpt /\ db' = db /\ job' = job
      /\ dbJobs' = dbJobs /\ dbCreating' = dbCreating /\ subs' = subs
      /\ pendSubs' = pendSubs /\ finWait' = finWait /\ finGot' = finGot /\ task' = task
      /\ dropReq' = dropReq /\ dbCommitted' = dbCommitted /\ jobCommitted' = jobCommitted
      /\ catalog' = catalog /\ catSnap' = catSnap /\ truncInfo' = {} /\ crashes' = crashes /\ over' = over
      /\ log' = TruncatedLog \/ log' = log
      BY DEF TruncateApply
<1>2. /\ log' \in Seq(LogRecords)
      /\ \A i \in 1 .. Len(log') : log'[i].epoch <= dbCommitted
      /\ \A i, k \in 1 .. Len(log') : i < k => log'[i].epoch < log'[k].epoch
  <2>0. /\ log \in Seq(LogRecords)
        /\ \A i \in 1 .. Len(log) : log[i].epoch <= dbCommitted
        /\ \A i, k \in 1 .. Len(log) : i < k => log[i].epoch < log[k].epoch
        BY DEF TypeInv, PersistedInv
  <2>1. CASE log' = log
        BY <2>0, <2>1
  <2>2. CASE log' = TruncatedLog
    <3>1. PICK S : S = {i \in 1 .. Len(log) : log[i].epoch < TruncateEpoch}
          OBVIOUS
    <3>2. PICK m : m = Cardinality(S)
          OBVIOUS
    <3>3. Len(log) \in Nat
          BY <2>0
    <3>4. m \in Nat /\ m <= Len(log)
      <4>1. IsFiniteSet(1 .. Len(log)) /\ Cardinality(1 .. Len(log)) = Len(log)
        <5>1. \A a \in Nat : IsFiniteSet(1 .. a) /\ Cardinality(1 .. a) = a
              BY FS_Interval
        <5> QED  BY <3>3, <5>1, Zenon
      <4>2. S \subseteq 1 .. Len(log)
            BY <3>1
      <4> QED  BY <3>2, <4>1, <4>2, FS_Subset, FS_CardinalityType
    <3>5. PICK l : l = log'
          OBVIOUS
    <3>6. l = SubSeq(log, m + 1, Len(log))
          BY <2>2, <3>1, <3>2, <3>5 DEF TruncatedLog
    <3>7. /\ l \in Seq(LogRecords) /\ Len(l) = Len(log) - m
          /\ \A i \in 1 .. Len(log) - m : l[i] = log[m + i]
          BY <2>0, <3>4, <3>6, SuffixIsSeq
    <3>8. \A i \in 1 .. Len(l) : m + i \in 1 .. Len(log) /\ l[i] = log[m + i]
          BY <3>3, <3>4, <3>7
    <3>9. \A i \in 1 .. Len(l) : l[i].epoch <= dbCommitted
          BY <2>0, <3>8
    <3>10. ASSUME NEW i \in 1 .. Len(l), NEW k \in 1 .. Len(l), i < k
           PROVE  l[i].epoch < l[k].epoch
      <4>1. m + i < m + k
            BY <3>4, <3>10
      <4> QED  BY <2>0, <3>8, <4>1
    <3> QED  BY <3>5, <3>7, <3>9, <3>10
  <2> QED  BY <1>1, <2>1, <2>2
<1>3. TypeInv'
      BY <1>1, <1>2 DEF TypeInv
<1>4. MemoryInv' /\ SubsInv'
      BY <1>1 DEF MemoryInv, SubsInv
<1>5. CatalogInv'
      BY <1>1 DEF CatalogInv, DbPending
<1>6. MergeInv'
      BY <1>1 DEF MergeInv, DbPending, Running, MergedAt
<1>7. InitialInv' /\ FinishedInv' /\ NoJobForgotten'
      BY <1>1 DEF InitialInv, FinishedInv, NoJobForgotten, Running
<1>8. JobsInv'
      BY <1>1 DEF JobsInv, Running
<1>9. DbInv'
      BY <1>1 DEF DbInv, DbPending
<1>10. TaskInv'
      BY <1>1 DEF TaskInv, DbPending, Running
<1>11. PersistedInv'
      BY <1>1, <1>2 DEF PersistedInv
<1> QED  BY <1>3, <1>4, <1>5, <1>6, <1>7, <1>8, <1>9, <1>10, <1>11

LEMMA LoseMemoryKeeps == ASSUME Inv, LoseMemory, crashes' \in Nat PROVE Inv'
<1> USE DEF Inv, CCInv, EpochInv, persisted
<1>1. /\ up' = FALSE /\ nextEpoch' = nextEpoch /\ nonCkpt' = <<>> /\ db' = EmptyGraph
      /\ job' = [j \in Jobs |-> NoJob]
      /\ \A j \in Jobs : job'[j] = NoJob
      /\ dbJobs' = {} /\ dbCreating' = {} /\ subs' = {} /\ pendSubs' = {}
      /\ finWait' = {} /\ finGot' = {} /\ task' = NoTask /\ dropReq' = {}
      /\ truncInfo' = {}
      /\ dbCommitted' = dbCommitted /\ jobCommitted' = jobCommitted
      /\ catalog' = catalog /\ catSnap' = catSnap /\ log' = log
      /\ \A j \in Jobs : over'[j] = 0
      BY DEF LoseMemory
<1>2. DbPending' = {} /\ db'.inflight = {} /\ db'.collected = {} /\ db'.completing = {}
      BY <1>1, EmptyGraphFinite DEF DbPending
<1>3. \A j \in Jobs : ~Running(j)'
      BY <1>1, NoJobFields DEF Running
<1>4. TypeInv'
  <2>1. job' \in [Jobs -> JobRecords] /\ \A j \in Jobs : FiniteGraph(job'[j].graph)
        BY <1>1, NoJobFields, NoJobRoom
  <2>2. task' \in Tasks /\ db' \in Graphs(DbBarriers)
        BY <1>1, NoTaskFields, EmptyDb
  <2>3. /\ nonCkpt' \in Seq(Nat) /\ dbJobs' \subseteq Jobs /\ dbCreating' \subseteq dbJobs'
        /\ subs' \subseteq Jobs /\ pendSubs' \subseteq Jobs /\ dropReq' \subseteq Jobs
        /\ truncInfo' \subseteq Jobs
        /\ finWait' \subseteq Nat \X Jobs /\ finGot' \subseteq Nat \X Jobs
        BY <1>1
  <2>4. /\ nextEpoch' \in Nat /\ up' \in BOOLEAN /\ dbCommitted' \in Nat
        /\ jobCommitted' \in [Jobs -> Nat \cup {None}]
        /\ catalog' \in [Jobs -> {"none", "initial", "creating", "created", "dropped"}]
        /\ catSnap' \in [Jobs -> Nat \cup {None}]
        /\ \A j \in Jobs : catalog'[j] = "creating" => catSnap'[j] \in Nat
        /\ log' \in Seq(LogRecords)
        BY <1>1 DEF TypeInv
  <2> QED  BY <2>1, <2>2, <2>3, <2>4, Zenon DEF TypeInv
<1>5. MemoryInv'
      BY <1>1 DEF MemoryInv
<1>6. SubsInv'
      BY <1>1, NoJobFields DEF SubsInv, Subscribes
<1>7. CatalogInv'
      BY <1>1, <1>2, NoJobFields, NoTaskFields DEF CatalogInv
<1>8. MergeInv' /\ InitialInv' /\ FinishedInv' /\ NoJobForgotten'
      BY <1>1, <1>3, NoTaskFields DEF MergeInv, InitialInv, FinishedInv, NoJobForgotten
<1>9. JobsInv'
  <2>1. \A j \in Jobs : JobRoom(job'[j], over'[j]) /\ job'[j].graph.completing = {}
        BY <1>1, NoJobRoom, NoJobFields, EmptyGraphFinite
  <2> QED  BY <1>3, <2>1 DEF JobsInv
<1>10. DbInv'
  <2>1. Cardinality(db'.completing) <= 1
        BY <1>2, FS_EmptySet
  <2>2. GraphOrder(db')
        BY <1>1, EmptyDb
  <2> QED  BY <1>1, <1>2, <2>1, <2>2 DEF DbInv, Rising
<1>11. TaskInv'
      BY <1>1, NoTaskFields DEF TaskInv
<1>12. PersistedInv'
      BY <1>1 DEF PersistedInv
<1> QED  BY <1>4, <1>5, <1>6, <1>7, <1>8, <1>9, <1>10, <1>11, <1>12

LEMMA CrashKeeps == ASSUME Inv, Crash \/ TaskFails PROVE Inv'
<1>1. LoseMemory /\ crashes' \in Nat
      BY DEF Crash, TaskFails, Inv, CCInv, TypeInv
<1> QED  BY <1>1, LoseMemoryKeeps

------------------------------------------------------------------------------
(* Steps of the catalog. *)

\* A step that leaves the graphs and the task's contents alone keeps what is
\* said of them alone.
LEMMA UpWithTask == ASSUME Inv, task.step # "none" PROVE up
<1>1. task # NoTask
      BY NoTaskFields
<1> QED  BY <1>1 DEF Inv, CCInv, MemoryInv, TypeInv

LEMMA DropInCatalogKeeps == ASSUME Inv, NEW j \in Jobs, DropInCatalog(j) PROVE Inv'
<1> USE DEF Inv, CCInv, EpochInv
<1>1. /\ up /\ up' = up /\ nextEpoch' = nextEpoch /\ nonCkpt' = nonCkpt /\ db' = db
      /\ job' = job /\ dbJobs' = dbJobs /\ dbCreating' = dbCreating /\ subs' = subs
      /\ pendSubs' = pendSubs /\ finWait' = finWait /\ finGot' = finGot /\ task' = task
      /\ dropReq' = dropReq \cup {j}
      /\ dbCommitted' = dbCommitted /\ jobCommitted' = jobCommitted
      /\ catSnap' = catSnap /\ log' = log /\ truncInfo' = truncInfo /\ crashes' = crashes /\ over' = over
      /\ catalog' = [catalog EXCEPT ![j] = "dropped"]
      /\ catalog[j] \in {"initial", "creating"}
      BY DEF DropInCatalog
<1>2. \A i \in Jobs : catalog'[i] = IF i = j THEN "dropped" ELSE catalog[i]
      BY <1>1 DEF TypeInv
<1>3. TypeInv'
  <2>1. catalog' \in [Jobs -> {"none", "initial", "creating", "created", "dropped"}]
        BY <1>1 DEF TypeInv
  <2>2. \A i \in Jobs : catalog'[i] = "creating" => catSnap'[i] \in Nat
        BY <1>1, <1>2 DEF TypeInv
  <2>3. dropReq' \subseteq Jobs
        BY <1>1 DEF TypeInv
  <2> QED  BY <1>1, <2>1, <2>2, <2>3 DEF TypeInv
<1>4. MemoryInv' /\ SubsInv'
      BY <1>1 DEF MemoryInv, SubsInv
<1>5. CatalogInv'
  <2>1. \A i \in dropReq' : catalog'[i] = "dropped"
        BY <1>1, <1>2 DEF CatalogInv, TypeInv
  <2> QED  BY <1>1, <1>2, <2>1 DEF CatalogInv, DbPending
<1>6. MergeInv'
      BY <1>1 DEF MergeInv, DbPending, Running, MergedAt
<1>7. InitialInv' /\ NoJobForgotten'
      BY <1>1, <1>2 DEF InitialInv, NoJobForgotten, Running
<1>8. FinishedInv'
      BY <1>1, <1>2 DEF FinishedInv, TypeInv, Tasks
<1>9. JobsInv'
      BY <1>1 DEF JobsInv, Running
<1>10. DbInv'
  <2>1. \A b \in DbPending : b \in DbBarriers
        BY DEF TypeInv, DbPending, Graphs
  <2>2. \A b \in DbPending : \A i \in b.tabs : i \in Jobs
        BY <2>1 DEF DbBarriers
  <2>3. \A b \in DbPending : \A i \in b.tabs : catalog'[i] = "creating" => catSnap[i] <= b.prev
        BY <1>2, <2>2 DEF DbInv
  <2>4. DbPending' = DbPending
        BY <1>1 DEF DbPending
  <2> QED  BY <1>1, <2>3, <2>4 DEF DbInv
<1>11. TaskInv'
  <2>1. \A p \in task.jobs : p[1] \in Jobs
        BY DEF TypeInv, Tasks
  <2>2. \A b \in task.db : b \in DbBarriers
        BY DEF TypeInv, Tasks
  <2>3. \A b \in task.db : \A i \in b.tabs : i \in Jobs
        BY <2>2 DEF DbBarriers
  <2>4. \A i \in Jobs : catalog'[i] = "creating" => catalog[i] = "creating"
        BY <1>2
  <2>5. DbPending' = DbPending
        BY <1>1 DEF DbPending
  <2> QED  BY <1>1, <2>1, <2>3, <2>4, <2>5 DEF TaskInv, Running
<1>12. PersistedInv'
      BY <1>1, <1>2 DEF PersistedInv
<1> QED  BY <1>3, <1>4, <1>5, <1>6, <1>7, <1>8, <1>9, <1>10, <1>11, <1>12

\* The types of what the database and the task hold.
LEMMA TypeFacts ==
  ASSUME TypeInv
  PROVE  /\ \A b \in DbPending \cup task.db :
              b \in DbBarriers /\ b.prev \in Nat /\ b.tabs \subseteq Jobs /\ b.eps \in Seq(Nat)
         /\ \A p \in task.jobs : p[1] \in Jobs /\ p[2] \in Nat /\ p = <<p[1], p[2]>>
         /\ task.fin \subseteq Jobs
         /\ \A j \in Jobs : job[j] \in JobRecords /\ FiniteGraph(job[j].graph)
         /\ nextEpoch \in Nat /\ dbCommitted \in Nat
         /\ \A j \in Jobs : jobCommitted[j] \in Int /\ catSnap[j] \in Int
<1>1. db \in Graphs(DbBarriers) /\ task \in Tasks
      BY DEF TypeInv
<1>2. \A b \in DbPending \cup task.db : b \in DbBarriers
      BY <1>1 DEF DbPending, Graphs, Tasks
<1>3. \A b \in DbBarriers : b.prev \in Nat /\ b.tabs \subseteq Jobs /\ b.eps \in Seq(Nat)
      BY DEF DbBarriers
<1>4. task.jobs \subseteq Jobs \X Nat /\ task.fin \subseteq Jobs
      BY <1>1 DEF Tasks
<1>5. \A p \in task.jobs : p[1] \in Jobs /\ p[2] \in Nat /\ p = <<p[1], p[2]>>
      BY <1>4
<1>6. \A j \in Jobs : jobCommitted[j] \in Int /\ catSnap[j] \in Int
      BY DEF TypeInv, None
<1> QED  BY <1>2, <1>3, <1>4, <1>5, <1>6 DEF TypeInv

LEMMA PostCollectKeeps == ASSUME Inv, TaskPostCollect PROVE Inv'
<1> USE DEF Inv, CCInv, EpochInv
<1>1. /\ up' = up /\ nextEpoch' = nextEpoch /\ nonCkpt' = nonCkpt /\ db' = db
      /\ job' = job /\ dbJobs' = dbJobs /\ dbCreating' = dbCreating /\ subs' = subs
      /\ pendSubs' = pendSubs /\ finWait' = finWait /\ finGot' = finGot
      /\ dropReq' = dropReq /\ dbCommitted' = dbCommitted /\ jobCommitted' = jobCommitted
      /\ log' = log /\ truncInfo' = truncInfo /\ crashes' = crashes /\ over' = over
      /\ task.step = "post" /\ task' = [task EXCEPT !.step = "finish"]
      /\ catalog' = [j \in Jobs |-> IF j \in NewlyCreating THEN "creating" ELSE catalog[j]]
      /\ catSnap' = [j \in Jobs |-> IF j \in NewlyCreating THEN job[j].snap ELSE catSnap[j]]
      BY DEF TaskPostCollect
<1>2. /\ task' \in Tasks /\ task'.step = "finish" /\ task'.db = task.db
      /\ task'.jobs = task.jobs /\ task'.fin = task.fin /\ task'.log = task.log
      BY <1>1 DEF TypeInv, Tasks
<1>3. up /\ DbPending' = DbPending
      BY <1>1, UpWithTask DEF DbPending
<1>4. \A j \in Jobs :
        /\ catalog'[j] = IF j \in NewlyCreating THEN "creating" ELSE catalog[j]
        /\ catSnap'[j] = IF j \in NewlyCreating THEN job[j].snap ELSE catSnap[j]
      BY <1>1
<1>5. \A j \in Jobs : j \in NewlyCreating <=> <<j, 0>> \in task.jobs /\ catalog[j] = "initial"
      BY DEF NewlyCreating
<1>6. \A j \in Jobs : j \in NewlyCreating => Running(j) /\ job[j].snap \in Nat
  <2>1. \A j \in Jobs : job[j].snap \in Nat
        BY TypeFacts, RecordFacts
  <2> QED  BY <1>3, <1>5, <2>1 DEF InitialInv
<1>7. TypeInv'
  <2>1. catalog' \in [Jobs -> {"none", "initial", "creating", "created", "dropped"}]
        BY <1>1 DEF TypeInv
  <2>2. catSnap' \in [Jobs -> Nat \cup {None}]
        BY <1>1, <1>6 DEF TypeInv
  <2>3. \A i \in Jobs : catalog'[i] = "creating" => catSnap'[i] \in Nat
        BY <1>4, <1>6 DEF TypeInv
  <2> QED  BY <1>1, <1>2, <2>1, <2>2, <2>3 DEF TypeInv
<1>8. MemoryInv'
      BY <1>1, <1>2, <1>3 DEF MemoryInv
<1>9. SubsInv'
      BY <1>1 DEF SubsInv
<1>10. CatalogInv'
  <2>1. dropReq \subseteq Jobs
        BY DEF TypeInv
  <2>2. \A j \in Jobs : /\ catalog'[j] = "none" => catalog[j] = "none"
                        /\ catalog[j] = "dropped" => catalog'[j] = "dropped"
        BY <1>4, <1>5
  <2> QED  BY <1>1, <1>2, <1>3, <2>1, <2>2 DEF CatalogInv
<1>11. MergeInv'
      BY <1>1, <1>2, <1>3 DEF MergeInv, Running, MergedAt
<1>12. InitialInv'
      BY <1>1, <1>2, <1>4, <1>5 DEF InitialInv, Running
<1>13. FinishedInv' /\ NoJobForgotten'
      BY <1>1, <1>2, <1>4, <1>6 DEF FinishedInv, NoJobForgotten, Running
<1>14. ASSUME NEW j \in Jobs, Running(j)
       PROVE  /\ job[j].snap < nextEpoch /\ job[j].snap >= Base
              /\ JobEpoch(job[j], jobCommitted[j], nextEpoch)
              /\ job[j].phase = "finishing" => job[j].finishAt > job[j].snap
      BY <1>14 DEF JobsInv, JobOk, JobBounds, JobOrder
<1>15. JobsInv'
      BY <1>1, <1>2, <1>4 DEF JobsInv, Running
<1>16. DbInv'
  <2>1. ASSUME NEW b \in DbPending, NEW j \in b.tabs, catalog'[j] = "creating"
        PROVE  catSnap'[j] <= b.prev
    <3>1. j \in Jobs /\ b.prev \in Nat
          BY TypeFacts
    <3>2. CASE j \in NewlyCreating
      <4>1. Running(j) /\ MergedAt(j, b.prev)
            BY <1>6, <3>1, <3>2 DEF MergeInv
      <4>2. job[j].finishAt > job[j].snap /\ job[j].finishAt <= b.prev
            BY <1>14, <3>1, <4>1 DEF MergedAt
      <4>3. job[j].finishAt \in Nat /\ job[j].snap \in Nat
            BY <3>1, TypeFacts, RecordFacts
      <4> QED  BY <1>4, <3>1, <3>2, <4>2, <4>3
    <3>3. CASE j \notin NewlyCreating
          BY <1>4, <2>1, <3>1, <3>3 DEF DbInv
    <3> QED  BY <3>2, <3>3
  <2> QED  BY <1>1, <1>3, <2>1 DEF DbInv
<1>17. TaskInv'
      BY <1>1, <1>2, <1>3 DEF TaskInv
<1>18. PersistedInv'
  <2>1. ASSUME NEW j \in Jobs
        PROVE  /\ jobCommitted'[j] < nextEpoch' /\ catSnap'[j] < nextEpoch'
               /\ catalog'[j] = "none" => jobCommitted'[j] = None
               /\ catalog'[j] \in {"none", "initial"} => catSnap'[j] = None
               /\ catalog'[j] = "creating" =>
                    /\ catSnap'[j] >= Base
                    /\ jobCommitted'[j] < catSnap'[j] => jobCommitted'[j] <= nextEpoch' - Base
    <3>1. CASE j \in NewlyCreating
      <4>1. /\ job[j].snap < nextEpoch /\ job[j].snap >= Base
            /\ JobEpoch(job[j], jobCommitted[j], nextEpoch)
            BY <1>6, <1>14, <3>1
      <4>2. catSnap'[j] = job[j].snap /\ catalog'[j] = "creating"
            BY <1>4, <3>1
      <4>3. jobCommitted[j] \in Int /\ job[j].snap \in Nat /\ Base \in Nat /\ nextEpoch \in Nat
            BY <1>6, <3>1, TypeFacts, BaseFacts
      <4>4. jobCommitted[j] < job[j].snap => jobCommitted[j] <= nextEpoch - Base
            BY <4>1, <4>3 DEF JobEpoch
      <4> QED  BY <1>1, <4>1, <4>2, <4>4 DEF PersistedInv
    <3>2. CASE j \notin NewlyCreating
          BY <1>1, <1>4, <3>2 DEF PersistedInv
    <3> QED  BY <3>1, <3>2
  <2> QED  BY <1>1, <2>1 DEF PersistedInv
<1> QED  BY <1>7, <1>8, <1>9, <1>10, <1>11, <1>12, <1>13, <1>15, <1>16, <1>17, <1>18

LEMMA FinishJobsKeeps == ASSUME Inv, TaskFinishJobs PROVE Inv'
<1> USE DEF Inv, CCInv, EpochInv
<1>1. /\ up' = up /\ nextEpoch' = nextEpoch /\ nonCkpt' = nonCkpt /\ db' = db
      /\ job' = job /\ dbJobs' = dbJobs /\ dbCreating' = dbCreating /\ subs' = subs
      /\ pendSubs' = pendSubs /\ finWait' = finWait /\ finGot' = finGot
      /\ dropReq' = dropReq /\ dbCommitted' = dbCommitted /\ jobCommitted' = jobCommitted
      /\ log' = log /\ truncInfo' = truncInfo /\ crashes' = crashes /\ over' = over
      /\ task.step = "finish" /\ task' = [task EXCEPT !.step = "ack"]
      /\ catalog' = [j \in Jobs |-> IF j \in task.fin THEN "created" ELSE catalog[j]]
      /\ catSnap' = catSnap
      /\ \A j \in task.fin : catalog[j] = "creating"
      BY DEF TaskFinishJobs
<1>2. /\ task' \in Tasks /\ task'.step = "ack" /\ task'.db = task.db
      /\ task'.jobs = task.jobs /\ task'.fin = task.fin /\ task'.log = task.log
      BY <1>1 DEF TypeInv, Tasks
<1>3. up /\ DbPending' = DbPending
      BY <1>1, UpWithTask DEF DbPending
<1>4. \A j \in Jobs : catalog'[j] = IF j \in task.fin THEN "created" ELSE catalog[j]
      BY <1>1
<1>5. \A j \in Jobs : /\ catalog'[j] = "creating" => catalog[j] = "creating" /\ j \notin task.fin
                      /\ catalog'[j] = "none" => catalog[j] = "none"
                      /\ catalog'[j] = "initial" => catalog[j] = "initial"
                      /\ catalog[j] = "dropped" => catalog'[j] = "dropped"
      BY <1>1, <1>4
<1>6. TypeInv'
  <2>1. catalog' \in [Jobs -> {"none", "initial", "creating", "created", "dropped"}]
        BY <1>1 DEF TypeInv
  <2> QED  BY <1>1, <1>2, <1>5, <2>1 DEF TypeInv
<1>7. MemoryInv'
      BY <1>1, <1>2, <1>3 DEF MemoryInv
<1>8. SubsInv'
      BY <1>1 DEF SubsInv
<1>9. CatalogInv'
  <2>1. dropReq \subseteq Jobs
        BY DEF TypeInv
  <2> QED  BY <1>1, <1>2, <1>3, <1>5, <2>1 DEF CatalogInv
<1>10. MergeInv'
      BY <1>1, <1>2, <1>3 DEF MergeInv, Running, MergedAt
<1>11. InitialInv'
      BY <1>1, <1>2, <1>5 DEF InitialInv, Running
<1>12. FinishedInv'
  <2>1. task.fin \subseteq Jobs
        BY TypeFacts
  <2> QED  BY <1>2, <1>4, <2>1 DEF FinishedInv
<1>13. NoJobForgotten'
      BY <1>1, <1>2, <1>5 DEF NoJobForgotten, Running
<1>14. JobsInv'
      BY <1>1, <1>2 DEF JobsInv, Running
<1>15. DbInv'
  <2>1. ASSUME NEW b \in DbPending, NEW j \in b.tabs, catalog'[j] = "creating"
        PROVE  catSnap'[j] <= b.prev
    <3>1. j \in Jobs
          BY TypeFacts
    <3> QED  BY <1>1, <1>5, <2>1, <3>1 DEF DbInv
  <2> QED  BY <1>1, <1>3, <2>1 DEF DbInv
<1>16. TaskInv'
      BY <1>1, <1>2, <1>3 DEF TaskInv
<1>17. PersistedInv'
      BY <1>1, <1>5 DEF PersistedInv
<1> QED  BY <1>6, <1>7, <1>8, <1>9, <1>10, <1>11, <1>12, <1>13, <1>14, <1>15, <1>16, <1>17

------------------------------------------------------------------------------
(* Steps of the completing task. *)

\* ack_completed of a job's graph.
LEMMA AckJob ==
  ASSUME NEW r \in JobRecords, FiniteGraph(r.graph), NEW v \in BOOLEAN,
         NEW T, T = {} \/ T = r.graph.completing,
         NEW s, s = Rec(r.ctl, v, r.phase, r.snap, r.fake, r.pend, r.inLog, r.logDone,
                        r.finishAt, [r.graph EXCEPT !.completing = T])
  PROVE  /\ s \in JobRecords /\ FiniteGraph(s.graph) /\ Suffix(r, s)
         /\ \A ov : JobRoom(r, ov) => JobRoom(s, ov)
         /\ s.ctl = r.ctl /\ s.phase = r.phase /\ s.finishAt = r.finishAt
         /\ s.snap = r.snap
         /\ Outstanding(s) = Outstanding(r) /\ s.graph.completing = T
<1>1. PICK g : g = [r.graph EXCEPT !.completing = T]
      OBVIOUS
<1>2. /\ g \in Graphs(JobBarriers) /\ g.inflight = r.graph.inflight
      /\ g.collected = r.graph.collected /\ g.completing = T
  <2>1. r.graph \in Graphs(JobBarriers) /\ T \subseteq Nat
        BY RecordFacts
  <2> QED  BY <1>1, <2>1 DEF Graphs
<1>3. s = Rec(r.ctl, v, r.phase, r.snap, r.fake, r.pend, r.inLog, r.logDone, r.finishAt, g)
      BY <1>1, Zenon
<1>4. s \in JobRecords
      BY <1>2, <1>3 DEF JobRecords, Rec
<1>5. /\ s.ctl = r.ctl /\ s.phase = r.phase /\ s.snap = r.snap /\ s.fake = r.fake
      /\ s.pend = r.pend /\ s.finishAt = r.finishAt /\ s.graph = g
      BY <1>3 DEF Rec
<1>6. IsFiniteSet(T) /\ Cardinality(T) <= Cardinality(r.graph.completing)
      /\ Cardinality(T) \in Nat /\ Cardinality(r.graph.completing) \in Nat
  <2>1. IsFiniteSet(r.graph.completing)
        BY DEF FiniteGraph
  <2>2. Cardinality(r.graph.completing) \in Nat
        BY <2>1, FS_CardinalityType
  <2>3. CASE T = {}
        BY <2>2, <2>3, FS_EmptySet
  <2>4. CASE T = r.graph.completing
        BY <2>1, <2>2, <2>4
  <2> QED  BY <2>3, <2>4
<1>7. FiniteGraph(g)
      BY <1>2, <1>6 DEF FiniteGraph
<1>8. PendingNum(g) <= PendingNum(r.graph)
      BY <1>2, <1>6, PendingIsNat DEF PendingNum
<1>9. ASSUME NEW ov, JobRoom(r, ov) PROVE JobRoom(s, ov)
  <2>1. PendingNum(r.graph) \in Nat /\ PendingNum(g) \in Nat /\ MaxPending \in Nat
        BY <1>7, PendingIsNat, CCAssumption
  <2>2. /\ PendingNum(r.graph) <= MaxPending + 1 + ov
        /\ r.phase # "finishing" => PendingNum(r.graph) <= MaxPending + ov
        /\ ov \in Nat
        /\ Cardinality(r.graph.completing) <= 1
        BY <1>9 DEF JobRoom
  <2>3. /\ PendingNum(g) <= MaxPending + 1 + ov
        /\ r.phase # "finishing" => PendingNum(g) <= MaxPending + ov
        /\ Cardinality(g.completing) <= 1
        BY <1>2, <1>6, <1>8, <2>1, <2>2
  <2> QED  BY <1>5, <2>2, <2>3, Zenon DEF JobRoom
<1>10. Outstanding(s) = Outstanding(r)
      BY <1>2, <1>5 DEF Outstanding
<1>11. Suffix(r, s)
      BY <1>2, <1>5, <1>10 DEF Suffix, GraphOrder
<1> QED  BY <1>2, <1>4, <1>5, <1>7, <1>9, <1>10, <1>11

\* The acknowledgement makes jobs ready and forgets what they completed.
LEMMA AckRecord ==
  ASSUME Inv, TaskAck, NEW j \in Jobs
  PROVE  /\ job'[j] \in JobRecords /\ FiniteGraph(job'[j].graph) /\ JobRoom(job'[j], over'[j])
         /\ Suffix(job[j], job'[j])
         /\ job'[j].ctl = job[j].ctl /\ job'[j].phase = job[j].phase
         /\ job'[j].finishAt = job[j].finishAt /\ job'[j].snap = job[j].snap
         /\ Outstanding(job'[j]) = Outstanding(job[j])
         /\ job'[j].graph.completing = {}
         /\ job'[j].pend = job[j].pend /\ job'[j].ready = ReadyAfterAck(j)
<1> USE DEF Inv, CCInv, EpochInv, persisted
<1>1. PICK r : r = job[j] /\ r \in JobRecords /\ FiniteGraph(r.graph) /\ JobRoom(r, over[j])
      BY TypeFacts DEF JobsInv
<1>2. PICK v, a, ov : v = ReadyAfterAck(j) /\ a = AckedJob(j) /\ ov = over[j]
      OBVIOUS
<1>3. PICK T : T = IF a THEN {} ELSE r.graph.completing
      OBVIOUS
<1>4. job'[j] = [r EXCEPT !.ready = v, !.graph.completing = T]
      BY <1>1, <1>2, <1>3, Zenon DEF TaskAck
<1>5. PICK s : s = job'[j]
      OBVIOUS
<1>6. s = Rec(r.ctl, v, r.phase, r.snap, r.fake, r.pend, r.inLog, r.logDone, r.finishAt,
              [r.graph EXCEPT !.completing = T])
  <2>1. r = Rec(r.ctl, r.ready, r.phase, r.snap, r.fake, r.pend, r.inLog, r.logDone,
                r.finishAt, r.graph)
        BY <1>1 DEF JobRecords, Rec
  <2>2. PICK h : h = [r EXCEPT !.ready = v]
        OBVIOUS
  <2>3. h = Rec(r.ctl, v, r.phase, r.snap, r.fake, r.pend, r.inLog, r.logDone, r.finishAt,
                r.graph)
        BY <2>1, <2>2 DEF Rec
  <2>4. PICK g : g = [r.graph EXCEPT !.completing = T]
        OBVIOUS
  <2>5. [h EXCEPT !.graph = g]
          = Rec(r.ctl, v, r.phase, r.snap, r.fake, r.pend, r.inLog, r.logDone, r.finishAt, g)
        BY <2>3 DEF Rec
  <2>6. h.graph = r.graph
        BY <2>3 DEF Rec
  <2>7. [h EXCEPT !.graph.completing = T] = [h EXCEPT !.graph = [h.graph EXCEPT !.completing = T]]
        BY Zenon
  <2>8. [h EXCEPT !.graph = [h.graph EXCEPT !.completing = T]] = [h EXCEPT !.graph = g]
        BY <2>4, <2>6, Zenon
  <2>9. [r EXCEPT !.ready = v, !.graph.completing = T] = [h EXCEPT !.graph.completing = T]
        BY <2>2, Zenon
  <2> QED  BY <1>4, <1>5, <2>4, <2>5, <2>7, <2>8, <2>9, Zenon
<1>7. v \in BOOLEAN
  <2>1. r.ready \in BOOLEAN
        BY <1>1 DEF JobRecords
  <2> QED  BY <1>1, <1>2, <2>1 DEF ReadyAfterAck
<1>8. a <=> \E e \in r.graph.completing : <<j, e>> \in task.jobs
      BY <1>1, <1>2 DEF AckedJob
<1>9. \A e \in r.graph.completing : <<j, e>> \in task.jobs
      BY <1>1 DEF JobsInv
<1>10. T = {}
      BY <1>3, <1>8, <1>9
<1>11. /\ s \in JobRecords /\ FiniteGraph(s.graph) /\ Suffix(r, s)
       /\ JobRoom(s, ov)
       /\ s.ctl = r.ctl /\ s.phase = r.phase /\ s.finishAt = r.finishAt
       /\ s.snap = r.snap
       /\ Outstanding(s) = Outstanding(r) /\ s.graph.completing = T
  <2>1. JobRoom(r, ov)
        BY <1>1, <1>2
  <2>2. T = {} \/ T = r.graph.completing
        BY <1>10
  <2>3. /\ s \in JobRecords /\ FiniteGraph(s.graph) /\ Suffix(r, s)
        /\ \A m : JobRoom(r, m) => JobRoom(s, m)
        /\ s.ctl = r.ctl /\ s.phase = r.phase /\ s.finishAt = r.finishAt
        /\ s.snap = r.snap
        /\ Outstanding(s) = Outstanding(r) /\ s.graph.completing = T
        BY <1>1, <1>6, <1>7, <2>2, AckJob
  <2> QED  BY <2>1, <2>3
<1>12. s.pend = r.pend /\ s.ready = v
      BY <1>6 DEF Rec
<1>13. over'[j] = ov
      BY <1>2 DEF TaskAck
<1> QED  BY <1>1, <1>2, <1>5, <1>10, <1>11, <1>12, <1>13

LEMMA AckKeeps == ASSUME Inv, TaskAck PROVE Inv'
<1> USE DEF Inv, CCInv, EpochInv, persisted
<1>1. /\ up' = up /\ nextEpoch' = nextEpoch /\ nonCkpt' = nonCkpt
      /\ dbJobs' = dbJobs /\ dbCreating' = dbCreating /\ subs' = subs
      /\ pendSubs' = pendSubs /\ finWait' = finWait /\ finGot' = finGot
      /\ dropReq' = dropReq /\ dbCommitted' = dbCommitted /\ jobCommitted' = jobCommitted
      /\ catalog' = catalog /\ catSnap' = catSnap
      /\ log' = log /\ truncInfo' = truncInfo /\ crashes' = crashes /\ over' = over
      /\ task.step = "ack" /\ task' = NoTask
      BY DEF TaskAck
<1>2. db' = [db EXCEPT !.completing = {}]
      BY DEF TaskAck
<1>3. /\ db' \in Graphs(DbBarriers) /\ db'.inflight = db.inflight
      /\ db'.collected = db.collected /\ db'.completing = {}
      BY <1>2 DEF TypeInv, Graphs
<1>4. up /\ DbPending' = DbPending
      BY <1>1, <1>3, UpWithTask DEF DbPending
<1>5. ASSUME NEW j \in Jobs
      PROVE  /\ job'[j] \in JobRecords /\ FiniteGraph(job'[j].graph) /\ JobRoom(job'[j], over'[j])
             /\ Suffix(job[j], job'[j])
             /\ job'[j].ctl = job[j].ctl /\ job'[j].phase = job[j].phase
             /\ job'[j].finishAt = job[j].finishAt /\ job'[j].snap = job[j].snap
             /\ Outstanding(job'[j]) = Outstanding(job[j])
             /\ job'[j].graph.completing = {}
      BY AckRecord
<1>6. \A j \in Jobs : Running(j)' <=> Running(j)
      BY <1>5 DEF Running
<1>7. TypeInv'
  <2>1. job' \in [Jobs -> JobRecords]
    <3>1. job' = [j \in Jobs |-> job'[j]]
      <4>1. PICK f : f = job'
            OBVIOUS
      <4>2. f = [j \in Jobs |-> [job[j] EXCEPT
                  !.ready = ReadyAfterAck(j),
                  !.graph.completing = IF AckedJob(j) THEN {} ELSE @]]
            BY <4>1, Zenon DEF TaskAck
      <4>3. f = [j \in Jobs |-> f[j]]
            BY <4>2, Zenon
      <4> QED  BY <4>1, <4>3, Zenon
    <3> QED  BY <1>5, <3>1
  <2>2. task' \in Tasks
        BY <1>1, NoTaskFields
  <2> QED  BY <1>1, <1>3, <1>5, <2>1, <2>2 DEF TypeInv
<1>8. MemoryInv'
      BY <1>1, <1>4 DEF MemoryInv
<1>9. SubsInv'
      BY <1>1, <1>5 DEF SubsInv, Subscribes
<1>10. CatalogInv'
      BY <1>1, <1>4, <1>5, NoTaskFields DEF CatalogInv
<1>11. MergeInv'
      BY <1>1, <1>4, <1>5, <1>6, NoTaskFields DEF MergeInv, MergedAt
<1>12. InitialInv'
  <2>1. \A j \in Jobs : job'[j].graph.inflight \cup job'[j].graph.collected
                         = job[j].graph.inflight \cup job[j].graph.collected
        BY <1>5 DEF Outstanding
  <2> QED  BY <1>1, <1>6, <2>1 DEF InitialInv
<1>13. FinishedInv' /\ NoJobForgotten'
  <2>1. task'.step = "none"
        BY <1>1, NoTaskFields
  <2> QED  BY <1>1, <1>6, <2>1 DEF FinishedInv, NoJobForgotten
<1>14. JobsInv'
  <2>1. ASSUME NEW j \in Jobs, Running(j)'
        PROVE  /\ JobOk(job'[j], nextEpoch')
               /\ JobAfter(job'[j], jobCommitted'[j])
               /\ JobEpoch(job'[j], jobCommitted'[j], nextEpoch')
               /\ catSnap'[j] \in {None, job'[j].snap}
    <3>1. Running(j) /\ job[j] \in JobRecords /\ Suffix(job[j], job'[j])
          BY <1>5, <1>6, <2>1, TypeFacts
    <3>2. /\ JobOk(job[j], nextEpoch) /\ JobAfter(job[j], jobCommitted[j])
          /\ JobEpoch(job[j], jobCommitted[j], nextEpoch) /\ catSnap[j] \in {None, job[j].snap}
          BY <3>1 DEF JobsInv
    <3>3. /\ JobOk(job'[j], nextEpoch) /\ JobAfter(job'[j], jobCommitted[j])
          /\ JobEpoch(job'[j], jobCommitted[j], nextEpoch)
          BY <3>1, <3>2, SuffixKeeps
    <3> QED  BY <1>1, <1>5, <3>2, <3>3
  <2> QED  BY <1>5, <2>1 DEF JobsInv
<1>15. DbInv'
  <2>1. GraphOrder(db')
        BY <1>3 DEF DbInv, GraphOrder
  <2>2. Cardinality(db'.completing) <= 1
        BY <1>3, FS_EmptySet
  <2> QED  BY <1>1, <1>4, <2>1, <2>2 DEF DbInv
<1>16. TaskInv'
      BY <1>1, NoTaskFields DEF TaskInv
<1>17. PersistedInv'
      BY <1>1 DEF PersistedInv
<1> QED  BY <1>7, <1>8, <1>9, <1>10, <1>11, <1>12, <1>13, <1>14, <1>15, <1>16, <1>17

\* commit_epoch: a job's tables get the database's epoch, or the one of their own
\* graph, or keep theirs.
LEMMA CommitEpoch ==
  ASSUME Inv, task.step = "commit", NEW j \in Jobs, NEW e, e = EpochAfterCommit(j)
  PROVE  \/ \E b \in task.db : j \in b.tabs /\ e = b.prev
         \/ /\ \A b \in task.db : j \notin b.tabs
            /\ \E p \in task.jobs : p[1] = j /\ p[2] = e
         \/ /\ \A b \in task.db : j \notin b.tabs
            /\ \A p \in task.jobs : p[1] # j
            /\ e = jobCommitted[j]
<1>0. TypeInv /\ TaskInv /\ DbInv
      BY DEF Inv, CCInv, EpochInv
<1>1. CASE \E b \in task.db : j \in b.tabs
  <2>1. PICK b \in task.db : j \in b.tabs
        BY <1>1
  <2>2. \A c \in task.db : c.prev \in Nat
        BY <1>0, TypeFacts
  <2>3. FirstOf(task.db) \in task.db
        BY <2>1, <2>2, FirstOfIsLeast
  <2>4. FirstOf(task.db).prev = b.prev
        BY <1>0, <2>3 DEF TaskInv
  <2> QED  BY <1>1, <2>1, <2>4 DEF EpochAfterCommit
<1>2. CASE ~\E b \in task.db : j \in b.tabs
  <2>1. \A p \in task.jobs : p[2] \in 0 .. Unbounded
    <3>1. \A p \in task.jobs : p[2] \in Nat /\ p[2] < nextEpoch
          BY <1>0, TypeFacts DEF TaskInv
    <3>2. nextEpoch \in Nat /\ nextEpoch <= Base + MaxEpoch
          BY <1>0, TypeFacts DEF DbInv
    <3> QED  BY <3>1, <3>2, BaseFacts
  <2>2. \A p \in task.jobs : p = <<p[1], p[2]>>
        BY <1>0, TypeFacts
  <2>3. CASE \E p \in task.jobs : p[1] = j
    <3>1. PICK p \in task.jobs : p[1] = j
          BY <2>3
    <3>2. <<j, p[2]>> \in task.jobs /\ p[2] \in 0 .. Unbounded
          BY <2>1, <2>2, <3>1
    <3>3. e = CHOOSE x \in 0 .. Unbounded : <<j, x>> \in task.jobs
          BY <1>2, <3>2 DEF EpochAfterCommit
    <3>4. <<j, e>> \in task.jobs
          BY <3>2, <3>3
    <3> QED  BY <1>2, <3>4
  <2>4. CASE ~\E p \in task.jobs : p[1] = j
    <3>1. ~\E x \in 0 .. Unbounded : <<j, x>> \in task.jobs
          BY <2>4
    <3> QED  BY <1>2, <2>4, <3>1 DEF EpochAfterCommit
  <2> QED  BY <2>3, <2>4
<1> QED  BY <1>1, <1>2

\* The log after a commit that keeps it.
LEMMA CommitLogIs ==
  ASSUME TypeInv, task.db # {}, task.log, NEW l, l = LogAfterCommit,
         NEW f, f = FirstOf(task.db)
  PROVE  /\ f \in task.db /\ l \in Seq(LogRecords) /\ log \in Seq(LogRecords)
         /\ f.eps \in Seq(Nat) /\ Len(l) = Len(log) + Len(f.eps)
         /\ \A i \in 1 .. Len(log) : l[i] = log[i]
         /\ \A i \in 1 .. Len(f.eps) :
              l[Len(log) + i].epoch = f.eps[i] /\ (l[Len(log) + i].ckpt <=> i = Len(f.eps))
<1>1. \A c \in task.db : c.prev \in Nat
      BY TypeFacts
<1>2. f \in task.db
      BY <1>1, FirstOfIsLeast
<1>3. PICK eps : eps = f.eps
      OBVIOUS
<1>4. eps \in Seq(Nat) /\ Len(eps) \in Nat
      BY <1>2, <1>3, TypeFacts
<1>5. PICK x : x = EpochLog(eps)
      OBVIOUS
<1>6. \A i \in 1 .. Len(eps) : x[i] = [epoch |-> eps[i], ckpt |-> i = Len(eps)]
      BY <1>5 DEF EpochLog
<1>7. ASSUME NEW i \in 1 .. Len(eps)
      PROVE  x[i] \in LogRecords /\ x[i].epoch = eps[i] /\ (x[i].ckpt <=> i = Len(eps))
  <2>1. PICK c \in BOOLEAN : c = (i = Len(eps))
        OBVIOUS
  <2>2. PICK e \in Nat : e = eps[i]
        BY <1>4
  <2>3. x[i] = [epoch |-> e, ckpt |-> c]
        BY <1>6, <2>1, <2>2, Zenon
  <2>4. x[i] \in LogRecords /\ x[i].epoch = e /\ x[i].ckpt = c
        BY <2>3 DEF LogRecords
  <2> QED  BY <2>1, <2>2, <2>4
<1>8. x \in Seq(LogRecords) /\ Len(x) = Len(eps)
  <2>1. x = [i \in 1 .. Len(eps) |-> x[i]]
        BY <1>5 DEF EpochLog
  <2> QED  BY <1>4, <1>7, <2>1, FunctionIsSeq
<1>9. l = log \o x
      BY <1>3, <1>5 DEF LogAfterCommit
<1>10. log \in Seq(LogRecords)
      BY DEF TypeInv
<1>11. /\ l \in Seq(LogRecords) /\ Len(l) = Len(log) + Len(x)
       /\ \A i \in 1 .. Len(l) : l[i] = IF i <= Len(log) THEN log[i] ELSE x[i - Len(log)]
  <2>1. PICK z \in Seq(LogRecords) : z = log
        BY <1>10
  <2>2. PICK y \in Seq(LogRecords) : y = x
        BY <1>8
  <2>3. PICK u : u = z \o y
        OBVIOUS
  <2>4. u \in Seq(LogRecords)
        BY <2>3
  <2>5. Len(u) = Len(z) + Len(y)
        BY <2>3
  <2>6. \A i \in 1 .. Len(u) : u[i] = IF i <= Len(z) THEN z[i] ELSE y[i - Len(z)]
        BY <2>3, <2>5
  <2> QED  BY <1>9, <2>1, <2>2, <2>3, <2>4, <2>5, <2>6, Zenon
<1>12. PICK m \in Nat, q \in Nat : m = Len(log) /\ q = Len(eps) /\ Len(l) = m + q
  <2>1. Len(log) \in Nat /\ Len(l) = Len(log) + Len(eps)
        BY <1>8, <1>10, <1>11
  <2> QED  BY <1>4, <2>1, Zenon
<1>13. \A i \in 1 .. m : l[i] = log[i]
      BY <1>11, <1>12
<1>14. ASSUME NEW i \in 1 .. q PROVE l[m + i] = x[i]
  <2>1. m + i \in 1 .. m + q /\ ~(m + i <= m) /\ (m + i) - m = i
        BY <1>14
  <2> QED  BY <1>11, <1>12, <2>1
<1> QED  BY <1>2, <1>3, <1>4, <1>7, <1>10, <1>11, <1>12, <1>13, <1>14

\* The log grows by the epochs of the checkpoint.
LEMMA CommitLog ==
  ASSUME Inv, task.step = "commit", NEW l, l = LogAfterCommit,
         NEW n, n = IF task.db = {} THEN dbCommitted ELSE FirstOf(task.db).prev
  PROVE  /\ l \in Seq(LogRecords)
         /\ \A i \in 1 .. Len(l) : l[i].epoch <= n
         /\ \A i, k \in 1 .. Len(l) : i < k => l[i].epoch < l[k].epoch
<1>0. TypeInv /\ TaskInv /\ PersistedInv
      BY DEF Inv, CCInv, EpochInv
<1>1. CASE task.db = {}
      BY <1>0, <1>1 DEF LogAfterCommit, PersistedInv, TypeInv
<1>2. CASE task.db # {} /\ ~task.log
  <2>1. l = <<>>
        BY <1>2 DEF LogAfterCommit
  <2> QED  BY <2>1
<1>3. CASE task.db # {} /\ task.log
  <2>1. \A c \in task.db : c.prev \in Nat
        BY <1>0, TypeFacts
  <2>2. PICK f \in task.db : f = FirstOf(task.db)
        BY <1>3, <2>1, FirstOfIsLeast
  <2>3. PICK eps : eps = f.eps
        OBVIOUS
  <2>4. eps \in Seq(Nat) /\ f.prev \in Nat /\ dbCommitted \in Nat
        BY <1>0, <2>3, TypeFacts
  <2>5. /\ dbCommitted < f.prev
        /\ \A i, k \in 1 .. Len(eps) : i < k => eps[i] < eps[k]
        /\ \A i \in 1 .. Len(eps) : dbCommitted < eps[i] /\ eps[i] <= f.prev
        BY <1>0, <2>3 DEF TaskInv, Rising
  <2>6. /\ l \in Seq(LogRecords) /\ log \in Seq(LogRecords) /\ Len(l) = Len(log) + Len(eps)
        /\ \A i \in 1 .. Len(log) : l[i] = log[i]
        /\ \A i \in 1 .. Len(eps) : l[Len(log) + i].epoch = eps[i]
        BY <1>0, <1>3, <2>2, <2>3, CommitLogIs
  <2>10. n = f.prev
        BY <1>3, <2>2
  <2>13. PICK m \in Nat, q \in Nat : m = Len(log) /\ q = Len(eps) /\ Len(l) = m + q
    <3>1. Len(log) \in Nat /\ Len(eps) \in Nat /\ Len(l) = Len(log) + Len(eps)
          BY <2>4, <2>6
    <3> QED  BY <3>1, Zenon
  <2>14. \A i \in 1 .. m : l[i] = log[i] /\ log[i].epoch \in Nat /\ log[i].epoch <= dbCommitted
    <3>1. \A y \in LogRecords : y.epoch \in Nat
          BY DEF LogRecords
    <3>2. \A i \in 1 .. Len(log) : log[i] \in LogRecords /\ log[i].epoch <= dbCommitted
          BY <1>0, <2>6 DEF PersistedInv
    <3> QED  BY <2>6, <2>13, <3>1, <3>2
  <2>15. ASSUME NEW i \in (m + 1) .. (m + q) PROVE i - m \in 1 .. q /\ l[i].epoch = eps[i - m]
    <3>1. i - m \in 1 .. q /\ m + (i - m) = i
          BY <2>15
    <3> QED  BY <2>6, <2>13, <3>1
  <2>16. \A i \in 1 .. q : eps[i] \in Nat
        BY <2>4, <2>13
  <2>17. ASSUME NEW i \in 1 .. (m + q) PROVE l[i].epoch <= f.prev
    <3>1. CASE i \in 1 .. m
      <4>1. l[i].epoch \in Nat /\ l[i].epoch <= dbCommitted
            BY <2>14, <3>1
      <4>2. dbCommitted \in Nat /\ f.prev \in Nat /\ dbCommitted < f.prev
            BY <2>4, <2>5
      <4> QED  BY <4>1, <4>2
    <3>2. CASE i \in (m + 1) .. (m + q)
          BY <2>5, <2>13, <2>15, <3>2
    <3> QED  BY <3>1, <3>2
  <2>18. ASSUME NEW i \in 1 .. (m + q), NEW k \in 1 .. (m + q), i < k
         PROVE  l[i].epoch < l[k].epoch
    <3>1. CASE k \in 1 .. m
      <4>1. log[i].epoch < log[k].epoch
            BY <1>0, <2>13, <2>18, <3>1 DEF PersistedInv
      <4> QED  BY <2>14, <2>18, <3>1, <4>1
    <3>2. CASE i \in 1 .. m /\ k \in (m + 1) .. (m + q)
      <4>1. eps[k - m] \in Nat /\ dbCommitted < eps[k - m] /\ l[k].epoch = eps[k - m]
            BY <2>5, <2>13, <2>15, <2>16, <3>2
      <4>2. l[i].epoch \in Nat /\ l[i].epoch <= dbCommitted
            BY <2>14, <3>2
      <4>3. dbCommitted \in Nat
            BY <2>4
      <4>4. l[i].epoch < eps[k - m]
            BY <4>1, <4>2, <4>3
      <4> QED  BY <4>1, <4>4, Zenon
    <3>3. CASE i \in (m + 1) .. (m + q) /\ k \in (m + 1) .. (m + q)
      <4>1. i - m < k - m
            BY <2>18, <3>3
      <4> QED  BY <2>5, <2>13, <2>15, <3>3, <4>1
    <3> QED  BY <2>18, <3>1, <3>2, <3>3
  <2> QED  BY <2>6, <2>10, <2>13, <2>17, <2>18
<1> QED  BY <1>1, <1>2, <1>3

LEMMA CommitKeeps == ASSUME Inv, TaskCommit PROVE Inv'
<1> USE DEF Inv, CCInv, EpochInv
<1>1. /\ up' = up /\ nextEpoch' = nextEpoch /\ nonCkpt' = nonCkpt /\ db' = db
      /\ job' = job /\ dbJobs' = dbJobs /\ dbCreating' = dbCreating /\ subs' = subs
      /\ pendSubs' = pendSubs /\ finWait' = finWait /\ finGot' = finGot
      /\ dropReq' = dropReq /\ catalog' = catalog /\ catSnap' = catSnap
      /\ truncInfo' = truncInfo /\ crashes' = crashes /\ over' = over
      /\ task.step = "commit" /\ task' = [task EXCEPT !.step = "post"]
      /\ dbCommitted' = IF task.db = {} THEN dbCommitted ELSE FirstOf(task.db).prev
      /\ jobCommitted' = [j \in Jobs |-> EpochAfterCommit(j)]
      /\ log' = LogAfterCommit
      BY DEF TaskCommit
<1>2. /\ task' \in Tasks /\ task'.step = "post" /\ task'.db = task.db
      /\ task'.jobs = task.jobs /\ task'.fin = task.fin /\ task'.log = task.log
      BY <1>1 DEF TypeInv, Tasks
<1>3. up /\ DbPending' = DbPending
      BY <1>1, UpWithTask DEF DbPending
<1>4. /\ log' \in Seq(LogRecords)
      /\ \A i \in 1 .. Len(log') : log'[i].epoch <= dbCommitted'
      /\ \A i, k \in 1 .. Len(log') : i < k => log'[i].epoch < log'[k].epoch
      BY <1>1, CommitLog
<1>5. ASSUME NEW j \in Jobs
      PROVE  \/ \E b \in task.db : j \in b.tabs /\ jobCommitted'[j] = b.prev
             \/ /\ \A b \in task.db : j \notin b.tabs
                /\ \E p \in task.jobs : p[1] = j /\ p[2] = jobCommitted'[j]
             \/ /\ \A b \in task.db : j \notin b.tabs
                /\ \A p \in task.jobs : p[1] # j
                /\ jobCommitted'[j] = jobCommitted[j]
  <2>1. jobCommitted'[j] = EpochAfterCommit(j)
        BY <1>1
  <2> QED  BY <1>1, <2>1, CommitEpoch
<1>6. \A b \in task.db : dbCommitted' = b.prev
  <2>1. \A c \in task.db : c.prev \in Nat
        BY TypeFacts
  <2>2. task.db # {} => FirstOf(task.db) \in task.db
        BY <2>1, FirstOfIsLeast
  <2> QED  BY <1>1, <2>2 DEF TaskInv
<1>7. task.db = {} => dbCommitted' = dbCommitted
      BY <1>1
<1>8. TypeInv'
  <2>1. dbCommitted' \in Nat
        BY <1>6, <1>7, TypeFacts
  <2>2. \A j \in Jobs : jobCommitted'[j] \in Nat \cup {None}
        BY <1>5, TypeFacts DEF TypeInv
  <2>3. jobCommitted' \in [Jobs -> Nat \cup {None}]
        BY <1>1, <2>2
  <2> QED  BY <1>1, <1>2, <1>4, <2>1, <2>3 DEF TypeInv
<1>9. MemoryInv'
      BY <1>1, <1>2, <1>3 DEF MemoryInv
<1>10. SubsInv'
      BY <1>1 DEF SubsInv
<1>11. CatalogInv'
      BY <1>1, <1>2, <1>3 DEF CatalogInv
<1>12. MergeInv'
      BY <1>1, <1>2, <1>3 DEF MergeInv, Running, MergedAt
<1>13. InitialInv' /\ FinishedInv' /\ NoJobForgotten'
      BY <1>1, <1>2 DEF InitialInv, FinishedInv, NoJobForgotten, Running
<1>14. JobsInv'
  <2>1. ASSUME NEW j \in Jobs, Running(j)
        PROVE  /\ JobAfter(job[j], jobCommitted'[j])
               /\ JobEpoch(job[j], jobCommitted'[j], nextEpoch)
    <3>1. \A b \in task.db : j \notin b.tabs
          BY <1>1, <2>1 DEF MergeInv
    <3>2. CASE \E p \in task.jobs : p[1] = j /\ p[2] = jobCommitted'[j]
          BY <1>1, <2>1, <3>2 DEF TaskInv
    <3>3. CASE jobCommitted'[j] = jobCommitted[j]
          BY <2>1, <3>3 DEF JobsInv
    <3> QED  BY <1>5, <3>1, <3>2, <3>3
  <2> QED  BY <1>1, <1>2, <2>1 DEF JobsInv, Running
<1>15. /\ dbCommitted <= dbCommitted' /\ dbCommitted' < nextEpoch
       /\ \A i \in 1 .. Len(nonCkpt) : dbCommitted' < nonCkpt[i]
       /\ \A b \in DbPending : /\ dbCommitted' < b.prev
                               /\ \A i \in 1 .. Len(b.eps) : dbCommitted' < b.eps[i]
  <2>1. CASE task.db = {}
        BY <1>7, <2>1, TypeFacts DEF DbInv
  <2>2. CASE task.db # {}
    <3>1. PICK f \in task.db : dbCommitted' = f.prev
          BY <1>6, <2>2
    <3>2. dbCommitted < f.prev /\ dbCommitted \in Nat /\ f.prev \in Nat
          BY <1>1, TypeFacts DEF TaskInv
    <3> QED  BY <1>1, <3>1, <3>2 DEF TaskInv
  <2> QED  BY <2>1, <2>2
<1>16. DbInv'
  <2>1. ASSUME NEW b \in DbPending, NEW j \in b.tabs
        PROVE  jobCommitted'[j] < b.prev
    <3>1. j \in Jobs
          BY TypeFacts
    <3>2. CASE \E c \in task.db : j \in c.tabs /\ jobCommitted'[j] = c.prev
          BY <1>1, <3>2 DEF TaskInv
    <3>3. CASE \E p \in task.jobs : p[1] = j /\ p[2] = jobCommitted'[j]
          BY <1>1, <3>3 DEF TaskInv
    <3>4. CASE jobCommitted'[j] = jobCommitted[j]
          BY <3>4 DEF DbInv
    <3> QED  BY <1>5, <3>1, <3>2, <3>3, <3>4
  <2>2. dbCommitted' >= Base
        BY <1>8, <1>15, TypeFacts, BaseFacts DEF DbInv, TypeInv
  <2> QED  BY <1>1, <1>3, <1>15, <2>1, <2>2 DEF DbInv
<1>17. TaskInv'
  <2>1. ASSUME NEW j \in task.fin PROVE jobCommitted'[j] = dbCommitted'
    <3>1. PICK f \in task.db : j \in f.tabs
          BY <1>1 DEF TaskInv
    <3>2. j \in Jobs
          BY TypeFacts
    <3> QED  BY <1>5, <1>6, <3>1, <3>2
  <2> QED  BY <1>1, <1>2, <1>3, <2>1 DEF TaskInv
<1>18. PersistedInv'
  <2>1. ASSUME NEW j \in Jobs
        PROVE  /\ jobCommitted'[j] < nextEpoch
               /\ catalog[j] = "none" => jobCommitted'[j] = None
               /\ catalog[j] = "creating" =>
                    (jobCommitted'[j] < catSnap[j] => jobCommitted'[j] <= nextEpoch - Base)
    <3>0. /\ nextEpoch \in Nat /\ Base \in Nat /\ jobCommitted[j] \in Int /\ catSnap[j] \in Int
          BY TypeFacts, BaseFacts
    <3>1. CASE \E c \in task.db : j \in c.tabs /\ jobCommitted'[j] = c.prev
      <4>1. PICK c \in task.db : j \in c.tabs /\ jobCommitted'[j] = c.prev
            BY <3>1
      <4>2. c.prev \in Nat /\ c.prev < nextEpoch
            BY <1>1, TypeFacts DEF TaskInv
      <4>3. catalog[j] = "creating" => catSnap[j] <= c.prev
            BY <1>1, <4>1 DEF TaskInv
      <4>4. catalog[j] # "none"
            BY <4>1 DEF CatalogInv
      <4> QED  BY <3>0, <4>1, <4>2, <4>3, <4>4
    <3>2. CASE \E p \in task.jobs : p[1] = j /\ p[2] = jobCommitted'[j]
      <4>1. PICK p \in task.jobs : p[1] = j /\ p[2] = jobCommitted'[j]
            BY <3>2
      <4>2. p[2] \in Nat /\ p[2] < nextEpoch
            BY <1>1, TypeFacts DEF TaskInv
      <4>3. catalog[j] = "creating" => JobEpoch([snap |-> catSnap[j]], p[2], nextEpoch)
            BY <1>1, <4>1 DEF TaskInv
      <4>4. catalog[j] = "creating" => p[2] <= nextEpoch - Base \/ p[2] >= catSnap[j]
            BY <4>3 DEF JobEpoch
      <4>5. catalog[j] # "none"
            BY <4>1 DEF CatalogInv
      <4> QED  BY <3>0, <4>1, <4>2, <4>4, <4>5
    <3>3. CASE jobCommitted'[j] = jobCommitted[j]
          BY <3>3 DEF PersistedInv
    <3> QED  BY <1>5, <3>1, <3>2, <3>3
  <2> QED  BY <1>1, <1>4, <2>1 DEF PersistedInv
<1> QED  BY <1>8, <1>9, <1>10, <1>11, <1>12, <1>13, <1>14, <1>16, <1>17, <1>18

------------------------------------------------------------------------------
(* Collection. *)

\* A running job's record changes, and nothing else: enough is kept of it.
LEMMA JobChanges ==
  ASSUME Inv, NEW j \in Jobs, Running(j),
         UNCHANGED <<up, nextEpoch, nonCkpt, db, dbJobs, dbCreating, subs, pendSubs,
                     finWait, finGot, task, dropReq, persisted, truncInfo, crashes, over>>,
         NEW s, job' = [job EXCEPT ![j] = s],
         s \in JobRecords, FiniteGraph(s.graph), JobRoom(s, over[j]), s.ctl = "running",
         s.phase = "finishing" <=> job[j].phase = "finishing",
         s.finishAt = job[j].finishAt, s.snap = job[j].snap,
         Outstanding(s) = Outstanding(job[j]),
         s.graph.completing = job[j].graph.completing,
         JobOk(s, nextEpoch),
         \A e : JobAfter(job[j], e) => JobAfter(s, e)
  PROVE  Inv'
<1> USE DEF Inv, CCInv, EpochInv, persisted
<1>1. /\ up' = up /\ nextEpoch' = nextEpoch /\ nonCkpt' = nonCkpt /\ db' = db
      /\ dbJobs' = dbJobs /\ dbCreating' = dbCreating /\ subs' = subs
      /\ pendSubs' = pendSubs /\ finWait' = finWait /\ finGot' = finGot /\ task' = task
      /\ dropReq' = dropReq /\ dbCommitted' = dbCommitted /\ jobCommitted' = jobCommitted
      /\ catalog' = catalog /\ catSnap' = catSnap
      /\ log' = log /\ truncInfo' = truncInfo /\ crashes' = crashes /\ over' = over
      OBVIOUS
<1>2. job' \in [Jobs -> JobRecords] /\ job'[j] = s
      BY DEF TypeInv
<1>3. \A i \in Jobs : i # j => job'[i] = job[i]
      BY DEF TypeInv
<1>4. up /\ DbPending' = DbPending
  <2>1. ~up => job[j] = NoJob
        BY DEF MemoryInv
  <2> QED  BY <1>1, <2>1, NoJobFields DEF DbPending, Running
<1>5. \A i \in Jobs : Running(i)' <=> Running(i)
      BY <1>2, <1>3 DEF Running
<1>6. \A i \in Jobs : /\ job'[i].phase = "finishing" <=> job[i].phase = "finishing"
                      /\ job'[i].finishAt = job[i].finishAt /\ job'[i].snap = job[i].snap
                      /\ job'[i].ctl = job[i].ctl
                      /\ Outstanding(job'[i]) = Outstanding(job[i])
                      /\ job'[i].graph.completing = job[i].graph.completing
                      /\ FiniteGraph(job'[i].graph) /\ JobRoom(job'[i], over'[i])
      BY <1>2, <1>3, TypeFacts DEF Running, JobsInv
<1>7. TypeInv'
      BY <1>1, <1>2, <1>6 DEF TypeInv
<1>8. MemoryInv'
      BY <1>1, <1>4 DEF MemoryInv
<1>9. SubsInv'
      BY <1>1, <1>6 DEF SubsInv, Subscribes
<1>10. CatalogInv'
      BY <1>1, <1>4, <1>6 DEF CatalogInv
<1>11. MergeInv'
      BY <1>1, <1>4, <1>5, <1>6 DEF MergeInv, MergedAt
<1>12. InitialInv'
      BY <1>1, <1>5, <1>6 DEF InitialInv, Outstanding
<1>13. FinishedInv' /\ NoJobForgotten'
      BY <1>1, <1>5 DEF FinishedInv, NoJobForgotten
<1>14. ASSUME NEW i \in Jobs, Running(i)
       PROVE  /\ JobOk(job'[i], nextEpoch)
              /\ \A e : JobAfter(job[i], e) => JobAfter(job'[i], e)
              /\ \A e : JobEpoch(job[i], e, nextEpoch) => JobEpoch(job'[i], e, nextEpoch)
  <2>1. CASE i = j
    <3>1. \A e : JobEpoch(job[i], e, nextEpoch) => JobEpoch(job'[i], e, nextEpoch)
          BY <1>6 DEF JobEpoch
    <3> QED  BY <1>2, <2>1, <3>1
  <2>2. CASE i # j
        BY <1>3, <1>14, <2>2 DEF JobsInv
  <2> QED  BY <2>1, <2>2
<1>15. JobsInv'
      BY <1>1, <1>5, <1>6, <1>14 DEF JobsInv
<1>16. DbInv'
      BY <1>1, <1>4 DEF DbInv
<1>17. TaskInv'
  <2>1. ASSUME task.step = "commit", NEW p \in task.jobs, Running(p[1])
        PROVE  JobAfter(job'[p[1]], p[2]) /\ JobEpoch(job'[p[1]], p[2], nextEpoch)
    <3>1. p[1] \in Jobs
          BY TypeFacts
    <3> QED  BY <1>14, <2>1, <3>1 DEF TaskInv
  <2>2. \A p \in task.jobs : Running(p[1])' <=> Running(p[1])
        BY <1>5, TypeFacts
  <2> QED  BY <1>1, <1>4, <2>1, <2>2 DEF TaskInv
<1>18. PersistedInv'
      BY <1>1 DEF PersistedInv
<1> QED  BY <1>7, <1>8, <1>9, <1>10, <1>11, <1>12, <1>13, <1>15, <1>16, <1>17, <1>18

\* The facts of a running job that the invariant gives.
LEMMA RunningFacts ==
  ASSUME Inv, NEW j \in Jobs
  PROVE  /\ job[j] \in JobRecords /\ FiniteGraph(job[j].graph) /\ JobRoom(job[j], over[j])
         /\ nextEpoch \in Nat /\ nextEpoch <= Base + MaxEpoch
         /\ Running(j) => /\ up /\ JobOk(job[j], nextEpoch)
                          /\ JobAfter(job[j], jobCommitted[j])
<1>1. TypeInv /\ JobsInv /\ MemoryInv /\ DbInv
      BY DEF Inv, CCInv, EpochInv
<1>2. ~up => job[j] = NoJob
      BY <1>1 DEF MemoryInv
<1>3. Running(j) => up
      BY <1>1, <1>2, NoJobFields DEF Running, TypeInv
<1> QED  BY <1>1, <1>3, TypeFacts DEF JobsInv, DbInv

LEMMA CollectKeeps ==
  ASSUME Inv, NEW j \in Jobs, JobCollect(j) \/ JobFinishesNode(j) PROVE Inv'
<1>1. PICK b \in job[j].graph.inflight : FirstOfJob(j, b) /\ \E S : JobCollects(j, b, job[j], S)
      BY DEF JobCollect, JobFinishesNode
<1>2. PICK r : r = job[j]
      OBVIOUS
<1>3. /\ r \in JobRecords /\ FiniteGraph(r.graph) /\ JobRoom(r, over[j]) /\ nextEpoch \in Nat
      /\ Running(j) /\ JobOk(r, nextEpoch) /\ r.ctl = "running" /\ r.graph.inflight # {}
      BY <1>1, <1>2, RunningFacts DEF FirstOfJob, Running
<1>4. PICK v : v = (b.prev > job[j].snap)
      OBVIOUS
<1>5. PICK s : s = [r EXCEPT !.graph = CollectFirst(@), !.inLog = @ \/ v]
      OBVIOUS
<1>6. s = Rec(r.ctl, r.ready, r.phase, r.snap, r.fake, r.pend, (r.inLog \/ v),
              r.logDone, r.finishAt, CollectFirst(r.graph))
      BY <1>3, <1>5, CollectedFields, Zenon
<1>7. (r.inLog \/ v) \in BOOLEAN
      OBVIOUS
<1>8. /\ s \in JobRecords /\ FiniteGraph(s.graph) /\ JobRoom(s, over[j])
      /\ s.ctl = r.ctl /\ s.ready = r.ready
      /\ Outstanding(s) = Outstanding(r) /\ s.graph.completing = r.graph.completing
      /\ Suffix(r, s)
      BY <1>3, <1>6, <1>7, CollectJob
<1>9. JobOk(s, nextEpoch) /\ \A e : JobAfter(r, e) => JobAfter(s, e)
      BY <1>3, <1>8, SuffixKeeps
<1>10. s.phase = r.phase /\ s.finishAt = r.finishAt /\ s.snap = r.snap
      BY <1>8 DEF Suffix
<1>11. job' = [job EXCEPT ![j] = s]
      BY <1>1, <1>2, <1>4, <1>5, Zenon DEF JobCollects
<1>12. UNCHANGED <<up, nextEpoch, nonCkpt, db, dbJobs, dbCreating, subs, pendSubs,
                   finWait, finGot, task, dropReq, persisted, truncInfo, crashes, over>>
      BY <1>1 DEF JobCollects
<1> QED  BY <1>2, <1>3, <1>8, <1>9, <1>10, <1>11, <1>12, JobChanges

LEMMA FinishesLogStoreKeeps == ASSUME Inv, NEW j \in Jobs, JobFinishesLogStore(j) PROVE Inv'
<1>1. PICK b \in job[j].graph.inflight :
        /\ FirstOfJob(j, b) /\ JobCollects(j, b, [job[j] EXCEPT !.logDone = TRUE], toStart)
      BY DEF JobFinishesLogStore
<1>2. PICK r : r = job[j]
      OBVIOUS
<1>3. /\ r \in JobRecords /\ FiniteGraph(r.graph) /\ JobRoom(r, over[j]) /\ nextEpoch \in Nat
      /\ Running(j) /\ JobOk(r, nextEpoch) /\ r.ctl = "running" /\ r.graph.inflight # {}
      BY <1>1, <1>2, RunningFacts DEF FirstOfJob, Running
<1>0. PICK t \in BOOLEAN : t = TRUE
      OBVIOUS
<1>4. PICK v : v = (b.prev > job[j].snap)
      OBVIOUS
<1>5. PICK q : q = [r EXCEPT !.logDone = t]
      OBVIOUS
<1>6. /\ q \in JobRecords /\ q.ctl = r.ctl /\ q.ready = r.ready /\ q.phase = r.phase
      /\ q.snap = r.snap /\ q.fake = r.fake /\ q.pend = r.pend /\ q.inLog = r.inLog
      /\ q.finishAt = r.finishAt /\ q.graph = r.graph
      BY <1>3, <1>5 DEF JobRecords
<1>7. JobRoom(q, over[j]) /\ FiniteGraph(q.graph) /\ q.graph.inflight # {}
      BY <1>3, <1>6 DEF JobRoom
<1>8. PICK s : s = [q EXCEPT !.graph = CollectFirst(@), !.inLog = @ \/ v]
      OBVIOUS
<1>9. s = Rec(q.ctl, q.ready, q.phase, q.snap, q.fake, q.pend, (q.inLog \/ v),
              q.logDone, q.finishAt, CollectFirst(q.graph))
      BY <1>6, <1>8, CollectedFields, Zenon
<1>10. PICK w \in BOOLEAN : w = (q.inLog \/ v)
      OBVIOUS
<1>11. /\ s \in JobRecords /\ FiniteGraph(s.graph) /\ JobRoom(s, over[j])
       /\ s.ctl = q.ctl /\ s.ready = q.ready
       /\ Outstanding(s) = Outstanding(q) /\ s.graph.completing = q.graph.completing
       /\ Suffix(q, s)
  <2>1. s = Rec(q.ctl, q.ready, q.phase, q.snap, q.fake, q.pend, w, q.logDone, q.finishAt,
                CollectFirst(q.graph))
        BY <1>9, <1>10, Zenon
  <2>2. q \in JobRecords /\ FiniteGraph(q.graph) /\ q.graph.inflight # {} /\ JobRoom(q, over[j])
        BY <1>6, <1>7
  <2> QED  BY <2>1, <2>2, CollectJob
<1>12. Suffix(r, q) /\ Outstanding(q) = Outstanding(r)
      BY <1>6 DEF Suffix, Outstanding
<1>13. JobOk(q, nextEpoch) /\ \A e : JobAfter(r, e) => JobAfter(q, e)
      BY <1>3, <1>12, SuffixKeeps
<1>14. JobOk(s, nextEpoch) /\ \A e : JobAfter(q, e) => JobAfter(s, e)
      BY <1>6, <1>11, <1>13, SuffixKeeps
<1>15. s.phase = q.phase /\ s.finishAt = q.finishAt /\ s.snap = q.snap
      BY <1>11 DEF Suffix
<1>16. job' = [job EXCEPT ![j] = s]
      BY <1>0, <1>1, <1>2, <1>4, <1>5, <1>8, Zenon DEF JobCollects
<1>17. UNCHANGED <<up, nextEpoch, nonCkpt, db, dbJobs, dbCreating, subs, pendSubs,
                   finWait, finGot, task, dropReq, persisted, truncInfo, crashes, over>>
      BY <1>1 DEF JobCollects
<1>18. /\ s.ctl = "running" /\ (s.phase = "finishing" <=> job[j].phase = "finishing")
       /\ s.finishAt = job[j].finishAt /\ s.snap = job[j].snap
       /\ Outstanding(s) = Outstanding(job[j])
       /\ s.graph.completing = job[j].graph.completing
       /\ \A e : JobAfter(job[j], e) => JobAfter(s, e)
      BY <1>2, <1>3, <1>6, <1>11, <1>12, <1>13, <1>14, <1>15
<1> QED  BY <1>3, <1>11, <1>14, <1>16, <1>17, <1>18, JobChanges

LEMMA FinishesSnapshotKeeps == ASSUME Inv, NEW j \in Jobs, JobFinishesSnapshot(j) PROVE Inv'
<1>0. PICK r : r = job[j]
      OBVIOUS
<1>1. PICK b \in r.graph.inflight :
        /\ FirstOfJob(j, b) /\ r.phase = "snapshot"
        /\ JobCollects(j, b, [r EXCEPT !.phase = "log",
                                       !.pend = <<FinishSnapshotBarrier(r)>> \o @],
                       toStart \ {j})
      BY <1>0, Zenon DEF JobFinishesSnapshot
<1>2. /\ r \in JobRecords /\ FiniteGraph(r.graph) /\ JobRoom(r, over[j])
      /\ nextEpoch \in Nat /\ nextEpoch <= Base + MaxEpoch
      /\ Running(j) /\ JobOk(r, nextEpoch) /\ r.ctl = "running" /\ r.graph.inflight # {}
      BY <1>0, <1>1, RunningFacts DEF FirstOfJob, Running
<1>3. PICK f \in JobBarriers : f = FinishSnapshotBarrier(r) /\ f.prev = r.fake /\ f.curr = r.snap
  <2>1. r.fake \in Nat /\ r.snap \in Nat
        BY <1>2, RecordFacts
  <2>2. PICK t \in BOOLEAN : t = TRUE
        OBVIOUS
  <2>3. PICK f : f = Barrier(r.fake, r.snap, t)
        OBVIOUS
  <2>4. f = FinishSnapshotBarrier(r)
        BY <2>2, <2>3, Zenon DEF FinishSnapshotBarrier
  <2>5. f \in JobBarriers /\ f.prev = r.fake /\ f.curr = r.snap
        BY <2>1, <2>3 DEF Barrier, JobBarriers
  <2> QED  BY <2>4, <2>5, Zenon
<1>4. PICK v : v = (b.prev > job[j].snap)
      OBVIOUS
<1>5. PICK u : u = <<f>> \o r.pend
      OBVIOUS
<1>6. PICK q : q = [r EXCEPT !.phase = "log", !.pend = u]
      OBVIOUS
<1>7. q = Rec(r.ctl, r.ready, "log", r.snap, r.fake, u, r.inLog, r.logDone, r.finishAt, r.graph)
      BY <1>2, <1>6, ToLogFields, Zenon
<1>8. q = Rec(r.ctl, r.ready, "log", r.snap, r.fake, <<f>> \o r.pend, r.inLog, r.logDone,
              r.finishAt, r.graph)
      BY <1>5, <1>7, Zenon
<1>9. /\ q \in JobRecords /\ q.ctl = r.ctl /\ q.ready = r.ready /\ q.phase = "log"
      /\ q.snap = r.snap /\ q.graph = r.graph /\ q.inLog = r.inLog
      /\ JobOk(q, nextEpoch)
      /\ \A e : JobAfter(r, e) => JobAfter(q, e)
      BY <1>1, <1>2, <1>3, <1>8, ToLogKeeps
<1>10. JobRoom(q, over[j]) /\ FiniteGraph(q.graph) /\ q.graph.inflight # {} /\ q.finishAt = r.finishAt
  <2>1. q.finishAt = r.finishAt
        BY <1>7 DEF Rec
  <2> QED  BY <1>1, <1>2, <1>9, <2>1 DEF JobRoom
<1>11. PICK s : s = [q EXCEPT !.graph = CollectFirst(@), !.inLog = @ \/ v]
      OBVIOUS
<1>12. s = Rec(q.ctl, q.ready, q.phase, q.snap, q.fake, q.pend, (q.inLog \/ v),
               q.logDone, q.finishAt, CollectFirst(q.graph))
      BY <1>9, <1>11, CollectedFields, Zenon
<1>13. PICK w \in BOOLEAN : w = (q.inLog \/ v)
      OBVIOUS
<1>14. /\ s \in JobRecords /\ FiniteGraph(s.graph) /\ JobRoom(s, over[j])
       /\ s.ctl = q.ctl /\ s.ready = q.ready
       /\ Outstanding(s) = Outstanding(q) /\ s.graph.completing = q.graph.completing
       /\ Suffix(q, s)
  <2>1. s = Rec(q.ctl, q.ready, q.phase, q.snap, q.fake, q.pend, w, q.logDone, q.finishAt,
                CollectFirst(q.graph))
        BY <1>12, <1>13, Zenon
  <2>2. q \in JobRecords /\ FiniteGraph(q.graph) /\ q.graph.inflight # {} /\ JobRoom(q, over[j])
        BY <1>9, <1>10
  <2> QED  BY <2>1, <2>2, CollectJob
<1>15. Outstanding(q) = Outstanding(r)
      BY <1>9 DEF Outstanding
<1>16. JobOk(s, nextEpoch) /\ \A e : JobAfter(q, e) => JobAfter(s, e)
      BY <1>9, <1>14, SuffixKeeps
<1>17. s.phase = q.phase /\ s.finishAt = q.finishAt /\ s.snap = q.snap
      BY <1>14 DEF Suffix
<1>18. job' = [job EXCEPT ![j] = s]
  <2>1. q = [r EXCEPT !.phase = "log", !.pend = <<FinishSnapshotBarrier(r)>> \o @]
        BY <1>3, <1>5, <1>6, Zenon
  <2>2. JobCollects(j, b, q, toStart \ {j})
        BY <1>1, <2>1, Zenon
  <2> QED  BY <1>4, <1>11, <2>2, Zenon DEF JobCollects
<1>19. UNCHANGED <<up, nextEpoch, nonCkpt, db, dbJobs, dbCreating, subs, pendSubs,
                   finWait, finGot, task, dropReq, persisted, truncInfo, crashes, over>>
      BY <1>1 DEF JobCollects
<1>20. /\ s.ctl = "running" /\ (s.phase = "finishing" <=> job[j].phase = "finishing")
       /\ s.finishAt = job[j].finishAt /\ s.snap = job[j].snap
       /\ Outstanding(s) = Outstanding(job[j])
       /\ s.graph.completing = job[j].graph.completing
       /\ \A e : JobAfter(job[j], e) => JobAfter(s, e)
      BY <1>0, <1>1, <1>2, <1>9, <1>10, <1>14, <1>15, <1>16, <1>17
<1> QED  BY <1>2, <1>14, <1>16, <1>18, <1>19, <1>20, JobChanges

\* A barrier of the database is collected.
LEMMA DbCollectKeeps == ASSUME Inv, DbCollect PROVE Inv'
<1> USE DEF Inv, CCInv, EpochInv, persisted
<1>1. /\ up' = up /\ nextEpoch' = nextEpoch /\ nonCkpt' = nonCkpt /\ job' = job
      /\ dbJobs' = dbJobs /\ dbCreating' = dbCreating /\ subs' = subs
      /\ pendSubs' = pendSubs /\ finWait' = finWait /\ finGot' = finGot /\ task' = task
      /\ dropReq' = dropReq /\ dbCommitted' = dbCommitted /\ jobCommitted' = jobCommitted
      /\ catalog' = catalog /\ catSnap' = catSnap
      /\ log' = log /\ truncInfo' = truncInfo /\ crashes' = crashes /\ over' = over
      /\ up /\ db.inflight # {} /\ db' = CollectFirst(db)
      BY DEF DbCollect, Settled
<1>2. /\ db' \in Graphs(DbBarriers) /\ db'.completing = db.completing
      /\ DbPending' = DbPending /\ GraphOrder(db')
  <2>1. \A x \in DbBarriers : x.prev \in Nat
        BY DEF DbBarriers
  <2>2. db \in Graphs(DbBarriers) /\ GraphOrder(db)
        BY DEF TypeInv, DbInv
  <2> QED  BY <1>1, <2>1, <2>2, CollectGraph DEF DbPending
<1>3. TypeInv'
      BY <1>1, <1>2 DEF TypeInv
<1>4. MemoryInv'
      BY <1>1 DEF MemoryInv
<1>5. SubsInv'
      BY <1>1 DEF SubsInv
<1>6. CatalogInv'
      BY <1>1, <1>2 DEF CatalogInv
<1>7. MergeInv'
      BY <1>1, <1>2 DEF MergeInv, Running, MergedAt
<1>8. InitialInv' /\ FinishedInv' /\ NoJobForgotten'
      BY <1>1 DEF InitialInv, FinishedInv, NoJobForgotten, Running
<1>9. JobsInv'
      BY <1>1 DEF JobsInv, Running
<1>10. DbInv'
      BY <1>1, <1>2 DEF DbInv
<1>11. TaskInv'
      BY <1>1, <1>2 DEF TaskInv, Running
<1>12. PersistedInv'
      BY <1>1 DEF PersistedInv
<1> QED  BY <1>3, <1>4, <1>5, <1>6, <1>7, <1>8, <1>9, <1>10, <1>11, <1>12

------------------------------------------------------------------------------
(* Dropping a job that has not merged. *)

\* A job stops running: the catalog has dropped it, or it is being reset.
LEMMA JobStops ==
  ASSUME Inv, up, NEW j \in Jobs, Subscribes(job[j]), job[j].ctl = "running" => j \in dropReq,
         UNCHANGED <<up, nextEpoch, nonCkpt, db, dbJobs, dbCreating, subs,
                     finWait, finGot, task, persisted, truncInfo, crashes, over>>,
         dropReq' \subseteq dropReq,
         NEW s, job' = [job EXCEPT ![j] = s],
         s \in JobRecords, s.graph = EmptyGraph, JobRoom(s, over[j]),
         \/ s.ctl = "resetting" /\ pendSubs' = pendSubs
         \/ s.ctl = "none" /\ pendSubs' = pendSubs \cup {j}
  PROVE  Inv'
<1> USE DEF Inv, CCInv, EpochInv, persisted
<1>1. /\ up' = up /\ nextEpoch' = nextEpoch /\ nonCkpt' = nonCkpt /\ db' = db
      /\ dbJobs' = dbJobs /\ dbCreating' = dbCreating /\ subs' = subs
      /\ finWait' = finWait /\ finGot' = finGot /\ task' = task
      /\ dbCommitted' = dbCommitted /\ jobCommitted' = jobCommitted
      /\ catalog' = catalog /\ catSnap' = catSnap
      /\ log' = log /\ truncInfo' = truncInfo /\ crashes' = crashes /\ over' = over
      OBVIOUS
<1>2. job' \in [Jobs -> JobRecords] /\ job'[j] = s
      BY DEF TypeInv
<1>3. \A i \in Jobs : i # j => job'[i] = job[i]
      BY DEF TypeInv
<1>4. DbPending' = DbPending
      BY <1>1 DEF DbPending
<1>5. /\ s.graph.completing = {} /\ FiniteGraph(s.graph)
      BY EmptyGraphFinite
<1>6. \A i \in Jobs : Running(i)' => Running(i) /\ job'[i] = job[i]
      BY <1>2, <1>3 DEF Running
<1>7. job[j].ctl \in {"running", "resetting"}
      BY DEF Subscribes
<1>8. Running(j) => catalog[j] = "dropped"
      BY DEF CatalogInv, Running
<1>9. TypeInv'
  <2>1. \A i \in Jobs : FiniteGraph(job'[i].graph)
        BY <1>2, <1>3, <1>5, TypeFacts
  <2>2. pendSubs' \subseteq Jobs /\ dropReq' \subseteq Jobs
        BY DEF TypeInv
  <2> QED  BY <1>1, <1>2, <2>1, <2>2 DEF TypeInv
<1>10. MemoryInv'
      BY <1>1 DEF MemoryInv
<1>11. SubsInv'
  <2>1. j \in subs /\ j \notin pendSubs
        BY <1>7 DEF SubsInv
  <2>2. ASSUME NEW i \in Jobs
        PROVE  /\ i \in subs <=> (Subscribes(job'[i]) \/ i \in pendSubs')
               /\ i \in pendSubs' => job'[i].ctl = "none"
    <3>1. CASE i = j
          BY <1>2, <2>1, <3>1 DEF Subscribes
    <3>2. CASE i # j
      <4>1. i \in pendSubs' <=> i \in pendSubs
            BY <3>2
      <4> QED  BY <1>3, <3>2, <4>1 DEF SubsInv
    <3> QED  BY <3>1, <3>2
  <2> QED  BY <1>1, <2>2 DEF SubsInv
<1>12. CatalogInv'
  <2>1. ASSUME NEW i \in Jobs, catalog[i] = "none"
        PROVE  job'[i].ctl = "none" /\ i \notin pendSubs'
    <3>1. job[i].ctl = "none" /\ i \notin pendSubs
          BY <2>1 DEF CatalogInv
    <3>2. i # j
          BY <1>7, <3>1
    <3> QED  BY <1>3, <3>1, <3>2
  <2> QED  BY <1>1, <1>4, <2>1 DEF CatalogInv
<1>13. MergeInv'
      BY <1>1, <1>4, <1>6 DEF MergeInv, MergedAt
<1>14. InitialInv'
  <2>1. \A i \in Jobs : catalog[i] = "initial" => i # j
        BY <1>8 DEF InitialInv
  <2>2. \A i \in Jobs : i # j => (Running(i)' <=> Running(i))
        BY <1>3 DEF Running
  <2> QED  BY <1>1, <1>3, <2>1, <2>2 DEF InitialInv
<1>15. FinishedInv' /\ NoJobForgotten'
  <2>1. ASSUME NEW i \in Jobs, catalog[i] = "creating", Running(i)
        PROVE  Running(i)'
    <3>1. i # j
          BY <1>8, <2>1
    <3> QED  BY <1>3, <2>1, <3>1 DEF Running
  <2> QED  BY <1>1, <2>1 DEF FinishedInv, NoJobForgotten
<1>16. JobsInv'
  <2>1. \A i \in Jobs : /\ JobRoom(job'[i], over'[i])
                        /\ \A e \in job'[i].graph.completing : <<i, e>> \in task.jobs
        BY <1>2, <1>3, <1>5 DEF JobsInv
  <2> QED  BY <1>1, <1>6, <2>1 DEF JobsInv
<1>17. DbInv'
      BY <1>1, <1>4 DEF DbInv
<1>18. TaskInv'
  <2>1. \A p \in task.jobs : Running(p[1])' => Running(p[1]) /\ job'[p[1]] = job[p[1]]
        BY <1>6, TypeFacts
  <2> QED  BY <1>1, <1>4, <2>1 DEF TaskInv
<1>19. PersistedInv'
      BY <1>1 DEF PersistedInv
<1> QED  BY <1>9, <1>10, <1>11, <1>12, <1>13, <1>14, <1>15, <1>16, <1>17, <1>18, <1>19

LEMMA EmptyRoom == ASSUME NEW s, s.graph = EmptyGraph, NEW ov \in Nat PROVE JobRoom(s, ov)
BY EmptyGraphFinite, CCAssumption DEF JobRoom

LEMMA DropIndependentlyKeeps ==
  ASSUME Inv, NEW j \in Jobs, DropIndependently(j) PROVE Inv'
<1>1. PICK r : r = job[j]
      OBVIOUS
<1>2. r \in JobRecords
      BY <1>1, RunningFacts
<1>3. PICK s : s = DroppedJob(r)
      OBVIOUS
<1>4. s = Rec("resetting", r.ready, r.phase, r.snap, r.fake, r.pend, r.inLog,
              r.logDone, r.finishAt, EmptyGraph)
      BY <1>2, <1>3, DroppedFields, Zenon
<1>5. s \in JobRecords /\ s.ctl = "resetting" /\ s.graph = EmptyGraph
  <2>1. EmptyGraph \in Graphs(JobBarriers)
        BY EmptyGraphFinite
  <2> QED  BY <1>2, <1>4, <2>1 DEF JobRecords, Rec
<1>6. JobRoom(s, over[j])
  <2>1. over[j] \in Nat
        BY RunningFacts DEF JobRoom
  <2> QED  BY <1>5, <2>1, EmptyRoom
<1>7. job' = [job EXCEPT ![j] = s]
      BY <1>1, <1>3, Zenon DEF DropIndependently
<1>8. /\ UNCHANGED <<up, nextEpoch, nonCkpt, db, dbJobs, dbCreating, subs,
                     finWait, finGot, task, persisted, truncInfo, crashes, over>>
      /\ pendSubs' = pendSubs /\ dropReq' \subseteq dropReq /\ j \in dropReq /\ up
      /\ CanDropIndependently(job[j])
      BY DEF DropIndependently, Settled
<1>9. Subscribes(job[j])
      BY <1>8 DEF CanDropIndependently, Subscribes
<1> QED  BY <1>5, <1>6, <1>7, <1>8, <1>9, JobStops

LEMMA ResetKeeps == ASSUME Inv, NEW j \in Jobs, JobReset(j) PROVE Inv'
<1>1. /\ UNCHANGED <<up, nextEpoch, nonCkpt, db, dbJobs, dbCreating, subs,
                     finWait, finGot, task, persisted, truncInfo, crashes, over>>
      /\ pendSubs' = pendSubs \cup {j} /\ dropReq' \subseteq dropReq /\ up
      /\ job[j].ctl = "resetting"
      BY DEF JobReset, Settled
<1>2. PICK s : s = NoJob
      OBVIOUS
<1>3. /\ s \in JobRecords /\ s.graph = EmptyGraph /\ s.ctl = "none" /\ JobRoom(s, over[j])
  <2>1. over[j] \in Nat
        BY RunningFacts DEF JobRoom
  <2> QED  BY <1>2, <2>1, NoJobFields, NoJobRoom
<1>4. job' = [job EXCEPT ![j] = s]
      BY <1>2, Zenon DEF JobReset
<1>5. Subscribes(job[j]) /\ (job[j].ctl = "running" => j \in dropReq)
      BY <1>1 DEF Subscribes
<1> QED  BY <1>1, <1>3, <1>4, <1>5, JobStops

------------------------------------------------------------------------------
(* A new barrier of the database. *)

\* What a job keeps when the barrier with prev epoch n is forwarded to it.
Followed(r, s, n, ov) ==
  /\ s \in JobRecords /\ FiniteGraph(s.graph) /\ JobRoom(s, ov)
  /\ s.ctl = r.ctl /\ s.snap = r.snap
  /\ s.graph.completing = r.graph.completing
  /\ Outstanding(r) \subseteq Outstanding(s)
  /\ r.ctl = "running" => /\ JobOk(s, n + 1)
                          /\ \A e \in Int : e < n /\ JobAfter(r, e) => JobAfter(s, e)

LEMMA ForwardFollows ==
  ASSUME NEW r \in JobRecords, FiniteGraph(r.graph), NEW ov, JobRoom(r, ov),
         NEW n \in Nat, NEW ck \in BOOLEAN, n > Base, n <= Base + MaxEpoch,
         r.ctl = "running" => JobOk(r, n),
         NEW b, b = Barrier(n, n + 1, ck), NEW mu, NEW s, s = Forward(r, b, mu),
         NEW ow, ow = OverAfter(r, ov, mu)
  PROVE  Followed(r, s, n, ow) /\ s.phase = r.phase /\ s.finishAt = r.finishAt
<1>1. b \in JobBarriers
      BY BarrierFields
<1>2. /\ s \in JobRecords /\ FiniteGraph(s.graph)
      /\ s.ctl = r.ctl /\ s.phase = r.phase /\ s.snap = r.snap /\ s.finishAt = r.finishAt
      /\ s.graph.collected = r.graph.collected
      /\ s.graph.completing = r.graph.completing
      /\ r.graph.inflight \subseteq s.graph.inflight
      BY <1>1, ForwardType
<1>3. JobRoom(s, ow)
      BY <1>1, ForwardRoom
<1>4. ASSUME r.ctl = "running"
      PROVE  /\ JobOk(s, n + 1)
             /\ \A e \in Int : e < n /\ JobAfter(r, e) => JobAfter(s, e)
      BY <1>4, ForwardKeeps
<1>5. Outstanding(r) \subseteq Outstanding(s)
      BY <1>2 DEF Outstanding
<1> QED  BY <1>2, <1>3, <1>4, <1>5, Zenon DEF Followed

LEMMA MergeFollows ==
  ASSUME NEW r \in JobRecords, FiniteGraph(r.graph), NEW ov, JobRoom(r, ov), r.phase = "log", r.pend = <<>>,
         NEW n \in Nat, NEW ck \in BOOLEAN, n > Base, JobOk(r, n),
         NEW b, b = Barrier(n, n + 1, ck), NEW s, s = StartConsumeUpstream(r, b)
  PROVE  Followed(r, s, n, ov) /\ s.phase = "finishing" /\ s.finishAt = n
<1>1. b \in JobBarriers /\ b.prev = n
      BY BarrierFields
<1>2. /\ s \in JobRecords /\ FiniteGraph(s.graph)
      /\ s.ctl = r.ctl /\ s.phase = "finishing" /\ s.snap = r.snap /\ s.finishAt = b.prev
      /\ s.graph = [inflight |-> r.graph.inflight \cup {b},
                    collected |-> r.graph.collected, completing |-> r.graph.completing]
      BY <1>1, MergeType
<1>3. /\ JobOk(s, n + 1) /\ JobRoom(s, ov)
      /\ \A e \in Int : e < n /\ JobAfter(r, e) => JobAfter(s, e)
      BY MergeKeeps
<1>4. Outstanding(r) \subseteq Outstanding(s) /\ s.graph.completing = r.graph.completing
      BY <1>2 DEF Outstanding
<1> QED  BY <1>1, <1>2, <1>3, <1>4, Zenon DEF Followed

\* The database's graph and the barriers without a checkpoint.
LEMMA InjectDbKeeps ==
  ASSUME Inv, NEW ck \in BOOLEAN, NEW tabs \in SUBSET Jobs, InjectDb(ck, tabs),
         dbJobs \subseteq tabs, dbCreating' \subseteq dbCreating,
         NEW M \in SUBSET tabs, finWait' = finWait \cup {<<nextEpoch, j>> : j \in M},
         finGot' = finGot, dbCommitted' = dbCommitted, jobCommitted' = jobCommitted,
         catSnap' = catSnap,
         \A j \in Jobs : catalog'[j] = "creating" => catalog[j] = "creating"
  PROVE  /\ nextEpoch' = nextEpoch + 1 /\ nonCkpt' \in Seq(Nat)
         /\ db' \in Graphs(DbBarriers)
         /\ \E nb \in DbBarriers :
              /\ DbPending' = DbPending \cup {nb}
              /\ nb.prev = nextEpoch /\ nb.tabs = tabs
              /\ \A i \in 1 .. Len(nb.eps) :
                   nb.eps[i] = nextEpoch \/ \E k \in 1 .. Len(nonCkpt) : nb.eps[i] = nonCkpt[k]
         /\ \A i \in 1 .. Len(nonCkpt') :
              nonCkpt'[i] = nextEpoch \/ \E k \in 1 .. Len(nonCkpt) : nonCkpt'[i] = nonCkpt[k]
         /\ DbInv'
<1>0. TypeInv /\ DbInv /\ PersistedInv
      BY DEF Inv, CCInv, EpochInv
<1>1. PICK n \in Nat, l \in Seq(Nat) : n = nextEpoch /\ l = nonCkpt
      BY <1>0 DEF TypeInv
<1>2. PICK q : q = Append(l, n)
      OBVIOUS
<1>3. PICK nb : nb = [prev |-> n, curr |-> n + 1, ckpt |-> ck, eps |-> q, tabs |-> tabs]
      OBVIOUS
<1>4. /\ q \in Seq(Nat) /\ Len(q) = Len(l) + 1 /\ Len(l) \in Nat
      /\ \A i \in 1 .. Len(l) : q[i] = l[i]
      /\ q[Len(l) + 1] = n
      BY <1>2
<1>5. /\ nb \in DbBarriers /\ nb.prev = n /\ nb.ckpt = ck /\ nb.eps = q /\ nb.tabs = tabs
      BY <1>3, <1>4 DEF DbBarriers
<1>6. /\ nextEpoch' = n + 1 /\ n + 1 <= Base + MaxEpoch
      /\ nonCkpt' = IF ck THEN <<>> ELSE q
      /\ db' = [db EXCEPT !.inflight = @ \cup {nb}]
  <2>1. n + 1 \in Base .. (Base + MaxEpoch)
        BY <1>1 DEF InjectDb, Epochs
  <2>2. Base \in Nat /\ MaxEpoch \in Nat
        BY BaseFacts
  <2> QED  BY <1>1, <1>2, <1>3, <2>1, <2>2 DEF InjectDb
<1>7. /\ db' \in Graphs(DbBarriers) /\ db'.inflight = db.inflight \cup {nb}
      /\ db'.collected = db.collected /\ db'.completing = db.completing
  <2>1. db \in Graphs(DbBarriers)
        BY <1>0 DEF TypeInv
  <2> QED  BY <1>5, <1>6, <2>1 DEF Graphs
<1>8. DbPending' = DbPending \cup {nb}
      BY <1>7 DEF DbPending
<1>9. nonCkpt' \in Seq(Nat)
      BY <1>4, <1>6
<1>10. \A b \in DbPending : b.prev \in Nat /\ b.prev < n /\ b \in DbBarriers
      BY <1>0, <1>1, TypeFacts DEF DbInv
<1>11. /\ \A i \in 1 .. Len(l) : l[i] \in Nat /\ dbCommitted < l[i] /\ l[i] < n
       /\ \A i, k \in 1 .. Len(l) : i < k => l[i] < l[k]
       /\ dbCommitted \in Nat /\ dbCommitted < n /\ n > Base
      BY <1>0, <1>1 DEF DbInv, Rising, TypeInv
<1>12. \A i \in 1 .. Len(q) : /\ q[i] \in Nat /\ dbCommitted < q[i] /\ q[i] <= n
                              /\ q[i] = n \/ \E k \in 1 .. Len(l) : q[i] = l[k]
  <2> TAKE i \in 1 .. Len(q)
  <2>1. CASE i \in 1 .. Len(l)
    <3>1. q[i] = l[i] /\ l[i] \in Nat /\ dbCommitted < l[i] /\ l[i] < n
          BY <1>4, <1>11, <2>1
    <3>2. q[i] <= n
          BY <3>1
    <3> QED  BY <2>1, <3>1, <3>2
  <2>2. CASE i = Len(l) + 1
        BY <1>4, <1>11, <2>2
  <2> QED  BY <1>4, <2>1, <2>2
<1>13. Rising(q)
  <2> SUFFICES ASSUME NEW i \in 1 .. Len(q), NEW k \in 1 .. Len(q), i < k PROVE q[i] < q[k]
      BY DEF Rising
  <2>1. CASE k \in 1 .. Len(l)
    <3>1. i \in 1 .. Len(l)
          BY <1>4, <2>1
    <3>2. q[i] = l[i] /\ q[k] = l[k] /\ l[i] < l[k]
          BY <1>4, <1>11, <2>1, <3>1
    <3> QED  BY <3>2
  <2>2. CASE k = Len(l) + 1
    <3>1. i \in 1 .. Len(l)
          BY <1>4, <2>2
    <3> QED  BY <1>4, <1>11, <2>2, <3>1
  <2> QED  BY <1>4, <2>1, <2>2
<1>14. Rising(nonCkpt')
  <2>1. CASE ck
        BY <1>6, <2>1 DEF Rising
  <2>2. CASE ~ck
        BY <1>6, <1>13, <2>2
  <2> QED  BY <2>1, <2>2
<1>15. \A i \in 1 .. Len(nonCkpt') :
         /\ nonCkpt'[i] \in Nat /\ dbCommitted < nonCkpt'[i] /\ nonCkpt'[i] <= n
         /\ nonCkpt'[i] = n \/ \E k \in 1 .. Len(l) : nonCkpt'[i] = l[k]
      BY <1>6, <1>12
<1>16. GraphOrder(db')
  <2>1. /\ \A b \in db.collected, c \in db.inflight : b.prev < c.prev
        /\ \A b, c \in db.collected : b.prev = c.prev => b = c
        /\ \A b, c \in db.inflight : b.prev = c.prev => b = c
        BY <1>0 DEF DbInv, GraphOrder
  <2>2. \A b \in db.inflight \cup db.collected : b.prev \in Nat /\ b.prev < n
        BY <1>10 DEF DbPending
  <2>3. \A b \in db'.collected, c \in db'.inflight : b.prev < c.prev
        BY <1>5, <1>7, <2>1, <2>2
  <2>4. \A b, c \in db'.inflight : b.prev = c.prev => b = c
        BY <1>5, <1>7, <2>1, <2>2
  <2> QED  BY <1>7, <2>1, <2>3, <2>4 DEF GraphOrder
<1>17. ASSUME NEW b \in DbPending'
       PROVE  /\ dbCommitted < b.prev /\ b.prev < n + 1
              /\ Rising(b.eps)
              /\ \A i \in 1 .. Len(b.eps) : dbCommitted < b.eps[i] /\ b.eps[i] <= b.prev
              /\ \A j \in b.tabs : jobCommitted[j] < b.prev
              /\ \A j \in b.tabs : catalog'[j] = "creating" => catSnap[j] <= b.prev
              /\ dbCreating' \subseteq b.tabs
              /\ b.ckpt => \A i \in 1 .. Len(nonCkpt') : b.prev < nonCkpt'[i]
              /\ b.ckpt => \A c \in DbPending' : b.prev < c.prev =>
                             \A i \in 1 .. Len(c.eps) : b.prev < c.eps[i]
  <2>1. CASE b \in DbPending
    <3>1. /\ dbCommitted < b.prev /\ b.prev < n
          /\ Rising(b.eps)
          /\ \A i \in 1 .. Len(b.eps) : dbCommitted < b.eps[i] /\ b.eps[i] <= b.prev
          /\ \A j \in b.tabs : jobCommitted[j] < b.prev
          /\ \A j \in b.tabs : catalog[j] = "creating" => catSnap[j] <= b.prev
          /\ dbCreating \subseteq b.tabs
          /\ b.ckpt => \A i \in 1 .. Len(l) : b.prev < l[i]
          /\ b.ckpt => \A c \in DbPending : b.prev < c.prev =>
                         \A i \in 1 .. Len(c.eps) : b.prev < c.eps[i]
          BY <1>0, <1>1, <2>1 DEF DbInv
    <3>2. b.prev \in Nat /\ b.tabs \subseteq Jobs
          BY <1>0, <2>1, TypeFacts
    <3>3. b.ckpt => \A i \in 1 .. Len(nonCkpt') : b.prev < nonCkpt'[i]
          BY <1>15, <3>1
    <3>4. b.ckpt => \A i \in 1 .. Len(nb.eps) : b.prev < nb.eps[i]
          BY <1>5, <1>12, <3>1
    <3>5. b.ckpt => \A c \in DbPending' : b.prev < c.prev =>
                      \A i \in 1 .. Len(c.eps) : b.prev < c.eps[i]
          BY <1>8, <3>1, <3>4
    <3>6. b.prev < n + 1
          BY <3>1, <3>2
    <3> QED  BY <3>1, <3>2, <3>3, <3>5, <3>6
  <2>2. CASE b = nb
    <3>1. \A j \in tabs : jobCommitted[j] < n /\ catSnap[j] < n /\ catSnap[j] \in Int
          BY <1>0, <1>1, TypeFacts DEF PersistedInv
    <3>2. dbCreating' \subseteq tabs
          BY <1>0 DEF TypeInv
    <3>3. ck => \A i \in 1 .. Len(nonCkpt') : n < nonCkpt'[i]
          BY <1>6
    <3>4. \A c \in DbPending' : ~(n < c.prev)
          BY <1>5, <1>8, <1>10
    <3>5. Rising(b.eps) /\ dbCommitted < n /\ n < n + 1 /\ \A j \in tabs : catSnap[j] <= n
          BY <1>5, <1>11, <1>13, <2>2, <3>1
    <3>6. b.prev = n /\ b.tabs = tabs /\ b.ckpt = ck /\ b.eps = q
          BY <1>5, <2>2
    <3> QED  BY <1>12, <3>1, <3>2, <3>3, <3>4, <3>5, <3>6
  <2> QED  BY <1>8, <2>1, <2>2
<1>18. ASSUME NEW w \in finWait' \cup finGot'
       PROVE  w[1] < n + 1 /\ \A b \in DbPending' : b.prev = w[1] => w[2] \in b.tabs
  <2>1. CASE w \in finWait \cup finGot
    <3>1. w[1] < n /\ \A b \in DbPending : b.prev = w[1] => w[2] \in b.tabs
          BY <1>0, <1>1, <2>1 DEF DbInv
    <3>2. w[1] \in Nat
          BY <1>0, <2>1 DEF TypeInv
    <3>3. nb.prev # w[1] /\ w[1] < n + 1
          BY <1>5, <3>1, <3>2
    <3> QED  BY <1>8, <3>1, <3>3
  <2>2. CASE w \in {<<nextEpoch, j>> : j \in M}
    <3>1. w[1] = n /\ w[2] \in tabs
          BY <1>1, <2>2
    <3>2. \A b \in DbPending' : b.prev = n => b = nb
          BY <1>8, <1>10
    <3>3. n < n + 1
          OBVIOUS
    <3> QED  BY <1>5, <3>1, <3>2, <3>3
  <2> QED  BY <2>1, <2>2
<1>19. DbInv'
  <2>1. /\ n + 1 > Base /\ n + 1 <= Base + MaxEpoch /\ dbCommitted >= Base
        /\ dbCommitted < n + 1
        /\ \A i \in 1 .. Len(nonCkpt') : nonCkpt'[i] < n + 1
    <3>1. Base \in Nat /\ dbCommitted >= Base
          BY <1>0, BaseFacts DEF DbInv
    <3> QED  BY <1>6, <1>11, <1>15, <3>1
  <2>2. Cardinality(db'.completing) <= 1
        BY <1>0, <1>7 DEF DbInv
  <2> QED  BY <1>6, <1>14, <1>15, <1>16, <1>17, <1>18, <2>1, <2>2 DEF DbInv
<1>20. \E x \in DbBarriers :
         /\ DbPending' = DbPending \cup {x}
         /\ x.prev = nextEpoch /\ x.tabs = tabs
         /\ \A i \in 1 .. Len(x.eps) :
              x.eps[i] = nextEpoch \/ \E k \in 1 .. Len(nonCkpt) : x.eps[i] = nonCkpt[k]
      BY <1>1, <1>5, <1>8, <1>12
<1> QED  BY <1>1, <1>6, <1>7, <1>9, <1>15, <1>19, <1>20

\* The jobs follow barrier b: those of M merge with it, those of N are new, and
\* those of W have a mutation with it.
JobsFollow(b, M, N, W) ==
  /\ job' = [j \in Jobs |-> IF j \in M THEN StartConsumeUpstream(job[j], b)
                ELSE Forward(IF j \in N THEN NewJob(nextEpoch) ELSE job[j], b, j \in W)]
  /\ over' = [j \in Jobs |-> IF j \in M THEN over[j]
                ELSE OverAfter(IF j \in N THEN NewJob(nextEpoch) ELSE job[j], over[j], j \in W)]

LEMMA BarrierReachesJobs ==
  ASSUME NEW M, NEW N, N = {}, NEW b, NEW S, JobsAfterBarrier(M, b, S)
  PROVE  JobsFollow(b, M, N, S \cup toStart)
<1>1. \A j \in Jobs : (IF j \in N THEN NewJob(nextEpoch) ELSE job[j]) = job[j]
      OBVIOUS
<1> QED  BY <1>1, Zenon DEF JobsAfterBarrier, JobsFollow

\* A new barrier that merges the jobs M, creates the jobs N, stops the jobs D in
\* the database and takes the subscriptions P away; the jobs W have a mutation.
NewBarrier(b, ck, M, N, D, P, W) ==
  /\ up
  /\ b = Barrier(nextEpoch, nextEpoch + 1, ck)
  /\ InjectDb(ck, TableIdsToCommit(M))
  /\ \A j \in M : IsReadyToMerge(job[j])
  /\ \A j \in N : catalog[j] = "none"
  /\ \A j \in D : catalog[j] = "dropped"
  /\ JobsFollow(b, M, N, W)
  /\ dbJobs' = (dbJobs \cup M) \ D
  /\ dbCreating' = dbCreating \ D
  /\ finWait' = finWait \cup {<<nextEpoch, j>> : j \in M}
  /\ pendSubs' = pendSubs \ P
  /\ subs' = (subs \cup N) \ (M \cup P)
  /\ dropReq' \subseteq dropReq
  /\ catalog' = [j \in Jobs |-> IF j \in N THEN "initial" ELSE catalog[j]]
  /\ UNCHANGED <<up, finGot, task, dbCommitted, jobCommitted, catSnap, log, truncInfo, crashes>>

LEMMA NewBarrierKeeps ==
  ASSUME Inv, NEW ck \in BOOLEAN, NEW b,
         NEW M \in SUBSET Jobs, NEW N \in SUBSET Jobs, NEW D \in SUBSET Jobs,
         NEW P \in SUBSET pendSubs, NEW W, NewBarrier(b, ck, M, N, D, P, W)
  PROVE  Inv'
<1> USE DEF Inv, CCInv, EpochInv, NewBarrier, JobsFollow
<1>1. /\ up' = up /\ finGot' = finGot /\ task' = task /\ dbCommitted' = dbCommitted
      /\ jobCommitted' = jobCommitted /\ catSnap' = catSnap /\ log' = log
      /\ truncInfo' = truncInfo /\ crashes' = crashes
      OBVIOUS
<1>2. PICK n \in Nat : n = nextEpoch
      BY DEF TypeInv
<1>3. n > Base /\ n <= Base + MaxEpoch /\ Base \in Nat
      BY <1>2, BaseFacts DEF DbInv
<1>4. PICK tabs \in SUBSET Jobs : tabs = TableIdsToCommit(M) /\ tabs = dbJobs \cup M
      BY DEF TableIdsToCommit, TypeInv
<1>5. \A j \in Jobs : /\ catalog'[j] = IF j \in N THEN "initial" ELSE catalog[j]
                      /\ catalog'[j] = "creating" => catalog[j] = "creating" /\ j \notin N \cup D
                      /\ catalog'[j] = "none" => catalog[j] = "none" /\ j \notin N
                      /\ catalog[j] = "dropped" => catalog'[j] = "dropped"
                      /\ catalog'[j] = "initial" => catalog[j] = "initial" \/ j \in N
      OBVIOUS
<1>6. /\ nextEpoch' = n + 1 /\ nonCkpt' \in Seq(Nat)
      /\ db' \in Graphs(DbBarriers)
      /\ \E x \in DbBarriers :
           /\ DbPending' = DbPending \cup {x}
           /\ x.prev = n /\ x.tabs = tabs
           /\ \A i \in 1 .. Len(x.eps) :
                x.eps[i] = n \/ \E k \in 1 .. Len(nonCkpt) : x.eps[i] = nonCkpt[k]
      /\ \A i \in 1 .. Len(nonCkpt') :
           nonCkpt'[i] = n \/ \E k \in 1 .. Len(nonCkpt) : nonCkpt'[i] = nonCkpt[k]
      /\ DbInv'
  <2>1. InjectDb(ck, tabs) /\ dbJobs \subseteq tabs /\ dbCreating' \subseteq dbCreating
        /\ M \in SUBSET tabs
        BY <1>4
  <2>2. \A j \in Jobs : catalog'[j] = "creating" => catalog[j] = "creating"
        BY <1>5
  <2>3. /\ nextEpoch' = nextEpoch + 1 /\ nonCkpt' \in Seq(Nat)
        /\ db' \in Graphs(DbBarriers)
        /\ \E x \in DbBarriers :
             /\ DbPending' = DbPending \cup {x}
             /\ x.prev = nextEpoch /\ x.tabs = tabs
             /\ \A i \in 1 .. Len(x.eps) :
                  x.eps[i] = nextEpoch \/ \E k \in 1 .. Len(nonCkpt) : x.eps[i] = nonCkpt[k]
        /\ \A i \in 1 .. Len(nonCkpt') :
             nonCkpt'[i] = nextEpoch \/ \E k \in 1 .. Len(nonCkpt) : nonCkpt'[i] = nonCkpt[k]
        /\ DbInv'
    <3>1. finWait' = finWait \cup {<<nextEpoch, j>> : j \in M}
          OBVIOUS
    <3> HIDE DEF Inv, CCInv, EpochInv, NewBarrier, JobsFollow
    <3> QED  BY <1>1, <2>1, <2>2, <3>1, InjectDbKeeps
  <2> QED  BY <1>2, <2>3
<1>7. PICK nb \in DbBarriers :
        /\ DbPending' = DbPending \cup {nb}
        /\ nb.prev = n /\ nb.tabs = tabs
        /\ \A i \in 1 .. Len(nb.eps) :
             nb.eps[i] = n \/ \E k \in 1 .. Len(nonCkpt) : nb.eps[i] = nonCkpt[k]
      BY <1>6
<1>8. \A j \in N : /\ job[j].ctl = "none" /\ j \notin dbJobs /\ j \notin pendSubs
                   /\ \A c \in DbPending \cup task.db : j \notin c.tabs
                   /\ \A p \in task.jobs : p[1] # j
                   /\ jobCommitted[j] = None /\ catSnap[j] = None
      BY DEF CatalogInv, PersistedInv
<1>9. \A j \in M : /\ job[j].ctl = "running" /\ job[j].phase = "log" /\ job[j].pend = <<>>
                   /\ Running(j)
      BY DEF IsReadyToMerge, Running
<1>10. \A j \in M : j \notin N
      BY <1>8, <1>9
<1>11. ASSUME NEW j \in Jobs, j \notin N
       PROVE  /\ Followed(job[j], job'[j], n, over'[j])
              /\ j \notin M => job'[j].phase = job[j].phase /\ job'[j].finishAt = job[j].finishAt
              /\ j \in M => job'[j].phase = "finishing" /\ job'[j].finishAt = n
  <2>1. /\ job[j] \in JobRecords /\ FiniteGraph(job[j].graph) /\ JobRoom(job[j], over[j])
        /\ job[j].ctl = "running" => JobOk(job[j], n)
        BY <1>2, RunningFacts DEF Running
  <2>2. b = Barrier(n, n + 1, ck)
        BY <1>2
  <2>3. CASE j \in M
    <3>1. job'[j] = StartConsumeUpstream(job[j], b) /\ over'[j] = over[j]
          BY <2>3, Zenon
    <3> QED  BY <1>3, <1>9, <2>1, <2>2, <2>3, <3>1, MergeFollows
  <2>4. CASE j \notin M
    <3>1. PICK mu : mu = (j \in W)
          OBVIOUS
    <3>2. job'[j] = Forward(job[j], b, mu) /\ over'[j] = OverAfter(job[j], over[j], mu)
          BY <1>11, <2>4, <3>1, Zenon
    <3> QED  BY <1>3, <2>1, <2>2, <2>4, <3>2, ForwardFollows
  <2> QED  BY <2>3, <2>4
<1>12. ASSUME NEW j \in N
       PROVE  /\ job'[j] \in JobRecords /\ FiniteGraph(job'[j].graph) /\ JobRoom(job'[j], over'[j])
              /\ job'[j].ctl = "running" /\ job'[j].phase = "snapshot" /\ job'[j].snap = n
              /\ job'[j].graph.completing = {}
              /\ FirstBarrier \in job'[j].graph.inflight
              /\ JobOk(job'[j], n + 1) /\ JobAfter(job'[j], None)
  <2>0. PICK mu : mu = (j \in W)
        OBVIOUS
  <2>1. job'[j] = Forward(NewJob(n), b, mu) /\ over'[j] = OverAfter(NewJob(n), over[j], mu)
        BY <1>2, <1>10, <2>0, Zenon
  <2>2. b = Barrier(n, n + 1, ck) /\ over[j] \in Nat
        BY <1>2 DEF JobsInv, JobRoom
  <2> QED  BY <1>3, <2>1, <2>2, NewJobFollows
<1>13. \A j \in Jobs : j \notin N =>
         /\ job'[j] \in JobRecords /\ FiniteGraph(job'[j].graph) /\ JobRoom(job'[j], over'[j])
         /\ job'[j].ctl = job[j].ctl /\ job'[j].snap = job[j].snap
         /\ job'[j].graph.completing = job[j].graph.completing
         /\ Outstanding(job[j]) \subseteq Outstanding(job'[j])
         /\ Running(j)' <=> Running(j)
      BY <1>11 DEF Followed, Running
<1>14. TypeInv'
  <2>1. \A j \in Jobs : job'[j] \in JobRecords /\ FiniteGraph(job'[j].graph)
        BY <1>12, <1>13
  <2>2. job' \in [Jobs -> JobRecords]
    <3>1. job' = [j \in Jobs |-> job'[j]]
          OBVIOUS
    <3> QED  BY <2>1, <3>1
  <2>3. catalog' \in [Jobs -> {"none", "initial", "creating", "created", "dropped"}]
        BY DEF TypeInv
  <2>4. finWait' \subseteq Nat \X Jobs
        BY <1>2 DEF TypeInv
  <2>5. dbJobs' \subseteq Jobs /\ dbCreating' \subseteq dbJobs' /\ subs' \subseteq Jobs
        /\ pendSubs' \subseteq Jobs /\ dropReq' \subseteq Jobs
        BY DEF TypeInv
  <2>6. \A j \in Jobs : catalog'[j] = "creating" => catSnap[j] \in Nat
        BY <1>5 DEF TypeInv
  <2>7. nextEpoch' \in Nat
        BY <1>6
  <2> QED  BY <1>1, <1>6, <2>1, <2>2, <2>3, <2>4, <2>5, <2>6, <2>7 DEF TypeInv
<1>15. MemoryInv'
      BY <1>1 DEF MemoryInv
<1>16. SubsInv'
  <2>1. ASSUME NEW j \in Jobs
        PROVE  /\ j \in subs' <=> (Subscribes(job'[j]) \/ j \in pendSubs')
               /\ j \in pendSubs' => job'[j].ctl = "none"
    <3>1. /\ j \in subs <=> (Subscribes(job[j]) \/ j \in pendSubs)
          /\ j \in pendSubs => job[j].ctl = "none"
          BY DEF SubsInv
    <3>2. CASE j \in N
      <4>1. Subscribes(job'[j])
            BY <1>12, <3>2 DEF Subscribes
      <4> QED  BY <1>8, <1>10, <3>2, <4>1
    <3>3. CASE j \in M
          BY <1>9, <1>10, <1>11, <1>13, <3>1, <3>3 DEF Subscribes
    <3>4. CASE j \notin N /\ j \notin M
      <4>1. Subscribes(job'[j]) <=> Subscribes(job[j])
            BY <1>11, <1>13, <3>4 DEF Subscribes
      <4>2. j \in P => ~Subscribes(job[j])
            BY <3>1 DEF Subscribes
      <4> QED  BY <1>13, <3>1, <3>4, <4>1, <4>2
    <3> QED  BY <3>2, <3>3, <3>4
  <2> QED  BY <2>1 DEF SubsInv
<1>17. CatalogInv'
  <2>1. ASSUME NEW j \in Jobs, catalog'[j] = "none"
        PROVE  /\ job'[j].ctl = "none" /\ j \notin dbJobs' /\ j \notin pendSubs'
               /\ \A c \in DbPending' \cup task.db : j \notin c.tabs
               /\ \A p \in task.jobs : p[1] # j
    <3>1. /\ job[j].ctl = "none" /\ j \notin dbJobs /\ j \notin pendSubs
          /\ \A c \in DbPending \cup task.db : j \notin c.tabs
          /\ \A p \in task.jobs : p[1] # j
          BY <1>5, <2>1 DEF CatalogInv
    <3>2. j \notin N /\ j \notin M
          BY <1>5, <1>9, <2>1, <3>1
    <3> QED  BY <1>4, <1>7, <1>13, <3>1, <3>2
  <2>2. \A j \in dropReq' : catalog'[j] = "dropped"
        BY <1>5 DEF CatalogInv, TypeInv
  <2> QED  BY <1>1, <2>1, <2>2 DEF CatalogInv
<1>18. MergeInv'
  <2>1. ASSUME NEW j \in Jobs, Running(j)'
        PROVE  /\ j \in dbJobs' => MergedAt(j, nextEpoch)'
               /\ \A c \in DbPending' : j \in c.tabs => MergedAt(j, c.prev)'
               /\ task.step = "commit" => \A c \in task.db : j \notin c.tabs
    <3>1. CASE j \in N
          BY <1>4, <1>7, <1>8, <1>10, <3>1
    <3>2. CASE j \in M
      <4>1. job'[j].phase = "finishing" /\ job'[j].finishAt = n /\ <<n, j>> \in finWait'
            BY <1>2, <1>10, <1>11, <3>2
      <4>2. \A c \in DbPending : j \notin c.tabs
            BY <1>9, <3>2 DEF MergeInv, MergedAt
      <4>3. task.step = "commit" => \A c \in task.db : j \notin c.tabs
            BY <1>9, <3>2 DEF MergeInv
      <4> QED  BY <1>6, <1>7, <4>1, <4>2, <4>3 DEF MergedAt
    <3>3. CASE j \notin N /\ j \notin M
      <4>1. /\ Running(j) /\ job'[j].phase = job[j].phase
            /\ job'[j].finishAt = job[j].finishAt
            BY <1>11, <1>13, <2>1, <3>3
      <4>2. /\ j \in dbJobs => MergedAt(j, n)
            /\ \A c \in DbPending : j \in c.tabs => MergedAt(j, c.prev)
            /\ task.step = "commit" => \A c \in task.db : j \notin c.tabs
            BY <1>2, <4>1 DEF MergeInv
      <4>3. job[j].finishAt \in Nat
            BY TypeFacts, RecordFacts
      <4>4. \A e : MergedAt(j, e) => MergedAt(j, e)'
            BY <4>1 DEF MergedAt
      <4>5. j \in dbJobs => MergedAt(j, n + 1)
            BY <4>2, <4>3 DEF MergedAt
      <4>6. j \in tabs <=> j \in dbJobs
            BY <1>4, <3>3
      <4>7. \A e : MergedAt(j, e)' <=> /\ job'[j].phase = "finishing"
                                       /\ <<job'[j].finishAt, j>> \in finWait'
                                       /\ job'[j].finishAt <= e
            BY DEF MergedAt
      <4>8. j \in dbJobs' => MergedAt(j, nextEpoch)'
            BY <1>6, <3>3, <4>1, <4>5 DEF MergedAt
      <4>9. ASSUME NEW c \in DbPending', j \in c.tabs PROVE MergedAt(j, c.prev)'
        <5>1. MergedAt(j, c.prev)
              BY <1>7, <4>2, <4>6, <4>9
        <5> QED  BY <4>1, <5>1 DEF MergedAt
      <4> QED  BY <4>2, <4>8, <4>9
    <3> QED  BY <3>1, <3>2, <3>3
  <2>2. ASSUME NEW j \in Jobs, Running(j)', job'[j].phase = "finishing"
        PROVE  <<job'[j].finishAt, j>> \in finWait'
    <3>1. CASE j \in N
          BY <1>12, <2>2, <3>1
    <3>2. CASE j \in M
          BY <1>2, <1>10, <1>11, <3>2
    <3>3. CASE j \notin N /\ j \notin M
          BY <1>11, <1>13, <2>2, <3>3 DEF MergeInv
    <3> QED  BY <3>1, <3>2, <3>3
  <2> QED  BY <1>1, <2>1, <2>2 DEF MergeInv
<1>19. InitialInv'
  <2>1. ASSUME NEW j \in Jobs, catalog'[j] = "initial"
        PROVE  /\ Running(j)'
               /\ \/ FirstBarrier \in job'[j].graph.inflight \cup job'[j].graph.collected
                  \/ <<j, 0>> \in task.jobs /\ task.step \in {"commit", "post"}
    <3>1. CASE j \in N
          BY <1>12, <3>1 DEF Running
    <3>2. CASE j \notin N
      <4>1. /\ Running(j)
            /\ \/ FirstBarrier \in Outstanding(job[j])
               \/ <<j, 0>> \in task.jobs /\ task.step \in {"commit", "post"}
            BY <1>5, <2>1, <3>2 DEF InitialInv, Outstanding
      <4>2. FirstBarrier \in Outstanding(job[j]) => FirstBarrier \in Outstanding(job'[j])
            BY <1>13, <3>2
      <4> QED  BY <1>13, <3>2, <4>1, <4>2 DEF Outstanding
    <3> QED  BY <3>1, <3>2
  <2> QED  BY <1>1, <2>1 DEF InitialInv
<1>20. FinishedInv' /\ NoJobForgotten'
  <2>1. \A j \in task.fin : j \in Jobs
        BY TypeFacts
  <2>2. FinishedInv'
        BY <1>1, <1>5, <2>1 DEF FinishedInv
  <2>3. NoJobForgotten'
        BY <1>1, <1>5, <1>13 DEF NoJobForgotten
  <2> QED  BY <2>2, <2>3
<1>21. \A j \in Jobs : jobCommitted[j] \in Int /\ jobCommitted[j] < n /\ catSnap[j] \in Int
                       /\ catSnap[j] < n
      BY <1>2, TypeFacts DEF PersistedInv
<1>22. ASSUME NEW r, NEW s, s.snap = r.snap, NEW e \in Int, JobEpoch(r, e, n)
       PROVE  JobEpoch(s, e, n + 1)
      BY <1>3, <1>22 DEF JobEpoch
<1>23. JobsInv'
  <2>1. ASSUME NEW j \in Jobs
        PROVE  /\ JobRoom(job'[j], over'[j])
               /\ \A e \in job'[j].graph.completing : <<j, e>> \in task.jobs
        BY <1>12, <1>13 DEF JobsInv
  <2>2. ASSUME NEW j \in Jobs, Running(j)'
        PROVE  /\ JobOk(job'[j], n + 1)
               /\ JobAfter(job'[j], jobCommitted[j])
               /\ JobEpoch(job'[j], jobCommitted[j], n + 1)
               /\ catSnap[j] \in {None, job'[j].snap}
    <3>1. CASE j \in N
      <4>1. jobCommitted[j] = None /\ catSnap[j] = None
            BY <1>8, <3>1
      <4>2. None <= (n + 1) - Base
            BY <1>3 DEF None
      <4>3. JobEpoch(job'[j], None, n + 1)
            BY <4>2 DEF JobEpoch
      <4> QED  BY <1>12, <3>1, <4>1, <4>3
    <3>2. CASE j \notin N
      <4>1. Running(j) /\ job[j].ctl = "running" /\ job'[j].snap = job[j].snap
            BY <1>13, <2>2, <3>2 DEF Running
      <4>2. /\ JobAfter(job[j], jobCommitted[j]) /\ JobEpoch(job[j], jobCommitted[j], n)
            /\ catSnap[j] \in {None, job[j].snap}
            BY <1>2, <4>1 DEF JobsInv
      <4>3. JobOk(job'[j], n + 1) /\ JobAfter(job'[j], jobCommitted[j])
            BY <1>11, <1>21, <3>2, <4>1, <4>2 DEF Followed
      <4>4. JobEpoch(job'[j], jobCommitted[j], n + 1)
            BY <1>21, <1>22, <4>1, <4>2
      <4> QED  BY <4>1, <4>2, <4>3, <4>4
    <3> QED  BY <3>1, <3>2
  <2> QED  BY <1>1, <1>6, <2>1, <2>2 DEF JobsInv
<1>24. TaskInv'
  <2>0. \A p \in task.jobs : p[1] \in Jobs /\ p[2] \in Nat /\ p[2] < n /\ p[1] \notin N
        BY <1>2, <1>8, TypeFacts DEF TaskInv
  <2>1. ASSUME task.step = "commit", NEW p \in task.jobs
        PROVE  /\ catalog'[p[1]] = "creating" =>
                    JobEpoch([snap |-> catSnap[p[1]]], p[2], n + 1)
               /\ Running(p[1])' => /\ JobAfter(job'[p[1]], p[2])
                                    /\ JobEpoch(job'[p[1]], p[2], n + 1)
               /\ \A c \in DbPending' : p[1] \in c.tabs => p[2] < c.prev
    <3>1. /\ catalog[p[1]] = "creating" => JobEpoch([snap |-> catSnap[p[1]]], p[2], n)
          /\ Running(p[1]) => /\ JobAfter(job[p[1]], p[2])
                              /\ JobEpoch(job[p[1]], p[2], n)
          /\ \A c \in DbPending : p[1] \in c.tabs => p[2] < c.prev
          BY <1>2, <2>1 DEF TaskInv
    <3>2. catalog'[p[1]] = "creating" => JobEpoch([snap |-> catSnap[p[1]]], p[2], n + 1)
      <4>1. PICK z : z = [snap |-> catSnap[p[1]]]
            OBVIOUS
      <4>2. catalog'[p[1]] = "creating" => JobEpoch(z, p[2], n)
            BY <1>5, <2>0, <3>1, <4>1
      <4>3. p[2] \in Int /\ z.snap = z.snap
            BY <2>0
      <4>4. catalog'[p[1]] = "creating" => JobEpoch(z, p[2], n + 1)
            BY <1>22, <4>2, <4>3
      <4> QED  BY <4>1, <4>4, Zenon
    <3>3. ASSUME Running(p[1])' PROVE JobAfter(job'[p[1]], p[2]) /\ JobEpoch(job'[p[1]], p[2], n + 1)
      <4>1. p[1] \in Jobs /\ p[1] \notin N /\ p[2] \in Int /\ p[2] < n
            BY <2>0
      <4>2. /\ Running(p[1]) /\ job[p[1]].ctl = "running"
            /\ job'[p[1]].snap = job[p[1]].snap
            BY <1>13, <3>3, <4>1 DEF Running
      <4>3. JobAfter(job'[p[1]], p[2])
            BY <1>11, <3>1, <4>1, <4>2 DEF Followed
      <4>4. JobEpoch(job'[p[1]], p[2], n + 1)
            BY <1>22, <3>1, <4>1, <4>2
      <4> QED  BY <4>3, <4>4
    <3>4. \A c \in DbPending' : p[1] \in c.tabs => p[2] < c.prev
          BY <1>7, <2>0, <3>1
    <3> QED  BY <3>2, <3>3, <3>4
  <2>2. ASSUME task.step = "commit", NEW c \in task.db
        PROVE  /\ c.prev < n + 1
               /\ \A j \in c.tabs : catalog'[j] = "creating" => catSnap[j] <= c.prev
               /\ \A i \in 1 .. Len(nonCkpt') : c.prev < nonCkpt'[i]
               /\ \A x \in DbPending' :
                    c.prev < x.prev /\ \A i \in 1 .. Len(x.eps) : c.prev < x.eps[i]
    <3>1. /\ c.prev < n
          /\ \A j \in c.tabs : catalog[j] = "creating" => catSnap[j] <= c.prev
          /\ \A i \in 1 .. Len(nonCkpt) : c.prev < nonCkpt[i]
          /\ \A x \in DbPending :
               c.prev < x.prev /\ \A i \in 1 .. Len(x.eps) : c.prev < x.eps[i]
          BY <1>2, <2>2 DEF TaskInv
    <3>2. c.prev \in Nat /\ c.tabs \subseteq Jobs
          BY TypeFacts
    <3>3. c.prev < n + 1
          BY <3>1, <3>2
    <3>4. \A i \in 1 .. Len(nonCkpt') : c.prev < nonCkpt'[i]
          BY <1>6, <3>1
    <3>5. c.prev < nb.prev /\ \A i \in 1 .. Len(nb.eps) : c.prev < nb.eps[i]
          BY <1>7, <3>1
    <3> QED  BY <1>5, <1>7, <3>1, <3>2, <3>3, <3>4, <3>5
  <2>3. \A p \in task.jobs : p[2] < n + 1
        BY <2>0
  <2> HIDE DEF NewBarrier
  <2> QED  BY <1>1, <1>6, <2>1, <2>2, <2>3 DEF TaskInv
<1>25. PersistedInv'
  <2>1. ASSUME NEW j \in Jobs
        PROVE  /\ jobCommitted[j] < n + 1 /\ catSnap[j] < n + 1
               /\ catalog'[j] = "none" => jobCommitted[j] = None
               /\ catalog'[j] \in {"none", "initial"} => catSnap[j] = None
               /\ catalog'[j] = "creating" =>
                    /\ catSnap[j] >= Base
                    /\ jobCommitted[j] < catSnap[j] => jobCommitted[j] <= (n + 1) - Base
    <3>1. jobCommitted[j] < n + 1 /\ catSnap[j] < n + 1
          BY <1>21
    <3>2. catalog'[j] \in {"none", "initial"} => catSnap[j] = None
          BY <1>5, <1>8 DEF PersistedInv
    <3>3. catalog[j] = "creating" =>
            /\ catSnap[j] >= Base
            /\ jobCommitted[j] < catSnap[j] => jobCommitted[j] <= n - Base
          BY <1>2 DEF PersistedInv
    <3>4. jobCommitted[j] <= n - Base => jobCommitted[j] <= (n + 1) - Base
          BY <1>3, <1>21
    <3>5. catalog'[j] = "none" => jobCommitted[j] = None
          BY <1>5 DEF PersistedInv
    <3> QED  BY <1>5, <3>1, <3>2, <3>3, <3>4, <3>5
  <2> QED  BY <1>1, <1>6, <2>1 DEF PersistedInv
<1> QED  BY <1>6, <1>14, <1>15, <1>16, <1>17, <1>18, <1>19, <1>20, <1>23, <1>24, <1>25

\* The four ways to inject one.
BarrierInjected ==
  \E ck \in BOOLEAN, M \in SUBSET Jobs, N \in SUBSET Jobs, D \in SUBSET Jobs,
     P \in SUBSET pendSubs :
    (N # {} => ck = TRUE) /\ \E b, W : NewBarrier(b, ck, M, N, D, P, W)

LEMMA BarrierKeeps == ASSUME Inv, BarrierInjected PROVE Inv'
BY NewBarrierKeeps DEF BarrierInjected

LEMMA PeriodicInjects ==
  ASSUME Inv, NEW ck \in BOOLEAN, PeriodicBarrier(ck)
  PROVE  BarrierInjected
<1> USE DEF persisted
<1>0. TypeInv
      BY DEF Inv, CCInv
<1>1. PICK b : b = Barrier(nextEpoch, nextEpoch + 1, ck)
      OBVIOUS
<1>2. PICK M \in SUBSET Jobs : M = {j \in Jobs : ck /\ ShouldMergeToUpstream(job[j])}
      OBVIOUS
<1>3. /\ up /\ InjectDb(ck, TableIdsToCommit(M))
      /\ JobsAfterBarrier(M, b, {})
      /\ dbJobs' = dbJobs \cup M
      /\ finWait' = finWait \cup {<<nextEpoch, j>> : j \in M}
      /\ subs' = subs \ (M \cup pendSubs) /\ pendSubs' = {}
      /\ UNCHANGED <<up, dbCreating, finGot, task, dropReq, dbCommitted, jobCommitted,
                     catalog, catSnap, log, truncInfo, crashes>>
      BY <1>1, <1>2 DEF PeriodicBarrier, Settled, SubsAfterBarrier
<1>4. PICK N \in SUBSET Jobs, D \in SUBSET Jobs, P \in SUBSET pendSubs :
        N = {} /\ D = {} /\ P = pendSubs
      OBVIOUS
<1>5. PICK W : JobsFollow(b, M, N, W)
      BY <1>3, <1>4, BarrierReachesJobs
<1>6. \A j \in M : IsReadyToMerge(job[j])
      BY <1>2 DEF ShouldMergeToUpstream
<1>7. /\ dbJobs' = (dbJobs \cup M) \ D /\ dbCreating' = dbCreating \ D
      /\ pendSubs' = pendSubs \ P /\ subs' = (subs \cup N) \ (M \cup P)
      /\ dropReq' \subseteq dropReq
      /\ \A j \in N : catalog[j] = "none"
      /\ \A j \in D : catalog[j] = "dropped"
      BY <1>3, <1>4
<1>8. catalog' = [j \in Jobs |-> IF j \in N THEN "initial" ELSE catalog[j]]
      BY <1>0, <1>3, <1>4 DEF TypeInv
<1>9. NewBarrier(b, ck, M, N, D, P, W)
      BY <1>1, <1>3, <1>5, <1>6, <1>7, <1>8 DEF NewBarrier
<1>10. N # {} => ck = TRUE
      BY <1>4
<1> QED  BY <1>9, <1>10, Zenon DEF BarrierInjected

LEMMA OtherCommandInjects ==
  ASSUME Inv, NEW S \in Commands, NEW mutates \in BOOLEAN, OtherCommand(S, mutates)
  PROVE  BarrierInjected
<1> USE DEF persisted
<1>0. TypeInv
      BY DEF Inv, CCInv
<1>1. PICK ck \in BOOLEAN : ck = TRUE
      OBVIOUS
<1>2. PICK b : b = Barrier(nextEpoch, nextEpoch + 1, ck)
      OBVIOUS
<1>3. PICK M \in SUBSET Jobs, P \in SUBSET pendSubs :
        M = {} /\ P = IF mutates THEN {} ELSE pendSubs
      OBVIOUS
<1>4. /\ up
      /\ subs' = subs \ P /\ pendSubs' = pendSubs \ P
      /\ UNCHANGED <<up, dbJobs, dbCreating, finWait, finGot, task, dropReq, dbCommitted,
                     jobCommitted, catalog, catSnap, log, truncInfo, crashes>>
      BY <1>3 DEF OtherCommand, Settled, SubsAfterBarrier
<1>5. InjectDb(ck, TableIdsToCommit(M)) /\ JobsAfterBarrier(M, b, S)
      BY <1>1, <1>2, <1>3, Zenon DEF OtherCommand
<1>6. PICK W : JobsFollow(b, M, M, W)
      BY <1>3, <1>5, BarrierReachesJobs
<1>7. /\ dbJobs' = (dbJobs \cup M) \ M /\ dbCreating' = dbCreating \ M
      /\ finWait' = finWait \cup {<<nextEpoch, i>> : i \in M}
      /\ pendSubs' = pendSubs \ P /\ subs' = (subs \cup M) \ (M \cup P)
      /\ dropReq' \subseteq dropReq
      /\ \A i \in M : catalog[i] = "none" /\ IsReadyToMerge(job[i]) /\ catalog[i] = "dropped"
      BY <1>3, <1>4
<1>8. catalog' = [i \in Jobs |-> IF i \in M THEN "initial" ELSE catalog[i]]
      BY <1>0, <1>3, <1>4 DEF TypeInv
<1>9. NewBarrier(b, ck, M, M, M, P, W)
      BY <1>2, <1>4, <1>5, <1>6, <1>7, <1>8 DEF NewBarrier
<1>10. M # {} => ck = TRUE
      BY <1>1
<1> QED  BY <1>9, <1>10, Zenon DEF BarrierInjected

LEMMA CreateJobInjects ==
  ASSUME Inv, NEW j \in Jobs, CreateJob(j)
  PROVE  BarrierInjected
<1>0. TypeInv
      BY DEF Inv, CCInv
<1>1. PICK ck \in BOOLEAN : ck = TRUE
      OBVIOUS
<1>2. PICK b : b = Barrier(nextEpoch, nextEpoch + 1, ck)
      OBVIOUS
<1>3. PICK M \in SUBSET Jobs, N \in SUBSET Jobs, D \in SUBSET Jobs, P \in SUBSET pendSubs :
        M = {} /\ N = {j} /\ D = {} /\ P = {}
      OBVIOUS
<1>4. /\ up /\ catalog[j] = "none" /\ catalog' = [catalog EXCEPT ![j] = "initial"]
      /\ subs' = subs \cup {j}
      /\ UNCHANGED <<up, dbJobs, dbCreating, pendSubs, finWait, finGot, task, dropReq,
                     dbCommitted, jobCommitted, catSnap, log, truncInfo, crashes>>
      BY <1>1, <1>2, Zenon DEF CreateJob, Settled
<1>5. InjectDb(ck, TableIdsToCommit(M))
      BY <1>1, <1>3, Zenon DEF CreateJob
<1>6. PICK W : JobsFollow(b, M, N, W)
  <2>1. PICK W : W = {j} \cup toStart
        OBVIOUS
  <2>2. /\ job' = [i \in Jobs |-> Forward(IF i = j THEN NewJob(nextEpoch) ELSE job[i], b, i \in W)]
        /\ over' = [i \in Jobs |-> OverAfter(IF i = j THEN NewJob(nextEpoch) ELSE job[i],
                                             over[i], i \in W)]
        BY <1>1, <1>2, <2>1, Zenon DEF CreateJob
  <2>3. /\ \A i \in Jobs : i \notin M
        /\ \A i \in Jobs : (IF i \in N THEN NewJob(nextEpoch) ELSE job[i])
                            = (IF i = j THEN NewJob(nextEpoch) ELSE job[i])
        BY <1>3
  <2>4. JobsFollow(b, M, N, W)
        BY <2>2, <2>3, Zenon DEF JobsFollow
  <2> QED  BY <2>4
<1>7. /\ dbJobs' = (dbJobs \cup M) \ D /\ dbCreating' = dbCreating \ D
      /\ finWait' = finWait \cup {<<nextEpoch, i>> : i \in M}
      /\ pendSubs' = pendSubs \ P /\ subs' = (subs \cup N) \ (M \cup P)
      /\ dropReq' \subseteq dropReq
      /\ \A i \in N : catalog[i] = "none"
      /\ \A i \in D : catalog[i] = "dropped"
      /\ \A i \in M : IsReadyToMerge(job[i])
      BY <1>3, <1>4
<1>8. catalog' = [i \in Jobs |-> IF i \in N THEN "initial" ELSE catalog[i]]
      BY <1>0, <1>3, <1>4 DEF TypeInv
<1>9. NewBarrier(b, ck, M, N, D, P, W)
      BY <1>2, <1>4, <1>5, <1>6, <1>7, <1>8 DEF NewBarrier
<1>10. N # {} => ck = TRUE
      BY <1>1
<1> QED  BY <1>9, <1>10, Zenon DEF BarrierInjected

LEMMA DropInDatabaseInjects ==
  ASSUME Inv, NEW j \in Jobs, DropInDatabase(j)
  PROVE  BarrierInjected
<1> USE DEF persisted
<1>0. TypeInv /\ CatalogInv
      BY DEF Inv, CCInv
<1>1. PICK ck \in BOOLEAN : ck = TRUE
      OBVIOUS
<1>2. PICK b : b = Barrier(nextEpoch, nextEpoch + 1, ck)
      OBVIOUS
<1>3. PICK M \in SUBSET Jobs, D \in SUBSET Jobs, P \in SUBSET pendSubs :
        M = {} /\ D = {j} /\ P = {}
      OBVIOUS
<1>4. /\ up /\ j \in dropReq /\ dropReq' = dropReq \ {j}
      /\ dbJobs' = dbJobs \ {j} /\ dbCreating' = dbCreating \ {j}
      /\ UNCHANGED <<up, subs, pendSubs, finWait, finGot, task, dbCommitted, jobCommitted,
                     catalog, catSnap, log, truncInfo, crashes>>
      BY DEF DropInDatabase, Settled
<1>5. InjectDb(ck, TableIdsToCommit(M)) /\ JobsAfterBarrier(M, b, {})
      BY <1>1, <1>2, <1>3, Zenon DEF DropInDatabase
<1>6. PICK W : JobsFollow(b, M, M, W)
      BY <1>3, <1>5, BarrierReachesJobs
<1>7. /\ dbJobs' = (dbJobs \cup M) \ D /\ dbCreating' = dbCreating \ D
      /\ finWait' = finWait \cup {<<nextEpoch, i>> : i \in M}
      /\ pendSubs' = pendSubs \ P /\ subs' = (subs \cup M) \ (M \cup P)
      /\ dropReq' \subseteq dropReq
      /\ \A i \in M : catalog[i] = "none" /\ IsReadyToMerge(job[i])
      BY <1>3, <1>4
<1>8. \A i \in D : catalog[i] = "dropped"
      BY <1>0, <1>3, <1>4 DEF CatalogInv
<1>9. catalog' = [i \in Jobs |-> IF i \in M THEN "initial" ELSE catalog[i]]
      BY <1>0, <1>3, <1>4 DEF TypeInv
<1>10. NewBarrier(b, ck, M, M, D, P, W)
      BY <1>2, <1>4, <1>5, <1>6, <1>7, <1>8, <1>9 DEF NewBarrier
<1>11. M # {} => ck = TRUE
      BY <1>1
<1> QED  BY <1>10, <1>11, Zenon DEF BarrierInjected

------------------------------------------------------------------------------
(* Starting the completing task. *)

\* What a job is bounded by is a number.
LEMMA JobBoundIsInt == ASSUME TypeInv, NEW j \in Jobs PROVE JobBound(j) \in Int
<1>1. \A b \in db.inflight : b.prev \in Nat
      BY TypeFacts DEF DbPending
<1>2. FirstInflight(db) \in Nat
  <2>1. CASE db.inflight = {}
        BY <2>1, BaseFacts DEF FirstInflight
  <2>2. CASE db.inflight # {}
    <3>1. FirstOf(db.inflight) \in db.inflight
          BY <1>1, <2>2, FirstOfIsLeast
    <3> QED  BY <1>1, <2>2, <3>1 DEF FirstInflight
  <2> QED  BY <2>1, <2>2
<1> QED  BY <1>2, BaseFacts DEF JobBound

\* The database waits for every job that is still finishing.
LEMMA DbBoundWaits ==
  ASSUME TypeInv
  PROVE  DbBound \in Int /\ \A w \in FinWaitAfter : DbBound <= w[1]
<1>1. FinWaitAfter \subseteq Nat \X Jobs
      BY DEF TypeInv, FinWaitAfter
<1>2. CASE FinWaitAfter = {}
      BY <1>2, BaseFacts DEF DbBound
<1>3. CASE FinWaitAfter # {}
  <2>1. PICK S : S = {w[1] : w \in FinWaitAfter}
        OBVIOUS
  <2>2. S \in SUBSET Nat /\ S # {} /\ \A w \in FinWaitAfter : w[1] \in S
        BY <1>1, <1>3, <2>1
  <2>3. Min(S) \in S /\ \A y \in S : Min(S) <= y
        BY <2>2, MinIsLeast
  <2>4. DbBound = Min(S)
        BY <1>3, <2>1 DEF DbBound
  <2>5. DbBound \in Int
    <3>1. PICK m \in S : m = Min(S)
          BY <2>3
    <3> QED  BY <2>2, <2>4, <3>1
  <2>6. \A w \in FinWaitAfter : DbBound <= w[1]
        BY <2>2, <2>3, <2>4, Zenon
  <2> QED  BY <2>5, <2>6
<1> QED  BY <1>2, <1>3

\* What the database's graph loses, and what the task gets of it.
LEMMA DbCompletes ==
  ASSUME Inv, NEW C, C = CheckpointOf(DbPopped), NEW h, h = StartCompletingGraph(db, DbBound),
         NEW Q, Q = h.inflight \cup h.collected
  PROVE  /\ h \in Graphs(DbBarriers) /\ GraphOrder(h) /\ Cardinality(h.completing) <= 1
         /\ Q \subseteq DbPending /\ C \subseteq DbPending
         /\ \A b \in C : b.ckpt /\ b.prev < DbBound
         /\ \A b, c \in C : b.prev = c.prev
         /\ \A b \in C, c \in Q : b.prev < c.prev
<1>0. TypeInv /\ DbInv
      BY DEF Inv, CCInv, EpochInv
<1>1. \A x \in DbBarriers : x.prev \in Nat
      BY DEF DbBarriers
<1>2. db \in Graphs(DbBarriers) /\ GraphOrder(db) /\ DbBound \in Int
      BY <1>0, DbBoundWaits DEF TypeInv, DbInv
<1>3. PICK P : P = PoppedFrom(db, DbBound)
      OBVIOUS
<1>4. C = CheckpointOf(P)
      BY <1>3 DEF DbPopped
<1>5. /\ h \in Graphs(DbBarriers)
      /\ h.inflight = db.inflight /\ h.collected = db.collected \ P
      /\ P \subseteq db.collected
      /\ Cardinality(h.completing) <= 1
      BY <1>1, <1>2, <1>3, CompleteGraph
<1>6. /\ GraphOrder(h)
      /\ \A c \in CheckpointOf(P), b \in h.inflight \cup h.collected : c.prev < b.prev
      BY <1>1, <1>2, <1>3, CompleteOrder
<1>7. \A b \in db.collected : b.prev \in Nat
      BY <1>1, <1>2 DEF Graphs
<1>8. /\ \A b \in P : b.prev < DbBound
      /\ \A b, c \in CheckpointOf(P) : b.prev = c.prev
      BY <1>2, <1>3, <1>7, PoppedIsPrefix
<1>9. C \subseteq P /\ \A b \in C : b.ckpt
      BY <1>4 DEF CheckpointOf
<1>10. Q \subseteq DbPending /\ C \subseteq DbPending
      BY <1>5, <1>9 DEF DbPending
<1> QED  BY <1>4, <1>5, <1>6, <1>8, <1>9, <1>10

\* What a ready job's graph loses: the record r becomes s, and the task takes C.
TakenFrom(r, s, C, ov) ==
  /\ s \in JobRecords /\ FiniteGraph(s.graph) /\ JobRoom(s, ov)
  /\ s.ctl = r.ctl /\ s.phase = r.phase /\ s.snap = r.snap
  /\ s.finishAt = r.finishAt
  /\ Suffix(r, s)
  /\ \A x \in Outstanding(r) : x.ckpt => x \in Outstanding(s) \/ x \in C
  /\ s.graph.completing = {b.prev : b \in C}
  /\ \A c \in C : JobAfter(s, c.prev) /\ JobEpoch(s, c.prev, nextEpoch)
  /\ C \subseteq Outstanding(r)
  /\ \A b, c \in C : b.prev = c.prev

LEMMA JobCompletes ==
  ASSUME Inv, NEW j \in ReadyJobs, NEW s,
         s = [job[j] EXCEPT !.graph = StartCompletingGraph(@, JobBound(j))],
         NEW C, C = CheckpointOf(JobPopped(j))
  PROVE  TakenFrom(job[j], s, C, over[j])
<1>0. TypeInv /\ j \in Jobs /\ Running(j)
      BY DEF Inv, CCInv, ReadyJobs
<1>1. PICK r : r = job[j]
      OBVIOUS
<1>2. /\ r \in JobRecords /\ FiniteGraph(r.graph) /\ JobRoom(r, over[j]) /\ JobOk(r, nextEpoch)
      BY <1>0, <1>1, RunningFacts
<1>3. PICK bound \in Int : bound = JobBound(j)
      BY <1>0, JobBoundIsInt
<1>4. PICK P : P = PoppedFrom(r.graph, bound)
      OBVIOUS
<1>5. C = CheckpointOf(P)
      BY <1>1, <1>3, <1>4 DEF JobPopped
<1>6. PICK h : h = StartCompletingGraph(r.graph, bound) /\ s = [r EXCEPT !.graph = h]
      BY <1>1, <1>3, Zenon
<1>10. s = Rec(r.ctl, r.ready, r.phase, r.snap, r.fake, r.pend, r.inLog, r.logDone,
               r.finishAt, h)
      BY <1>2, <1>6 DEF JobRecords, Rec
<1>7. /\ s \in JobRecords /\ FiniteGraph(s.graph) /\ JobRoom(s, over[j])
      /\ s.ctl = r.ctl /\ s.phase = r.phase /\ s.snap = r.snap
      /\ s.finishAt = r.finishAt
      /\ Suffix(r, s)
      /\ s.graph.inflight = r.graph.inflight /\ s.graph.collected = r.graph.collected \ P
      /\ s.graph.completing = {b.prev : b \in CheckpointOf(P)}
      /\ \A c \in CheckpointOf(P) : JobAfter(s, c.prev) /\ JobEpoch(s, c.prev, nextEpoch)
      /\ CheckpointOf(P) \subseteq Outstanding(r)
  <2>1. h = StartCompletingGraph(r.graph, bound)
        BY <1>6
  <2>2. Completed(r, s, P, nextEpoch, over[j])
        BY <1>2, <1>4, <1>10, <2>1, CompleteJob
  <2> QED  BY <2>2 DEF Completed
<1>8. \A b, c \in CheckpointOf(P) : b.prev = c.prev
  <2>1. \A b \in r.graph.collected : b.prev \in Nat
        BY <1>2, RecordFacts DEF Outstanding
  <2> QED  BY <1>4, <2>1, PoppedIsPrefix
<1>9. \A x \in Outstanding(r) : x.ckpt => x \in Outstanding(s) \/ x \in CheckpointOf(P)
      BY <1>7 DEF Outstanding, CheckpointOf
<1>11. TakenFrom(r, s, CheckpointOf(P), over[j])
      BY <1>7, <1>8, <1>9 DEF TakenFrom
<1> QED  BY <1>1, <1>5, <1>11

\* A finishing job whose last barrier is taken has nothing else left to take.
LEMMA FinishingHasNoFirst ==
  ASSUME Inv, NEW j \in FinishingNow
  PROVE  /\ j \in Jobs /\ Running(j) /\ job[j].phase = "finishing"
         /\ job[j].finishAt < nextEpoch
         /\ FirstBarrier \notin Outstanding(job[j])
<1>0. TypeInv /\ j \in Jobs /\ Running(j) /\ job[j].phase = "finishing" /\ j \in ReadyJobs
      BY DEF Inv, CCInv, ReadyJobs, FinishingNow
<1>1. PICK r : r = job[j]
      OBVIOUS
<1>2. r \in JobRecords /\ JobOk(r, nextEpoch)
      BY <1>0, <1>1, RunningFacts
<1>3. PICK bound \in Int : bound = JobBound(j)
      BY <1>0, JobBoundIsInt
<1>4. PICK P : P = PoppedFrom(r.graph, bound)
      OBVIOUS
<1>5. PICK b \in CheckpointOf(P) : b.prev = r.finishAt
      BY <1>1, <1>3, <1>4 DEF FinishingNow, JobPopped
<1>6. \A x \in r.graph.collected : x.prev \in Nat
      BY <1>2, RecordFacts DEF Outstanding
<1>7. /\ P \subseteq r.graph.collected
      /\ \A x \in P : x.prev < bound
      /\ \A x \in r.graph.collected : x.ckpt /\ x.prev < bound =>
           \A c \in P : c.prev <= x.prev
      BY <1>4, <1>6, PoppedIsPrefix
<1>8. b \in P /\ b \in r.graph.collected /\ b \in Outstanding(r) /\ b.prev \in Nat
      BY <1>5, <1>6, <1>7 DEF CheckpointOf, Outstanding
<1>9. r.finishAt > r.snap /\ r.snap >= Base /\ r.finishAt < nextEpoch /\ GraphOrder(r.graph)
      BY <1>0, <1>1, <1>2, <1>5, <1>8 DEF JobOk, JobOrder, JobBounds
<1>10. r.finishAt \in Nat /\ r.snap \in Nat /\ Base \in Nat /\ Base > 0
      BY <1>2, RecordFacts, BaseFacts
<1>11. r.finishAt > 0
      BY <1>9, <1>10
<1>12. FirstBarrier.prev = 0 /\ (FirstBarrier.ckpt <=> TRUE)
      BY FirstBarrierFields DEF FirstBarrier, Barrier
<1>13. FirstBarrier \notin r.graph.inflight
  <2>1. FirstBarrier \in r.graph.inflight => b.prev < 0
        BY <1>8, <1>9, <1>12 DEF GraphOrder
  <2> QED  BY <1>8, <2>1
<1>14. FirstBarrier \notin r.graph.collected
  <2> SUFFICES ASSUME FirstBarrier \in r.graph.collected PROVE FALSE
      OBVIOUS
  <2>1. 0 < bound
        BY <1>7, <1>8
  <2>2. b.prev <= 0
        BY <1>7, <1>8, <1>12, <2>1
  <2> QED  BY <1>5, <1>10, <1>11, <2>2
<1> QED  BY <1>0, <1>1, <1>9, <1>13, <1>14 DEF Outstanding

\* The epochs the task takes from jobs.
LEMMA TakenIs ==
  ASSUME NEW p
  PROVE  p \in TakenEpochs <=>
           \E j \in ReadyJobs \ FinishingNow :
             \E b \in CheckpointOf(JobPopped(j)) : p = <<j, b.prev>>
BY DEF TakenEpochs

\* A finished job is among the tables of the barrier it merged at.
LEMMA FinishedIsMerged ==
  ASSUME Inv, NEW w \in FinWaitAfter \cup FinGotAfter
  PROVE  /\ w \in Nat \X Jobs /\ w[1] < nextEpoch
         /\ \A b \in DbPending : b.prev = w[1] => w[2] \in b.tabs
<1>0. TypeInv /\ DbInv /\ MergeInv
      BY DEF Inv, CCInv, EpochInv
<1>1. w \in finWait \cup finGot
  <2>1. CASE w \in finWait \cup finGot
        BY <2>1
  <2>2. CASE \E j \in FinishingNow : w = <<job[j].finishAt, j>>
    <3>1. PICK j \in FinishingNow : w = <<job[j].finishAt, j>>
          BY <2>2
    <3>2. j \in Jobs /\ Running(j) /\ job[j].phase = "finishing"
          BY FinishingHasNoFirst
    <3> QED  BY <1>0, <3>1, <3>2 DEF MergeInv
  <2> QED  BY <2>1, <2>2 DEF FinWaitAfter, FinGotAfter
<1> QED  BY <1>0, <1>1 DEF DbInv, TypeInv

LEMMA StartKeeps ==
  ASSUME Inv, NEW more \in SUBSET Jobs, StartTask(more)
  PROVE  Inv'
<1> USE DEF Inv, CCInv, EpochInv
<1>1. /\ up' = up /\ nextEpoch' = nextEpoch /\ nonCkpt' = nonCkpt
      /\ dbJobs' = dbJobs /\ subs' = subs /\ pendSubs' = pendSubs
      /\ dropReq' = dropReq /\ dbCommitted' = dbCommitted /\ jobCommitted' = jobCommitted
      /\ catalog' = catalog /\ catSnap' = catSnap
      /\ log' = log /\ truncInfo' = truncInfo /\ crashes' = crashes /\ over' = over
      /\ up /\ task = NoTask
      /\ more \subseteq dbCreating /\ dbCreating' = dbCreating \ more
      /\ finWait' = FinWaitAfter /\ finGot' = FinGotAfter \ FinishedNow
      BY DEF StartTask, PollEnabled, persisted
<1>2. PICK C, T, Q : C = CheckpointOf(DbPopped) /\ T = TakenEpochs /\ Q = DbPending'
      OBVIOUS
<1>3. PICK X : X = {w[2] : w \in FinishedNow} \cup more
      OBVIOUS
<1>4. /\ db' \in Graphs(DbBarriers) /\ GraphOrder(db') /\ Cardinality(db'.completing) <= 1
      /\ Q \subseteq DbPending /\ C \subseteq DbPending
      /\ \A b \in C : b.ckpt /\ b.prev < DbBound
      /\ \A b, c \in C : b.prev = c.prev
      /\ \A b \in C, c \in Q : b.prev < c.prev
  <2>1. db' = StartCompletingGraph(db, DbBound)
        BY DEF StartTask
  <2>2. Q = db'.inflight \cup db'.collected
        BY <1>2 DEF DbPending
  <2> HIDE DEF Inv
  <2> QED  BY <1>2, <2>1, <2>2, DbCompletes
<1>5. \A b \in DbPending : b \in DbBarriers /\ b.prev \in Nat /\ b.tabs \subseteq Jobs
      BY TypeFacts
<1>6. C = {} => FinishedNow = {} /\ X = {} /\ more = {}
  <2>1. C = {} => more = {}
        BY <1>2 DEF StartTask
  <2>2. C = {} => FinishedNow = {}
        BY <1>2 DEF FinishedNow
  <2> QED  BY <1>3, <2>1, <2>2
<1>7. ASSUME NEW p \in T
      PROVE  \E j \in ReadyJobs \ FinishingNow :
               \E b \in CheckpointOf(JobPopped(j)) : p = <<j, b.prev>>
      BY <1>2, TakenIs
<1>8. ASSUME NEW j \in ReadyJobs
      PROVE  /\ j \in Jobs /\ Running(j) /\ job[j] \in JobRecords /\ JobOk(job[j], nextEpoch)
             /\ CheckpointOf(JobPopped(j)) \subseteq Outstanding(job[j])
             /\ \A b, c \in CheckpointOf(JobPopped(j)) : b.prev = c.prev
             /\ \A b \in CheckpointOf(JobPopped(j)) : b.prev \in Nat /\ b.prev < nextEpoch
  <2>1. j \in Jobs /\ Running(j)
        BY DEF ReadyJobs
  <2>2. job[j] \in JobRecords /\ JobOk(job[j], nextEpoch)
        BY <2>1, RunningFacts
  <2>3. PICK s, D : /\ s = [job[j] EXCEPT !.graph = StartCompletingGraph(@, JobBound(j))]
                    /\ D = CheckpointOf(JobPopped(j))
        BY Zenon
  <2>4. D \subseteq Outstanding(job[j]) /\ \A b, c \in D : b.prev = c.prev
    <3> HIDE DEF Inv
    <3>1. TakenFrom(job[j], s, D, over[j])
          BY <2>3, JobCompletes, Zenon
    <3> QED  BY <3>1, Zenon DEF TakenFrom
  <2>5. \A b \in D : b.prev \in Nat /\ b.prev < nextEpoch
        BY <2>2, <2>4, RecordFacts DEF JobOk, JobBounds
  <2> QED  BY <2>1, <2>2, <2>3, <2>4, <2>5
<1>9. ASSUME NEW j \in Jobs, j \notin FinishingNow
      PROVE  /\ job'[j] \in JobRecords /\ FiniteGraph(job'[j].graph) /\ JobRoom(job'[j], over'[j])
             /\ job'[j].ctl = job[j].ctl /\ job'[j].phase = job[j].phase
             /\ job'[j].snap = job[j].snap /\ job'[j].finishAt = job[j].finishAt
             /\ Suffix(job[j], job'[j])
             /\ \A x \in Outstanding(job[j]) : x.ckpt =>
                  x \in Outstanding(job'[j]) \/ <<j, x.prev>> \in T
             /\ \A e \in job'[j].graph.completing : <<j, e>> \in T
             /\ \A p \in T : p[1] = j =>
                  JobAfter(job'[j], p[2]) /\ JobEpoch(job'[j], p[2], nextEpoch)
  <2>1. CASE j \in ReadyJobs
    <3>1. PICK s, D : /\ s = [job[j] EXCEPT !.graph = StartCompletingGraph(@, JobBound(j))]
                      /\ D = CheckpointOf(JobPopped(j))
          BY Zenon
    <3>2. job'[j] = s
          BY <1>9, <2>1, <3>1, Zenon DEF StartTask
    <3>3. /\ s \in JobRecords /\ FiniteGraph(s.graph) /\ JobRoom(s, over[j])
          /\ s.ctl = job[j].ctl /\ s.phase = job[j].phase /\ s.snap = job[j].snap
          /\ s.finishAt = job[j].finishAt
          /\ Suffix(job[j], s)
          /\ \A x \in Outstanding(job[j]) : x.ckpt => x \in Outstanding(s) \/ x \in D
          /\ s.graph.completing = {b.prev : b \in D}
          /\ \A c \in D : JobAfter(s, c.prev) /\ JobEpoch(s, c.prev, nextEpoch)
          /\ D \subseteq Outstanding(job[j])
          /\ \A b, c \in D : b.prev = c.prev
      <4> HIDE DEF Inv
      <4>1. TakenFrom(job[j], s, D, over[j])
            BY <2>1, <3>1, JobCompletes, Zenon
      <4> QED  BY <4>1, Zenon DEF TakenFrom
    <3>4. \A b \in D : <<j, b.prev>> \in T
          BY <1>2, <1>9, <2>1, <3>1, TakenIs
    <3>5. ASSUME NEW p \in T, p[1] = j PROVE \E b \in D : p[2] = b.prev
      <4>0. PICK i \in ReadyJobs \ FinishingNow :
              \E b \in CheckpointOf(JobPopped(i)) : p = <<i, b.prev>>
            BY <1>7
      <4>1. PICK b \in CheckpointOf(JobPopped(i)) : p = <<i, b.prev>>
            BY <4>0
      <4>2. i = j /\ p[2] = b.prev
            BY <3>5, <4>1
      <4> QED  BY <3>1, <4>1, <4>2
    <3>6. over'[j] = over[j]
          BY <1>1
    <3> QED  BY <3>2, <3>3, <3>4, <3>5, <3>6
  <2>2. CASE j \notin ReadyJobs
    <3>1. job'[j] = job[j]
          BY <1>9, <2>2, Zenon DEF StartTask
    <3>2. job[j].graph.completing = {}
          BY <1>1, NoTaskFields DEF JobsInv
    <3>3. Suffix(job[j], job[j])
          BY DEF Suffix
    <3>4. \A p \in T : p[1] # j
          BY <1>7, <2>2
    <3>5. over'[j] = over[j]
          BY <1>1
    <3> QED  BY <3>1, <3>2, <3>3, <3>4, <3>5, TypeFacts DEF JobsInv
  <2> QED  BY <2>1, <2>2
<1>10. \A j \in FinishingNow : job'[j] = NoJob /\ j \in Jobs
  <2>1. \A j \in FinishingNow : j \in Jobs
        BY DEF FinishingNow, ReadyJobs
  <2> QED  BY <2>1 DEF StartTask
<1>11. \A j \in Jobs : Running(j)' <=> Running(j) /\ j \notin FinishingNow
      BY <1>9, <1>10, NoJobFields DEF Running
<1>12. /\ T \subseteq Jobs \X Nat
       /\ \A p \in T : /\ p[1] \in Jobs /\ p[2] \in Nat /\ p[2] < nextEpoch
                       /\ p[1] \in ReadyJobs \ FinishingNow
                       /\ \E b \in CheckpointOf(JobPopped(p[1])) : p[2] = b.prev
      BY <1>7, <1>8
<1>13. \A w \in FinWaitAfter \cup FinGotAfter :
         /\ w \in Nat \X Jobs /\ w[1] < nextEpoch
         /\ \A b \in DbPending : b.prev = w[1] => w[2] \in b.tabs
  <2> HIDE DEF Inv
  <2> QED  BY FinishedIsMerged
<1>14. FinishedNow \subseteq FinGotAfter /\ X \subseteq Jobs
  <2>1. FinishedNow \subseteq FinGotAfter
        BY DEF FinishedNow
  <2>2. \A w \in FinishedNow : w[2] \in Jobs
        BY <1>13, <2>1
  <2> QED  BY <1>3, <2>1, <2>2
<1>15. /\ task' \in Tasks /\ task'.db = C /\ task'.jobs = T /\ task'.fin = X
       /\ task'.step \in {"none", "commit"}
       /\ task'.step = "none" => task' = NoTask
       /\ T # {} => task'.step = "commit"
  <2>1. CASE C = {} /\ T = {}
    <3>1. task' = NoTask
          BY <1>2, <2>1 DEF StartTask
    <3> QED  BY <1>6, <2>1, <3>1, NoTaskFields
  <2>2. CASE ~(C = {} /\ T = {})
    <3>1. PICK v \in BOOLEAN :
            task' = [step |-> "commit", db |-> C, jobs |-> T, fin |-> X, log |-> v]
      <4>1. PICK v : v = (subs # {} \/ ({j \in Jobs : job[j].ctl # "none"} \ FinishingNow) # {})
            OBVIOUS
      <4>2. v \in BOOLEAN
            BY <4>1
      <4>3. task' = [step |-> "commit", db |-> C, jobs |-> T, fin |-> X, log |-> v]
            BY <1>2, <1>3, <2>2, <4>1, Zenon DEF StartTask
      <4> QED  BY <4>2, <4>3
    <3>2. C \subseteq DbBarriers
          BY <1>4, <1>5
    <3> QED  BY <1>12, <1>14, <3>1, <3>2 DEF Tasks
  <2> QED  BY <2>1, <2>2
<1>16. TypeInv'
  <2>1. \A j \in Jobs : job'[j] \in JobRecords /\ FiniteGraph(job'[j].graph)
        BY <1>9, <1>10, NoJobFields, NoJobRoom
  <2>2. job' \in [Jobs -> JobRecords]
    <3>1. PICK f : f = job'
          OBVIOUS
    <3>2. f = [j \in Jobs |->
                 IF j \in FinishingNow THEN NoJob
                 ELSE IF j \in ReadyJobs
                   THEN [job[j] EXCEPT !.graph = StartCompletingGraph(@, JobBound(j))]
                   ELSE job[j]]
          BY <3>1, Zenon DEF StartTask
    <3>3. f = [j \in Jobs |-> f[j]]
          BY <3>2, Zenon
    <3> QED  BY <2>1, <3>1, <3>3
  <2>3. finWait' \subseteq Nat \X Jobs /\ finGot' \subseteq Nat \X Jobs
        BY <1>1, <1>13
  <2>4. dbCreating' \subseteq dbJobs'
        BY <1>1 DEF TypeInv
  <2> QED  BY <1>1, <1>4, <1>15, <2>1, <2>2, <2>3, <2>4 DEF TypeInv
<1>17. MemoryInv'
      BY <1>1, <1>15 DEF MemoryInv
<1>18. SubsInv'
  <2>1. ASSUME NEW j \in Jobs
        PROVE  /\ j \in subs <=> (Subscribes(job'[j]) \/ j \in pendSubs)
               /\ j \in pendSubs => job'[j].ctl = "none"
    <3>1. CASE j \in FinishingNow
      <4>1. job[j].ctl = "running" /\ job[j].phase = "finishing"
        <5> HIDE DEF Inv
        <5> QED  BY <3>1, FinishingHasNoFirst DEF Running
      <4>2. ~Subscribes(job[j]) /\ ~Subscribes(job'[j]) /\ job'[j].ctl = "none"
            BY <1>10, <3>1, <4>1, NoJobFields DEF Subscribes
      <4> QED  BY <4>1, <4>2 DEF SubsInv
    <3>2. CASE j \notin FinishingNow
          BY <1>9, <3>2 DEF SubsInv, Subscribes
    <3> QED  BY <3>1, <3>2
  <2> QED  BY <1>1, <2>1 DEF SubsInv
<1>19. CatalogInv'
  <2>1. ASSUME NEW j \in Jobs, catalog[j] = "none"
        PROVE  job'[j].ctl = "none" /\ \A p \in T : p[1] # j
    <3>1. ~Running(j) /\ job[j].ctl = "none"
          BY <2>1 DEF CatalogInv, Running
    <3>2. j \notin ReadyJobs /\ j \notin FinishingNow
          BY <3>1 DEF ReadyJobs, FinishingNow
    <3> QED  BY <1>9, <1>12, <3>1, <3>2
  <2> QED  BY <1>1, <1>2, <1>4, <1>15, <2>1 DEF CatalogInv
<1>20. ASSUME NEW j \in Jobs, Running(j), j \notin FinishingNow, <<job[j].finishAt, j>> \in finWait
       PROVE  <<job[j].finishAt, j>> \in FinWaitAfter
      BY <1>20 DEF FinWaitAfter
<1>21. MergeInv'
  <2>1. ASSUME NEW j \in Jobs, Running(j)'
        PROVE  /\ job'[j].phase = "finishing" => <<job'[j].finishAt, j>> \in finWait'
               /\ j \in dbJobs => MergedAt(j, nextEpoch)'
               /\ \A b \in Q : j \in b.tabs => MergedAt(j, b.prev)'
               /\ \A b \in C : j \notin b.tabs
    <3>1. /\ Running(j) /\ j \notin FinishingNow
          /\ job'[j].phase = job[j].phase /\ job'[j].finishAt = job[j].finishAt
          BY <1>9, <1>11, <2>1
    <3>2. /\ job[j].phase = "finishing" => <<job[j].finishAt, j>> \in finWait
          /\ j \in dbJobs => MergedAt(j, nextEpoch)
          /\ \A b \in DbPending : j \in b.tabs => MergedAt(j, b.prev)
          BY <3>1 DEF MergeInv
    <3>3. \A b \in C : j \notin b.tabs
      <4> SUFFICES ASSUME NEW b \in C, j \in b.tabs PROVE FALSE
          OBVIOUS
      <4>1. job[j].finishAt <= b.prev /\ <<job[j].finishAt, j>> \in FinWaitAfter
            BY <1>4, <1>20, <3>1, <3>2 DEF MergedAt
      <4>2. DbBound \in Int /\ DbBound <= job[j].finishAt
            BY <4>1, DbBoundWaits
      <4>3. b.prev < DbBound /\ b.prev \in Nat
            BY <1>4, <1>5
      <4>4. job[j].finishAt \in Nat
            BY TypeFacts, RecordFacts
      <4> QED  BY <4>1, <4>2, <4>3, <4>4
    <3>4. job[j].phase = "finishing" => <<job[j].finishAt, j>> \in finWait'
          BY <1>1, <1>20, <3>1, <3>2
    <3>5. j \in dbJobs => MergedAt(j, nextEpoch)'
          BY <1>1, <3>1, <3>2, <3>4 DEF MergedAt
    <3>6. ASSUME NEW b \in Q, j \in b.tabs PROVE MergedAt(j, b.prev)'
          BY <1>4, <3>1, <3>2, <3>4, <3>6 DEF MergedAt
    <3> QED  BY <3>1, <3>3, <3>4, <3>5, <3>6
  <2> QED  BY <1>1, <1>2, <1>15, <2>1 DEF MergeInv
<1>22. InitialInv'
  <2>1. ASSUME NEW j \in Jobs, catalog[j] = "initial"
        PROVE  /\ Running(j)'
               /\ \/ FirstBarrier \in job'[j].graph.inflight \cup job'[j].graph.collected
                  \/ <<j, 0>> \in T /\ task'.step \in {"commit", "post"}
    <3>1. Running(j) /\ FirstBarrier \in Outstanding(job[j])
          BY <1>1, <2>1, NoTaskFields DEF InitialInv, Outstanding
    <3>2. j \notin FinishingNow
      <4> HIDE DEF Inv
      <4> QED  BY <3>1, FinishingHasNoFirst
    <3>3. FirstBarrier.prev = 0 /\ FirstBarrier.ckpt
          BY FirstBarrierFields DEF FirstBarrier, Barrier
    <3>4. FirstBarrier \in Outstanding(job'[j]) \/ <<j, 0>> \in T
          BY <1>9, <3>1, <3>2, <3>3
    <3> QED  BY <1>11, <1>15, <3>1, <3>2, <3>4 DEF Outstanding
  <2> QED  BY <1>1, <1>15, <2>1 DEF InitialInv
<1>23. FinishedInv'
      BY <1>15 DEF FinishedInv
<1>24. NoJobForgotten'
  <2>1. ASSUME NEW j \in Jobs, catalog[j] = "creating"
        PROVE  \/ Running(j)'
               \/ \E w \in finGot' : w[2] = j
               \/ j \in X
               \/ j \in dbCreating'
    <3>1. ASSUME NEW w \in FinGotAfter, w[2] = j
          PROVE  j \in X \/ \E x \in finGot' : x[2] = j
          BY <1>1, <1>3, <3>1
    <3>2. CASE Running(j) /\ j \in FinishingNow
      <4>1. <<job[j].finishAt, j>> \in FinGotAfter
            BY <3>2 DEF FinGotAfter
      <4> QED  BY <3>1, <4>1
    <3>3. CASE Running(j) /\ j \notin FinishingNow
          BY <1>11, <3>3
    <3>4. CASE \E w \in finGot : w[2] = j
      <4>1. finGot \subseteq FinGotAfter
            BY DEF FinGotAfter
      <4> QED  BY <3>1, <3>4, <4>1
    <3>5. CASE j \in dbCreating
          BY <1>1, <1>3, <3>5
    <3>6. j \notin task.fin
          BY <1>1, NoTaskFields
    <3> QED  BY <1>1, <2>1, <3>2, <3>3, <3>4, <3>5, <3>6 DEF NoJobForgotten
  <2> QED  BY <1>1, <1>15, <2>1 DEF NoJobForgotten
<1>25. JobsInv'
  <2>1. ASSUME NEW j \in Jobs
        PROVE  /\ JobRoom(job'[j], over'[j])
               /\ \A e \in job'[j].graph.completing : <<j, e>> \in T
    <3>1. over'[j] = over[j] /\ over[j] \in Nat
          BY <1>1 DEF JobsInv, JobRoom
    <3> QED  BY <1>9, <1>10, <3>1, NoJobFields, NoJobRoom, EmptyGraphFinite
  <2>2. ASSUME NEW j \in Jobs, Running(j)'
        PROVE  /\ JobOk(job'[j], nextEpoch)
               /\ JobAfter(job'[j], jobCommitted[j])
               /\ JobEpoch(job'[j], jobCommitted[j], nextEpoch)
               /\ catSnap[j] \in {None, job'[j].snap}
    <3>1. Running(j) /\ j \notin FinishingNow
          BY <1>11, <2>2
    <3>2. /\ JobOk(job[j], nextEpoch) /\ JobAfter(job[j], jobCommitted[j])
          /\ JobEpoch(job[j], jobCommitted[j], nextEpoch) /\ catSnap[j] \in {None, job[j].snap}
          BY <3>1 DEF JobsInv
    <3>3. job[j] \in JobRecords /\ Suffix(job[j], job'[j]) /\ job'[j].snap = job[j].snap
          BY <1>9, <3>1, TypeFacts
    <3>4. /\ JobOk(job'[j], nextEpoch) /\ JobAfter(job'[j], jobCommitted[j])
          /\ JobEpoch(job'[j], jobCommitted[j], nextEpoch)
          BY <3>2, <3>3, SuffixKeeps
    <3> QED  BY <3>2, <3>3, <3>4
  <2> QED  BY <1>1, <1>15, <2>1, <2>2 DEF JobsInv
<1>26. DbInv'
  <2>1. \A b \in Q : dbCreating' \subseteq b.tabs
        BY <1>1, <1>4 DEF DbInv
  <2>2. \A w \in finWait' \cup finGot' :
          w[1] < nextEpoch /\ \A b \in Q : b.prev = w[1] => w[2] \in b.tabs
        BY <1>1, <1>4, <1>13
  <2> QED  BY <1>1, <1>2, <1>4, <2>1, <2>2 DEF DbInv
<1>27. TaskInv'
  <2>1. ASSUME NEW p \in T, NEW q \in T, p[1] = q[1] PROVE p[2] = q[2]
        BY <1>8, <1>12, <2>1
  <2>2. ASSUME NEW p \in T
        PROVE  /\ jobCommitted[p[1]] < p[2]
               /\ catalog[p[1]] = "creating" =>
                    JobEpoch([snap |-> catSnap[p[1]]], p[2], nextEpoch)
               /\ Running(p[1])' => /\ JobAfter(job'[p[1]], p[2])
                                    /\ JobEpoch(job'[p[1]], p[2], nextEpoch)
               /\ \A b \in Q : p[1] \in b.tabs => p[2] < b.prev
    <3>0. PICK j \in ReadyJobs \ FinishingNow :
            \E c \in CheckpointOf(JobPopped(j)) : p = <<j, c.prev>>
          BY <1>7
    <3>1. PICK c \in CheckpointOf(JobPopped(j)) : p = <<j, c.prev>>
          BY <3>0
    <3>2. p[1] = j /\ p[2] = c.prev
          BY <3>1
    <3>3. /\ j \in Jobs /\ Running(j) /\ job[j] \in JobRecords /\ JobOk(job[j], nextEpoch)
          /\ c \in Outstanding(job[j]) /\ c.prev \in Nat
          BY <1>8, <3>1
    <3>4. jobCommitted[j] < c.prev
      <4>1. c.prev > jobCommitted[j]
            BY <3>3 DEF JobsInv, JobAfter
      <4>2. jobCommitted[j] \in Int
            BY <3>3, TypeFacts
      <4> QED  BY <3>3, <4>1, <4>2
    <3>5. JobAfter(job'[j], c.prev) /\ JobEpoch(job'[j], c.prev, nextEpoch)
          /\ job'[j].snap = job[j].snap
          BY <1>9, <3>1, <3>2, <3>3
    <3>6. catalog[j] = "creating" => JobEpoch([snap |-> catSnap[j]], c.prev, nextEpoch)
      <4> SUFFICES ASSUME catalog[j] = "creating"
                   PROVE  JobEpoch([snap |-> catSnap[j]], c.prev, nextEpoch)
          OBVIOUS
      <4>1. catSnap[j] \in Nat /\ catSnap[j] \in {None, job[j].snap}
            BY <3>3 DEF TypeInv, JobsInv
      <4>2. catSnap[j] = job'[j].snap
            BY <3>5, <4>1 DEF None
      <4> QED  BY <3>5, <4>2 DEF JobEpoch
    <3>7. ASSUME NEW b \in Q, j \in b.tabs PROVE c.prev < b.prev
      <4>1. MergedAt(j, b.prev)
            BY <1>4, <3>3, <3>7 DEF MergeInv
      <4>2. job[j].phase = "finishing" /\ job[j].finishAt <= b.prev
            BY <4>1 DEF MergedAt
      <4>3. c.prev <= job[j].finishAt
            BY <3>3, <4>2 DEF JobOk, JobOrder
      <4>4. c.prev # job[j].finishAt
            BY <3>1, <4>2 DEF FinishingNow
      <4>5. job[j].finishAt \in Nat /\ b.prev \in Nat
            BY <1>4, <1>5, <3>3, RecordFacts
      <4> QED  BY <3>3, <4>2, <4>3, <4>4, <4>5
    <3> QED  BY <3>2, <3>4, <3>5, <3>6, <3>7
  <2>3. X # {} => C # {}
        BY <1>6
  <2>4. ASSUME NEW b \in C
        PROVE  /\ dbCommitted < b.prev /\ b.prev < nextEpoch
               /\ Rising(b.eps)
               /\ \A i \in 1 .. Len(b.eps) : dbCommitted < b.eps[i] /\ b.eps[i] <= b.prev
               /\ \A j \in b.tabs : jobCommitted[j] < b.prev
               /\ \A j \in b.tabs : catalog[j] = "creating" => catSnap[j] <= b.prev
               /\ X \subseteq b.tabs
               /\ \A i \in 1 .. Len(nonCkpt) : b.prev < nonCkpt[i]
               /\ \A c \in Q :
                    b.prev < c.prev /\ \A i \in 1 .. Len(c.eps) : b.prev < c.eps[i]
    <3>1. b \in DbPending /\ b.ckpt
          BY <1>4
    <3>2. /\ dbCommitted < b.prev /\ b.prev < nextEpoch
          /\ Rising(b.eps)
          /\ \A i \in 1 .. Len(b.eps) : dbCommitted < b.eps[i] /\ b.eps[i] <= b.prev
          /\ \A j \in b.tabs : jobCommitted[j] < b.prev
          /\ \A j \in b.tabs : catalog[j] = "creating" => catSnap[j] <= b.prev
          /\ dbCreating \subseteq b.tabs
          /\ \A i \in 1 .. Len(nonCkpt) : b.prev < nonCkpt[i]
          /\ \A c \in DbPending : b.prev < c.prev =>
               \A i \in 1 .. Len(c.eps) : b.prev < c.eps[i]
          BY <3>1 DEF DbInv
    <3>3. \A c \in Q : b.prev < c.prev /\ \A i \in 1 .. Len(c.eps) : b.prev < c.eps[i]
          BY <1>4, <3>2
    <3>4. ASSUME NEW w \in FinishedNow PROVE w[2] \in b.tabs
      <4>1. PICK c \in C : c.prev = w[1]
            BY <1>2 DEF FinishedNow
      <4>2. b.prev = w[1]
            BY <1>4, <4>1
      <4> QED  BY <1>13, <1>14, <3>1, <4>2
    <3>5. X \subseteq b.tabs
          BY <1>1, <1>3, <3>2, <3>4
    <3> QED  BY <3>2, <3>3, <3>5
  <2>5. \A p \in T : p[2] < nextEpoch
        BY <1>12
  <2> QED  BY <1>1, <1>2, <1>4, <1>15, <2>1, <2>2, <2>3, <2>4, <2>5 DEF TaskInv
<1>28. PersistedInv'
      BY <1>1 DEF PersistedInv
<1> QED  BY <1>16, <1>17, <1>18, <1>19, <1>21, <1>22, <1>23, <1>24, <1>25, <1>26, <1>27, <1>28

------------------------------------------------------------------------------
(* Recovery. *)

\* A creating job that is behind the database gets a control of its own, whose
\* queue is the log after the epoch it starts from.
LEMMA BehindRecovers ==
  ASSUME TypeInv, DbInv, PersistedInv, Resolvable, NEW j \in CreatingJobs \ CaughtUpJobs,
         NEW n, n = nextEpoch + 1
  PROVE  Recovered(RecoveredJob(j, n), catSnap[j], jobCommitted[j], n)
<1>1. j \in Jobs /\ catalog[j] = "creating" /\ jobCommitted[j] # dbCommitted
      BY DEF CreatingJobs, CaughtUpJobs
<1>2. /\ nextEpoch \in Nat /\ n \in Nat /\ n > 0 /\ nextEpoch < n
      /\ dbCommitted \in Nat /\ dbCommitted < nextEpoch
      /\ catSnap[j] \in Nat /\ jobCommitted[j] \in Nat \cup {None}
      /\ jobCommitted[j] < nextEpoch /\ catSnap[j] < nextEpoch /\ catSnap[j] >= Base
      /\ jobCommitted[j] < catSnap[j] => jobCommitted[j] <= nextEpoch - Base
      BY <1>1 DEF TypeInv, DbInv, PersistedInv
<1>3. PICK c, v : c = jobCommitted[j] /\ v = catSnap[j]
      OBVIOUS
<1>4. c \in Int /\ v \in Nat /\ Base \in Nat
      BY <1>2, <1>3, BaseFacts DEF None
<1>5. StartEpoch(j) = IF c >= v THEN c ELSE v
      BY <1>3, <1>4, MaxOfTwo DEF StartEpoch
<1>6. StartEpoch(j) \in Nat /\ StartEpoch(j) < n
      BY <1>2, <1>3, <1>4, <1>5
<1>7. v < n /\ (c < v => c < n - Base)
      BY <1>2, <1>3, <1>4
<1>8. OldestStart # dbCommitted => StartEpoch(j) \in LogCheckpoints
      BY <1>1 DEF Resolvable
<1>9. LogRising(log)
      BY DEF LogRising, TypeInv, PersistedInv
<1>10. \A i \in 1 .. Len(log) : log[i].epoch < n
  <2> TAKE i \in 1 .. Len(log)
  <2>1. log[i] \in LogRecords
        BY DEF TypeInv
  <2>2. log[i].epoch \in Nat /\ log[i].epoch <= dbCommitted
        BY <2>1 DEF LogRecords, PersistedInv
  <2> QED  BY <1>2, <2>2
<1>11. PICK q : q = ResolveFrom(StartEpoch(j), n)
      OBVIOUS
<1>12. QueueFrom(q, StartEpoch(j), n)
      BY <1>2, <1>6, <1>8, <1>9, <1>10, <1>11, ResolveIs
<1> QED  BY <1>2, <1>3, <1>7, <1>11, <1>12, RecoveredJobIs

LEMMA RecoverKeeps == ASSUME Inv, Recover PROVE Inv'
<1> USE DEF Inv, CCInv, EpochInv
<1>1. PICK n, O : n = nextEpoch + 1 /\ O = CreatingJobs \ CaughtUpJobs
      OBVIOUS
<1>2. /\ ~up /\ Resolvable /\ n \in Epochs
      /\ up' = TRUE /\ nextEpoch' = n /\ nonCkpt' = nonCkpt /\ db' = db
      /\ dbJobs' = CaughtUpJobs \cup {j \in Jobs : catalog[j] = "created"}
      /\ dbCreating' = CaughtUpJobs
      /\ subs' = O /\ pendSubs' = pendSubs /\ finWait' = finWait /\ finGot' = finGot
      /\ task' = task /\ dropReq' = dropReq
      /\ dbCommitted' = dbCommitted /\ jobCommitted' = jobCommitted /\ catSnap' = catSnap
      /\ log' = log /\ truncInfo' = truncInfo /\ crashes' = crashes /\ over' = over
      BY <1>1, Zenon DEF Recover
<1>3. /\ db = EmptyGraph /\ nonCkpt = <<>> /\ pendSubs = {} /\ finWait = {} /\ finGot = {}
      /\ task = NoTask /\ dropReq = {}
      BY <1>2 DEF MemoryInv
<1>4. DbPending' = {} /\ db'.inflight = {} /\ db'.collected = {} /\ db'.completing = {}
      BY <1>2, <1>3, EmptyGraphFinite DEF DbPending
<1>5. /\ catalog' = [j \in Jobs |-> IF catalog[j] = "initial" THEN "dropped" ELSE catalog[j]]
      /\ \A j \in Jobs : catalog'[j] = IF catalog[j] = "initial" THEN "dropped" ELSE catalog[j]
      BY Zenon DEF Recover, CleanedCatalog
<1>6. /\ O \subseteq Jobs /\ CaughtUpJobs \subseteq Jobs
      /\ \A j \in Jobs : catalog[j] = "creating" <=> (j \in O \/ j \in CaughtUpJobs)
      /\ \A j \in O : j \notin CaughtUpJobs
      BY <1>1 DEF CreatingJobs, CaughtUpJobs
<1>7. /\ n \in Nat /\ n > nextEpoch /\ n > Base /\ n <= Base + MaxEpoch
      /\ nextEpoch \in Nat /\ Base \in Nat
      BY <1>1, <1>2, BaseFacts DEF TypeInv, DbInv, Epochs
<1>8. ASSUME NEW j \in O
      PROVE  job'[j] = RecoveredJob(j, n) /\ Recovered(job'[j], catSnap[j], jobCommitted[j], n)
  <2>1. job'[j] = RecoveredJob(j, n)
        BY <1>1, <1>6, Zenon DEF Recover
  <2>2. Recovered(RecoveredJob(j, n), catSnap[j], jobCommitted[j], n)
        BY <1>1, <1>2, BehindRecovers
  <2> QED  BY <2>1, <2>2
<1>9. \A j \in Jobs : j \notin O => job'[j] = NoJob
      BY <1>1, Zenon DEF Recover
<1>10. ASSUME NEW j \in Jobs
       PROVE  /\ job'[j] \in JobRecords /\ job'[j].graph = EmptyGraph
              /\ job'[j].phase # "finishing"
              /\ j \in O => job'[j].ctl = "running"
              /\ j \notin O => job'[j].ctl = "none"
              /\ j \in O <=> Running(j)'
      BY <1>8, <1>9, NoJobFields DEF Recovered, Running
<1>11. TypeInv'
  <2>1. job' \in [Jobs -> JobRecords] /\ \A j \in Jobs : FiniteGraph(job'[j].graph)
    <3>1. PICK f : f = job'
          OBVIOUS
    <3>2. f = [j \in Jobs |-> IF j \in O THEN RecoveredJob(j, n) ELSE NoJob]
          BY <1>1, <3>1, Zenon DEF Recover
    <3>3. f = [j \in Jobs |-> f[j]]
          BY <3>2, Zenon
    <3> QED  BY <1>10, <3>1, <3>3, EmptyGraphFinite
  <2>2. dbJobs' \subseteq Jobs /\ dbCreating' \subseteq dbJobs' /\ subs' \subseteq Jobs
        BY <1>2, <1>6
  <2>3. /\ catalog' \in [Jobs -> {"none", "initial", "creating", "created", "dropped"}]
        /\ \A j \in Jobs : catalog'[j] = "creating" => catSnap'[j] \in Nat
        BY <1>2, <1>5 DEF TypeInv
  <2> QED  BY <1>2, <1>7, <2>1, <2>2, <2>3 DEF TypeInv
<1>12. MemoryInv'
      BY <1>2, <1>3 DEF MemoryInv
<1>13. SubsInv'
      BY <1>2, <1>3, <1>10 DEF SubsInv, Subscribes
<1>14. CatalogInv'
  <2>1. ASSUME NEW j \in Jobs, catalog'[j] = "none"
        PROVE  job'[j].ctl = "none" /\ j \notin dbJobs'
        BY <1>2, <1>5, <1>6, <1>10, <2>1
  <2>2. task'.db = {} /\ task'.jobs = {}
        BY <1>2, <1>3, NoTaskFields
  <2> QED  BY <1>2, <1>3, <1>4, <2>1, <2>2 DEF CatalogInv
<1>15. MergeInv'
  <2>1. ASSUME NEW j \in Jobs, Running(j)' PROVE j \notin dbJobs'
        BY <1>2, <1>6, <1>10, <2>1
  <2>2. task'.step = "none"
        BY <1>2, <1>3, NoTaskFields
  <2> QED  BY <1>4, <1>10, <2>1, <2>2 DEF MergeInv
<1>16. InitialInv' /\ FinishedInv'
  <2>1. \A j \in Jobs : catalog'[j] # "initial"
        BY <1>5
  <2>2. task'.step = "none"
        BY <1>2, <1>3, NoTaskFields
  <2> QED  BY <2>1, <2>2 DEF InitialInv, FinishedInv
<1>17. NoJobForgotten'
      BY <1>2, <1>5, <1>6, <1>10 DEF NoJobForgotten
<1>18. JobsInv'
  <2>1. ASSUME NEW j \in Jobs
        PROVE  JobRoom(job'[j], over'[j]) /\ job'[j].graph.completing = {}
    <3>1. over'[j] = over[j] /\ over[j] \in Nat
          BY <1>2 DEF JobsInv, JobRoom
    <3> QED  BY <1>10, <3>1, EmptyRoom, EmptyGraphFinite
  <2>2. ASSUME NEW j \in Jobs, Running(j)'
        PROVE  /\ JobOk(job'[j], n) /\ JobAfter(job'[j], jobCommitted[j])
               /\ JobEpoch(job'[j], jobCommitted[j], n) /\ catSnap[j] = job'[j].snap
        BY <1>8, <1>10, <2>2 DEF Recovered
  <2> QED  BY <1>2, <2>1, <2>2 DEF JobsInv
<1>19. DbInv'
  <2>1. dbCommitted \in Nat /\ dbCommitted >= Base /\ dbCommitted < nextEpoch
        BY DEF TypeInv, DbInv
  <2>2. dbCommitted < n
        BY <1>7, <2>1
  <2>3. GraphOrder(db') /\ Cardinality(db'.completing) <= 1
        BY <1>2, <1>3, EmptyDb, EmptyRoom, EmptyGraphFinite DEF DbInv
  <2>4. Rising(nonCkpt') /\ Len(nonCkpt') = 0
        BY <1>2, <1>3 DEF Rising
  <2> QED  BY <1>2, <1>3, <1>4, <1>7, <2>1, <2>2, <2>3, <2>4 DEF DbInv
<1>20. TaskInv'
  <2>1. task'.step = "none" /\ task'.jobs = {} /\ task'.fin = {}
        BY <1>2, <1>3, NoTaskFields
  <2> QED  BY <2>1 DEF TaskInv
<1>21. PersistedInv'
  <2>1. ASSUME NEW j \in Jobs
        PROVE  /\ jobCommitted[j] < n /\ catSnap[j] < n
               /\ catalog'[j] = "none" => jobCommitted[j] = None
               /\ catalog'[j] \in {"none", "initial"} => catSnap[j] = None
               /\ catalog'[j] = "creating" =>
                    /\ catSnap[j] >= Base
                    /\ jobCommitted[j] < catSnap[j] => jobCommitted[j] <= n - Base
    <3>1. jobCommitted[j] \in Int /\ catSnap[j] \in Int
          BY TypeFacts
    <3>2. /\ jobCommitted[j] < nextEpoch /\ catSnap[j] < nextEpoch
          /\ catalog[j] = "creating" =>
               /\ catSnap[j] >= Base
               /\ jobCommitted[j] < catSnap[j] => jobCommitted[j] <= nextEpoch - Base
          BY DEF PersistedInv
    <3>3. jobCommitted[j] < n /\ catSnap[j] < n
          BY <1>7, <3>1, <3>2
    <3>4. jobCommitted[j] <= nextEpoch - Base => jobCommitted[j] <= n - Base
          BY <1>7, <3>1
    <3>5. /\ catalog'[j] = "none" => jobCommitted[j] = None
          /\ catalog'[j] \in {"none", "initial"} => catSnap[j] = None
          BY <1>5 DEF PersistedInv
    <3>6. catalog'[j] = "creating" => catalog[j] = "creating"
          BY <1>5
    <3> QED  BY <3>2, <3>3, <3>4, <3>5, <3>6
  <2> QED  BY <1>2, <2>1 DEF PersistedInv
<1> QED  BY <1>11, <1>12, <1>13, <1>14, <1>15, <1>16, <1>17, <1>18, <1>19, <1>20, <1>21

------------------------------------------------------------------------------
(* The invariant, and what follows from it. *)

LEMMA NextKeeps == Inv /\ [Next]_vars => Inv'
<1> SUFFICES ASSUME Inv, [Next]_vars PROVE Inv'
    OBVIOUS
<1>1. CASE UNCHANGED vars
  <2>1. UNCHANGED <<memory, persisted, over>> /\ truncInfo' = truncInfo /\ crashes' = crashes /\ over' = over
        BY <1>1 DEF vars
  <2>2. truncInfo \subseteq Jobs /\ crashes \in Nat
        BY DEF Inv, CCInv, TypeInv
  <2> QED  BY <2>1, <2>2, SameMemory
<1>2. CASE Next
  <2>1. ASSUME NEW ck \in BOOLEAN, PeriodicBarrier(ck) PROVE Inv'
        BY <2>1, PeriodicInjects, BarrierKeeps
  <2>2. ASSUME NEW j \in Jobs,
               \/ CreateJob(j) \/ DropInCatalog(j) \/ DropIndependently(j) \/ JobReset(j)
               \/ DropInDatabase(j) \/ JobCollect(j) \/ JobFinishesNode(j)
               \/ JobFinishesSnapshot(j) \/ JobFinishesLogStore(j)
        PROVE  Inv'
    <3>1. CASE CreateJob(j)
          BY <3>1, CreateJobInjects, BarrierKeeps
    <3>2. CASE DropInCatalog(j)
          BY <3>2, DropInCatalogKeeps
    <3>3. CASE DropIndependently(j)
          BY <3>3, DropIndependentlyKeeps
    <3>4. CASE JobReset(j)
          BY <3>4, ResetKeeps
    <3>5. CASE DropInDatabase(j)
          BY <3>5, DropInDatabaseInjects, BarrierKeeps
    <3>6. CASE JobCollect(j) \/ JobFinishesNode(j)
          BY <3>6, CollectKeeps
    <3>7. CASE JobFinishesSnapshot(j)
          BY <3>7, FinishesSnapshotKeeps
    <3>8. CASE JobFinishesLogStore(j)
          BY <3>8, FinishesLogStoreKeeps
    <3> QED  BY <2>2, <3>1, <3>2, <3>3, <3>4, <3>5, <3>6, <3>7, <3>8
  <2>3. CASE DbCollect
        BY <2>3, DbCollectKeeps
  <2>4. ASSUME NEW more \in SUBSET Jobs, StartTask(more) PROVE Inv'
        BY <2>4, StartKeeps
  <2>5. CASE TaskCommit
        BY <2>5, CommitKeeps
  <2>6. CASE TaskPostCollect
        BY <2>6, PostCollectKeeps
  <2>7. CASE TaskFinishJobs
        BY <2>7, FinishJobsKeeps
  <2>8. CASE TaskAck
        BY <2>8, AckKeeps
  <2>9. CASE TruncateFetch
        BY <2>9, FetchKeeps
  <2>10. CASE TruncateApply
        BY <2>10, ApplyKeeps
  <2>11. CASE Crash \/ TaskFails
        BY <2>11, CrashKeeps
  <2>12. CASE Recover
        BY <2>12, RecoverKeeps
  <2>13. ASSUME NEW S \in Commands, NEW mutates \in BOOLEAN, OtherCommand(S, mutates)
         PROVE  Inv'
        BY <2>13, OtherCommandInjects, BarrierKeeps
  <2> QED  BY <1>2, <2>1, <2>2, <2>3, <2>4, <2>5, <2>6, <2>7, <2>8, <2>9, <2>10, <2>11, <2>12,
              <2>13 DEF Next
<1> QED  BY <1>1, <1>2

\* The inductive invariant: what is in memory agrees with what is persisted, and
\* every epoch in a job's, the database's or the task's hands is ahead of what
\* it would commit over, through merges, drops, failures and recoveries
\* (handle_new_barrier, next_complete_barrier_task, ack_completed, recover).
THEOREM CheckpointInvariant == Spec => []Inv
<1>1. Inv /\ [Next]_vars => Inv'
      BY NextKeeps
<1> QED  BY <1>1, InitInv, PTL DEF Spec

\* A job the catalog calls Creating is never lost between its control, the
\* finishing-jobs collector, the completing task and the database's tracker
\* (next_complete_barrier_task, recover).
THEOREM NoJobForgottenTheorem == Spec => []NoJobForgotten
<1>1. Inv => NoJobForgotten
      BY DEF Inv, CCInv
<1> QED  BY <1>1, CheckpointInvariant, PTL

\* Every subscriber of T has a control that will remove it, or is handed to the
\* next barrier (on_partial_graph_reset): none outlives its job.
THEOREM NoSubscriberLeaksTheorem == Spec => []NoSubscriberLeaks
<1>1. Inv => NoSubscriberLeaks
      BY DEF Inv, CCInv, TypeInv, SubsInv, Subscribes, NoSubscriberLeaks
<1> QED  BY <1>1, CheckpointInvariant, PTL

\* The database never commits a barrier with the tables of a job whose own
\* graph has not delivered up to it (finishing_jobs_collector).
THEOREM MergeIsAtomicTheorem == Spec => []MergeIsAtomic
<1>1. ASSUME Inv PROVE MergeIsAtomic
  <2>1. TypeInv /\ MergeInv
        BY <1>1 DEF Inv, CCInv
  <2> QED  BY <2>1, TypeFacts DEF MergeInv, MergeIsAtomic
<1> QED  BY <1>1, CheckpointInvariant, PTL

\* No epoch is committed twice or out of order for any table, by whichever
\* graph, across merge and recovery (the assert! of ack_completed).
THEOREM CommittedOnceTheorem == Spec => []CommittedOnce
<1>1. ASSUME Inv PROVE CommittedOnce
  <2>1. TypeInv /\ TaskInv
        BY <1>1 DEF Inv, CCInv, EpochInv
  <2> SUFFICES ASSUME task.step = "commit"
               PROVE  /\ \A b \in task.db : /\ b.prev > dbCommitted
                                            /\ \A j \in b.tabs : b.prev > jobCommitted[j]
                      /\ \A p \in task.jobs : p[2] > jobCommitted[p[1]]
      BY DEF CommittedOnce
  <2>2. ASSUME NEW b \in task.db
        PROVE  b.prev > dbCommitted /\ \A j \in b.tabs : b.prev > jobCommitted[j]
    <3>1. /\ b.prev \in Nat /\ b.tabs \subseteq Jobs /\ dbCommitted \in Nat
          /\ \A j \in Jobs : jobCommitted[j] \in Int
          BY <2>1, TypeFacts
    <3>2. dbCommitted < b.prev /\ \A j \in b.tabs : jobCommitted[j] < b.prev
          BY <2>1 DEF TaskInv
    <3> QED  BY <3>1, <3>2
  <2>3. ASSUME NEW p \in task.jobs PROVE p[2] > jobCommitted[p[1]]
    <3>1. p[2] \in Nat /\ jobCommitted[p[1]] \in Int
          BY <2>1, TypeFacts
    <3>2. jobCommitted[p[1]] < p[2]
          BY <2>1 DEF TaskInv
    <3> QED  BY <3>1, <3>2
  <2> QED  BY <2>2, <2>3
<1> QED  BY <1>1, CheckpointInvariant, PTL

\* What the new state of the mutations is typed as.
HistoryInv == toStart \subseteq Jobs /\ over \in [Jobs -> Nat]

LEMMA OverIsNat ==
  ASSUME NEW r, NEW n \in Nat, NEW mu PROVE OverAfter(r, n, mu) \in Nat
BY DEF OverAfter

LEMMA HistoryNext == HistoryInv /\ [Next]_vars => HistoryInv'
<1> SUFFICES ASSUME HistoryInv, [Next]_vars PROVE HistoryInv'
    OBVIOUS
<1> USE DEF HistoryInv
<1>1. ASSUME NEW S, NEW b, NEW W, JobsAfterBarrier(S, b, W) PROVE HistoryInv'
  <2>1. ASSUME NEW j \in Jobs
        PROVE  OverAfter(job[j], over[j], j \in W \cup toStart) \in Nat
        BY OverIsNat
  <2>2. over' = [j \in Jobs |-> IF j \in S THEN over[j]
                                 ELSE OverAfter(job[j], over[j], j \in W \cup toStart)]
        BY <1>1, Zenon DEF JobsAfterBarrier
  <2>3. toStart' \subseteq Jobs
        BY <1>1 DEF JobsAfterBarrier
  <2>4. over' \in [Jobs -> Nat]
        BY <2>1, <2>2
  <2> QED  BY <2>3, <2>4
<1>2. ASSUME toStart' \subseteq toStart, over' = over PROVE HistoryInv'
      BY <1>2
<1>3. CASE UNCHANGED vars
      BY <1>3 DEF vars, memory
<1>4. ASSUME NEW ck \in BOOLEAN, PeriodicBarrier(ck) PROVE HistoryInv'
      BY <1>1, <1>4, Zenon DEF PeriodicBarrier
<1>5. ASSUME NEW S \in Commands, NEW mutates \in BOOLEAN, OtherCommand(S, mutates)
      PROVE  HistoryInv'
      BY <1>1, <1>5, Zenon DEF OtherCommand
<1>6. ASSUME NEW j \in Jobs, CreateJob(j) PROVE HistoryInv'
  <2>1. ASSUME NEW i \in Jobs
        PROVE  OverAfter(IF i = j THEN NewJob(nextEpoch) ELSE job[i], over[i],
                         i \in {j} \cup toStart) \in Nat
        BY OverIsNat
  <2>2. /\ over' = [i \in Jobs |-> OverAfter(IF i = j THEN NewJob(nextEpoch) ELSE job[i],
                                             over[i], i \in {j} \cup toStart)]
        /\ toStart' = {}
        BY <1>6, Zenon DEF CreateJob
  <2> QED  BY <2>1, <2>2
<1>7. ASSUME NEW j \in Jobs, DropInDatabase(j) PROVE HistoryInv'
      BY <1>1, <1>7, Zenon DEF DropInDatabase
<1>8. ASSUME NEW j \in Jobs,
             \/ DropInCatalog(j) \/ DropIndependently(j) \/ JobReset(j) \/ JobCollect(j)
             \/ JobFinishesNode(j) \/ JobFinishesSnapshot(j) \/ JobFinishesLogStore(j)
      PROVE  HistoryInv'
  <2>1. over' = over /\ toStart' \subseteq toStart \cup {j}
        BY <1>8 DEF DropInCatalog, DropIndependently, JobReset, JobCollect,
                    JobFinishesNode, JobFinishesSnapshot, JobFinishesLogStore, JobCollects
  <2> QED  BY <2>1
<1>9. CASE \/ DbCollect \/ TaskCommit \/ TaskPostCollect \/ TaskFinishJobs \/ TaskAck
           \/ TruncateFetch \/ TruncateApply \/ \E more \in SUBSET Jobs : StartTask(more)
  <2>1. over' = over /\ toStart' = toStart
        BY <1>9 DEF DbCollect, TaskCommit, TaskPostCollect, TaskFinishJobs, TaskAck,
                    TruncateFetch, TruncateApply, StartTask, memory
  <2> QED  BY <1>2, <2>1
<1>10. CASE Crash \/ TaskFails
      BY <1>10 DEF Crash, TaskFails, LoseMemory
<1>11. CASE Recover
      BY <1>11 DEF Recover, CreatingJobs
<1> QED  BY <1>3, <1>4, <1>5, <1>6, <1>7, <1>8, <1>9, <1>10, <1>11 DEF Next

LEMMA HistoryInvariant == Spec => []HistoryInv
<1>1. Init => HistoryInv
      BY DEF Init, HistoryInv
<1> QED  BY <1>1, HistoryNext, PTL DEF Spec

\* The state is well typed, with at most one checkpoint of a graph under commit,
\* and the graph of a creating job never holds more barriers than its limit, the
\* one that merges it and those forwarded over the limit for a mutation since it
\* last had room (drain_pending_barriers, start_consume_upstream,
\* on_new_upstream_epoch).
THEOREM JobPendingBoundedTheorem == Spec => []JobPendingBounded
<1>1. ASSUME Inv, HistoryInv PROVE JobPendingBounded
  <2>1. TypeInv /\ SubsInv /\ JobsInv /\ DbInv /\ PersistedInv
        BY <1>1 DEF Inv, CCInv, EpochInv
  <2>2. /\ nextEpoch \in Nat /\ nextEpoch > Base /\ nextEpoch <= Base + MaxEpoch
        /\ dbCommitted \in Nat /\ dbCommitted >= Base /\ dbCommitted < nextEpoch
        /\ Base \in Nat /\ MaxEpoch \in Nat
        BY <2>1, BaseFacts DEF TypeInv, DbInv
  <2>3. nextEpoch \in Epochs /\ dbCommitted \in Epochs
        BY <2>2 DEF Epochs
  <2>4. ASSUME NEW j \in Jobs
        PROVE  jobCommitted[j] \in {None} \cup 0..(Base + MaxEpoch)
    <3>1. jobCommitted[j] \in Nat \cup {None} /\ jobCommitted[j] < nextEpoch
          BY <2>1 DEF TypeInv, PersistedInv
    <3> QED  BY <2>2, <3>1
  <2>5. ASSUME NEW j \in Jobs
        PROVE  /\ job[j].ctl \in {"none", "running", "resetting"}
               /\ Cardinality(job[j].graph.completing) <= 1
               /\ PendingNum(job[j].graph) <= MaxPending + 1 + over[j]
    <3>1. job[j] \in JobRecords /\ JobRoom(job[j], over[j])
          BY <2>1 DEF TypeInv, JobsInv
    <3> QED  BY <3>1 DEF JobRecords, JobRoom
  <2>6. task.step \in {"none", "commit", "post", "finish", "ack"}
        BY <2>1 DEF TypeInv, Tasks
  <2>7. CCTypeOK
    <3>1. /\ up \in BOOLEAN /\ dbJobs \subseteq Jobs /\ dbCreating \subseteq dbJobs
          /\ subs \subseteq Jobs /\ pendSubs \subseteq subs
          /\ Cardinality(db.completing) <= 1
          /\ \A j \in Jobs :
               catalog[j] \in {"none", "initial", "creating", "created", "dropped"}
          BY <2>1 DEF TypeInv, SubsInv, DbInv
    <3> QED  BY <1>1, <2>3, <2>4, <2>5, <2>6, <3>1 DEF CCTypeOK, HistoryInv
  <2> QED  BY <2>5, <2>7 DEF JobPendingBounded
<1> QED  BY <1>1, CheckpointInvariant, HistoryInvariant, PTL

\* The queue of a job is a chain up to its end.
LEMMA QueueIsChained ==
  ASSUME NEW r \in JobRecords, NEW n \in Nat, JobOk(r, n), NEW Q, Q = ToSet(r.pend)
  PROVE  /\ Chained(Q, n)
         /\ r.pend # <<>> => /\ Q # {} /\ FirstOf(Q).prev = r.pend[1].prev
                             /\ \E c \in Q : c.prev = r.pend[1].prev
<1>1. PICK q : q = r.pend
      OBVIOUS
<1>2. q \in Seq(JobBarriers) /\ Len(q) \in Nat /\ \A i \in 1 .. Len(q) : q[i].prev \in Nat
      BY <1>1, RecordFacts
<1>3. /\ \A i \in 1 .. Len(q) : q[i].curr = IF i = Len(q) THEN n ELSE q[i + 1].prev
      /\ \A i, k \in 1 .. Len(q) : i < k => q[i].prev < q[k].prev
      BY <1>1 DEF JobOk, JobChain, JobOrder
<1>4. Q = {q[i] : i \in 1 .. Len(q)}
      BY <1>1, <1>2 DEF ToSet
<1>5. ASSUME NEW b \in Q PROVE b.curr = n \/ \E c \in Q : c.prev = b.curr
  <2>1. PICK i \in 1 .. Len(q) : b = q[i]
        BY <1>4
  <2>2. CASE i = Len(q)
        BY <1>3, <2>1, <2>2
  <2>3. CASE i # Len(q)
    <3>1. i + 1 \in 1 .. Len(q)
          BY <1>2, <2>3
    <3>2. q[i + 1] \in Q /\ q[i + 1].prev = b.curr
          BY <1>3, <1>4, <2>1, <2>3, <3>1
    <3> QED  BY <3>2
  <2> QED  BY <2>2, <2>3
<1>6. ASSUME q # <<>>
      PROVE  Q # {} /\ FirstOf(Q).prev = q[1].prev /\ \E c \in Q : c.prev = q[1].prev
  <2>1. 1 \in 1 .. Len(q)
        BY <1>2, <1>6
  <2>2. q[1] \in Q /\ \A b \in Q : b.prev \in Nat
        BY <1>2, <1>4, <2>1
  <2>3. PICK f : f = FirstOf(Q) /\ f \in Q /\ \A c \in Q : f.prev <= c.prev
        BY <2>2, FirstOfIsLeast
  <2>4. PICK i \in 1 .. Len(q) : f = q[i]
        BY <1>4, <2>3
  <2>5. f.prev <= q[1].prev
        BY <2>2, <2>3
  <2>6. i = 1
    <3> SUFFICES ASSUME i # 1 PROVE FALSE
        OBVIOUS
    <3>1. 1 < i
          BY <1>2
    <3>2. q[1].prev < q[i].prev
          BY <1>3, <2>1, <3>1
    <3> QED  BY <1>2, <2>1, <2>4, <2>5, <3>2
  <2> QED  BY <2>2, <2>3, <2>4, <2>6
<1> QED  BY <1>1, <1>5, <1>6 DEF Chained

\* A creating job sees every barrier of its upstream: what it has still to
\* process is a contiguous chain up to the database's newest barrier, through
\* back-pressure (drain_pending_barriers), phase changes and recovery
\* (resolve_upstream_log_epochs).
THEOREM NoUpstreamEpochSkippedTheorem == Spec => []NoUpstreamEpochSkipped
<1>1. ASSUME Inv PROVE NoUpstreamEpochSkipped
  <2>1. TypeInv /\ JobsInv
        BY <1>1 DEF Inv, CCInv, EpochInv
  <2> SUFFICES ASSUME NEW j \in Jobs, Running(j), NEW r, r = job[j],
                      NEW Q, Q = ToSet(r.pend)
               PROVE  CASE r.phase = "snapshot" ->
                              /\ Chained(Outstanding(r), r.fake)
                              /\ Chained(Q, nextEpoch)
                              /\ Q # {} /\ FirstOf(Q).prev = r.snap
                        [] r.phase = "log" -> Chained(Outstanding(r) \cup Q, nextEpoch)
                        [] r.phase = "finishing" -> Chained(Outstanding(r), r.finishAt + 1)
      BY DEF NoUpstreamEpochSkipped
  <2>2. r \in JobRecords /\ JobOk(r, nextEpoch) /\ nextEpoch \in Nat
        BY <2>1 DEF TypeInv, JobsInv
  <2>3. /\ Chained(Q, nextEpoch)
        /\ r.pend # <<>> => /\ Q # {} /\ FirstOf(Q).prev = r.pend[1].prev
                            /\ \E c \in Q : c.prev = r.pend[1].prev
        BY <2>2, QueueIsChained
  <2>4. r.phase \in {"snapshot", "log", "finishing"}
        BY <2>2 DEF JobRecords
  <2>5. CASE r.phase = "snapshot"
    <3>1. r.pend # <<>> /\ r.pend[1].prev = r.snap /\ Chained(Outstanding(r), r.fake)
          BY <2>2, <2>5 DEF JobOk, JobChain
    <3> QED  BY <2>3, <2>5, <3>1
  <2>6. CASE r.phase = "log"
    <3>1. Chained(Outstanding(r), IF r.pend = <<>> THEN nextEpoch ELSE r.pend[1].prev)
          BY <2>2, <2>6 DEF JobOk, JobChain
    <3>2. r.pend = <<>> => Q = {}
          BY DEF ToSet
    <3>3. Chained(Outstanding(r) \cup Q, nextEpoch)
          BY <2>3, <3>1, <3>2 DEF Chained
    <3> QED  BY <2>6, <3>3
  <2>7. CASE r.phase = "finishing"
    <3>1. Chained(Outstanding(r), r.finishAt + 1)
          BY <2>2, <2>7 DEF JobOk, JobChain
    <3> QED  BY <2>7, <3>1
  <2> QED  BY <2>4, <2>5, <2>6, <2>7
<1> QED  BY <1>1, CheckpointInvariant, PTL

\* Only finish_creating_job turns a job from Creating to Created.
LEMMA OnlyFinishCreates ==
  ASSUME Inv, Next, NEW j \in Jobs, catalog[j] = "creating", catalog'[j] = "created"
  PROVE  TaskFinishJobs /\ j \in task.fin
<1>0. catalog \in [Jobs -> {"none", "initial", "creating", "created", "dropped"}]
      BY DEF Inv, CCInv, TypeInv
<1>1. catalog' # catalog
      OBVIOUS
<1>2. /\ ~(\E ck \in BOOLEAN : PeriodicBarrier(ck)) /\ ~DbCollect /\ ~TaskCommit /\ ~TaskAck
      /\ ~(\E S \in Commands, mutates \in BOOLEAN : OtherCommand(S, mutates))
      BY <1>1 DEF PeriodicBarrier, OtherCommand, DbCollect, TaskCommit, TaskAck, persisted
<1>3. ASSUME NEW i \in Jobs
      PROVE  /\ ~DropIndependently(i) /\ ~JobReset(i) /\ ~DropInDatabase(i)
             /\ ~JobCollect(i) /\ ~JobFinishesNode(i)
             /\ ~JobFinishesSnapshot(i) /\ ~JobFinishesLogStore(i)
      BY <1>1 DEF DropIndependently, JobReset, DropInDatabase, JobCollect,
                  JobFinishesNode, JobFinishesSnapshot, JobFinishesLogStore, JobCollects, persisted
<1>4. ASSUME NEW i \in Jobs, CreateJob(i) PROVE FALSE
  <2>1. catalog' = [catalog EXCEPT ![i] = "initial"]
        BY <1>4 DEF CreateJob
  <2>2. CASE i = j
        BY <1>0, <2>1, <2>2
  <2>3. CASE i # j
        BY <1>0, <2>1, <2>3
  <2> QED  BY <2>2, <2>3
<1>5. ASSUME NEW i \in Jobs, DropInCatalog(i) PROVE FALSE
  <2>1. catalog' = [catalog EXCEPT ![i] = "dropped"]
        BY <1>5 DEF DropInCatalog
  <2>2. CASE i = j
        BY <1>0, <2>1, <2>2
  <2>3. CASE i # j
        BY <1>0, <2>1, <2>3
  <2> QED  BY <2>2, <2>3
<1>6. ~(\E more \in SUBSET Jobs : StartTask(more))
      BY <1>1 DEF StartTask, persisted
<1>7. ~TruncateFetch /\ ~TruncateApply /\ ~Crash /\ ~TaskFails
      BY <1>1 DEF TruncateFetch, TruncateApply, Crash, TaskFails, LoseMemory, persisted
<1>8. ~TaskPostCollect
  <2> SUFFICES ASSUME TaskPostCollect PROVE FALSE
      OBVIOUS
  <2>1. catalog'[j] = IF j \in NewlyCreating THEN "creating" ELSE catalog[j]
        BY DEF TaskPostCollect
  <2> QED  BY <2>1
<1>9. ~Recover
  <2> SUFFICES ASSUME Recover PROVE FALSE
      OBVIOUS
  <2>1. catalog'[j] = IF catalog[j] = "initial" THEN "dropped" ELSE catalog[j]
        BY Zenon DEF Recover, CleanedCatalog
  <2> QED  BY <2>1
<1>10. TaskFinishJobs
      BY <1>2, <1>3, <1>4, <1>5, <1>6, <1>7, <1>8, <1>9 DEF Next
<1>11. catalog'[j] = IF j \in task.fin THEN "created" ELSE catalog[j]
      BY <1>10 DEF TaskFinishJobs
<1> QED  BY <1>10, <1>11

\* A job is reported as created (finish_creating_job) only when its tables are
\* committed up to the database's epoch.
THEOREM CreatedOnlyWhenCaughtUpTheorem == Spec => CreatedOnlyWhenCaughtUp
<1>1. ASSUME Inv, [Next]_vars
      PROVE  [\A j \in Jobs : catalog[j] = "creating" /\ catalog'[j] = "created"
                => jobCommitted[j] = dbCommitted]_vars
  <2>1. CASE UNCHANGED vars
        BY <2>1
  <2>2. ASSUME Next, NEW j \in Jobs, catalog[j] = "creating", catalog'[j] = "created"
        PROVE  jobCommitted[j] = dbCommitted
    <3>1. TaskFinishJobs /\ j \in task.fin
          BY <1>1, <2>2, OnlyFinishCreates
    <3>2. task.step = "finish"
          BY <3>1 DEF TaskFinishJobs
    <3> QED  BY <1>1, <3>1, <3>2 DEF Inv, EpochInv, TaskInv
  <2> QED  BY <1>1, <2>1, <2>2
<1> QED  BY <1>1, CheckpointInvariant, PTL DEF Spec, CreatedOnlyWhenCaughtUp

------------------------------------------------------------------------------
(* Finished jobs and the checkpoint they wait for. *)

\* What a finishing or finished job waits for is a checkpoint that the database
\* has still to take.
AwaitedInv == \A w \in finWait \cup finGot : \E b \in DbPending : b.ckpt /\ b.prev = w[1]

\* The checkpoint the database takes next is not past the epoch of a finished
\* job: assert!(epoch <= collected_epoch.prev) in next_complete_barrier_task.
NoFinishedJobPassed == \A b \in CheckpointOf(DbPopped), w \in FinGotAfter : b.prev <= w[1]

\* The epochs after the scan of the jobs are those before it.
LEMMA ScanKeepsEpochs ==
  ASSUME Inv, NEW w \in FinWaitAfter \cup FinGotAfter
  PROVE  w \in finWait \cup finGot
<1>1. CASE w \in finWait \cup finGot
      BY <1>1
<1>2. CASE \E j \in FinishingNow : w = <<job[j].finishAt, j>>
  <2>1. PICK j \in FinishingNow : w = <<job[j].finishAt, j>>
        BY <1>2
  <2>2. j \in Jobs /\ Running(j) /\ job[j].phase = "finishing"
        BY FinishingHasNoFirst
  <2> QED  BY <2>1, <2>2 DEF Inv, CCInv, MergeInv
<1> QED  BY <1>1, <1>2 DEF FinWaitAfter, FinGotAfter

\* What the database pops.
LEMMA DbPoppedIs ==
  ASSUME Inv
  PROVE  /\ DbPopped \subseteq db.collected
         /\ \A b \in DbPopped : b.prev < DbBound
         /\ \A b, c \in CheckpointOf(DbPopped) : b.prev = c.prev
         /\ \A c \in CheckpointOf(DbPopped), b \in DbPending : b \notin DbPopped => c.prev < b.prev
         /\ \A b \in DbPending : b.prev \in Nat
<1>1. TypeInv /\ DbInv
      BY DEF Inv, CCInv, EpochInv
<1>2. /\ \A b \in DbPending : b.prev \in Nat
      /\ DbBound \in Int /\ GraphOrder(db)
      BY <1>1, TypeFacts, DbBoundWaits DEF DbInv
<1>3. PICK P : P = PoppedFrom(db, DbBound)
      OBVIOUS
<1>4. /\ P \subseteq db.collected
      /\ \A b \in P : b.prev < DbBound
      /\ \A b, c \in CheckpointOf(P) : b.prev = c.prev
      /\ \A c \in CheckpointOf(P), b \in db.collected : b \notin P => c.prev < b.prev
  <2>1. \A b \in db.collected : b.prev \in Nat
        BY <1>2 DEF DbPending
  <2> QED  BY <1>2, <1>3, <2>1, PoppedIsPrefix
<1>5. \A c \in CheckpointOf(P), b \in db.inflight : c.prev < b.prev
      BY <1>2, <1>4 DEF GraphOrder, CheckpointOf
<1> QED  BY <1>2, <1>3, <1>4, <1>5 DEF DbPopped, DbPending

\* A new barrier is added to what the database has still to take.
LEMMA InjectAdds ==
  ASSUME Inv, NEW ck, NEW tabs, InjectDb(ck, tabs)
  PROVE  \E nb : /\ nb.prev = nextEpoch /\ nb.ckpt = ck
                 /\ DbPending' = DbPending \cup {nb}
<1>1. PICK nb : nb = [prev |-> nextEpoch, curr |-> nextEpoch + 1, ckpt |-> ck,
                      eps |-> Append(nonCkpt, nextEpoch), tabs |-> tabs]
      OBVIOUS
<1>2. db \in Graphs(DbBarriers)
      BY DEF Inv, CCInv, TypeInv
<1>3. db' = [db EXCEPT !.inflight = @ \cup {nb}]
      BY <1>1 DEF InjectDb
<1>4. db'.inflight = db.inflight \cup {nb} /\ db'.collected = db.collected
      BY <1>2, <1>3 DEF Graphs
<1>5. nb.prev = nextEpoch /\ nb.ckpt = ck
      BY <1>1
<1> QED  BY <1>4, <1>5 DEF DbPending

\* What is popped leaves the database's graph.
LEMMA PendingStarts ==
  ASSUME Inv, NEW more \in SUBSET Jobs, StartTask(more)
  PROVE  DbPending' = DbPending \ DbPopped
<1>1. PICK P : P = DbPopped
      OBVIOUS
<1>2. P \subseteq db.collected /\ \A b \in DbPending : b.prev \in Nat
      BY <1>1, DbPoppedIs
<1>3. db \in Graphs(DbBarriers) /\ GraphOrder(db)
      BY DEF Inv, CCInv, EpochInv, TypeInv, DbInv
<1>4. db'.inflight = db.inflight /\ db'.collected = db.collected \ P
  <2>1. db' = StartCompletingGraph(db, DbBound)
        BY DEF StartTask
  <2>2. db' = [inflight |-> db.inflight,
               collected |-> db.collected \ PoppedFrom(db, DbBound),
               completing |-> {b.prev : b \in CheckpointOf(PoppedFrom(db, DbBound))}]
        BY <1>3, <2>1, StartCompletingFields
  <2> QED  BY <1>1, <2>2 DEF DbPopped
<1>5. \A b \in db.inflight : b \notin P
  <2> SUFFICES ASSUME NEW b \in db.inflight, b \in P PROVE FALSE
      OBVIOUS
  <2>1. b.prev < b.prev /\ b.prev \in Nat
        BY <1>2, <1>3 DEF GraphOrder, DbPending
  <2> QED  BY <2>1
<1> QED  BY <1>1, <1>2, <1>4, <1>5 DEF DbPending

\* The awaited checkpoint stays until the task takes it with its jobs.
LEMMA AwaitedStart ==
  ASSUME Inv, AwaitedInv, NEW more \in SUBSET Jobs, StartTask(more)
  PROVE  AwaitedInv'
<1>1. PICK P : P = DbPopped
      OBVIOUS
<1>2. /\ P \subseteq db.collected /\ \A b \in P : b.prev < DbBound
      /\ \A b \in DbPending : b.prev \in Nat
      BY <1>1, DbPoppedIs
<1>3. DbPending' = DbPending \ P
      BY <1>1, PendingStarts
<1>4. ASSUME NEW w \in FinWaitAfter \cup (FinGotAfter \ FinishedNow)
      PROVE  \E b \in DbPending \ P : b.ckpt /\ b.prev = w[1]
  <2>1. w \in finWait \cup finGot
        BY ScanKeepsEpochs
  <2>2. PICK b \in DbPending : b.ckpt /\ b.prev = w[1]
        BY <2>1 DEF AwaitedInv
  <2>3. b \notin P
    <3> SUFFICES ASSUME b \in P PROVE FALSE
        OBVIOUS
    <3>1. CASE w \in FinWaitAfter
      <4>1. DbBound \in Int /\ DbBound <= w[1]
            BY <3>1, DbBoundWaits DEF Inv, CCInv
      <4>2. b.prev < DbBound /\ b.prev \in Nat
            BY <1>2
      <4> QED  BY <2>2, <4>1, <4>2
    <3>2. CASE w \in FinGotAfter \ FinishedNow
      <4>1. b \in CheckpointOf(DbPopped)
            BY <1>1, <2>2 DEF CheckpointOf
      <4> QED  BY <2>2, <3>2, <4>1 DEF FinishedNow
    <3> QED  BY <3>1, <3>2
  <2> QED  BY <2>2, <2>3
<1>5. finWait' = FinWaitAfter /\ finGot' = FinGotAfter \ FinishedNow
      BY DEF StartTask
<1> QED  BY <1>3, <1>4, <1>5 DEF AwaitedInv

LEMMA AwaitedNext == Inv /\ AwaitedInv /\ [Next]_vars => AwaitedInv'
<1> SUFFICES ASSUME Inv, AwaitedInv, [Next]_vars PROVE AwaitedInv'
    OBVIOUS
\* More to take, and no other job waits.
<1>1. ASSUME DbPending \subseteq DbPending', finWait' = finWait, finGot' = finGot
      PROVE  AwaitedInv'
      BY <1>1 DEF AwaitedInv
<1>2. ASSUME db' = db, finWait' = finWait, finGot' = finGot
      PROVE  AwaitedInv'
      BY <1>1, <1>2 DEF DbPending
<1>3. CASE UNCHANGED vars
      BY <1>2, <1>3 DEF vars, memory
<1>4. ASSUME NEW ck \in BOOLEAN, PeriodicBarrier(ck) PROVE AwaitedInv'
  <2>1. PICK M : /\ M = {j \in Jobs : ck /\ ShouldMergeToUpstream(job[j])}
        OBVIOUS
  <2>2. /\ InjectDb(ck, TableIdsToCommit(M)) /\ finGot' = finGot
        /\ finWait' = finWait \cup {<<nextEpoch, j>> : j \in M}
        BY <1>4, <2>1, Zenon DEF PeriodicBarrier
  <2>3. PICK nb : /\ nb.prev = nextEpoch /\ nb.ckpt = ck
                  /\ DbPending' = DbPending \cup {nb}
        BY <2>2, InjectAdds
  <2>4. ASSUME NEW w \in finWait' \cup finGot'
        PROVE  \E b \in DbPending' : b.ckpt /\ b.prev = w[1]
    <3>1. CASE w \in finWait \cup finGot
          BY <2>3, <3>1 DEF AwaitedInv
    <3>2. CASE \E j \in M : w = <<nextEpoch, j>>
      <4>1. PICK j \in M : w = <<nextEpoch, j>>
            BY <3>2
      <4>2. ck
            BY <2>1, <4>1
      <4>3. nb \in DbPending' /\ nb.ckpt /\ nb.prev = w[1]
        <5>1. w[1] = nextEpoch
              BY <4>1
        <5> QED  BY <2>3, <4>2, <5>1, Zenon
      <4> QED  BY <4>3
    <3> QED  BY <2>2, <3>1, <3>2
  <2> QED  BY <2>4 DEF AwaitedInv
<1>5. ASSUME NEW j \in Jobs, CreateJob(j) \/ DropInDatabase(j) PROVE AwaitedInv'
  <2>1. /\ InjectDb(TRUE, TableIdsToCommit({})) /\ finWait' = finWait /\ finGot' = finGot
        BY <1>5, Zenon DEF CreateJob, DropInDatabase
  <2>2. \E nb : DbPending' = DbPending \cup {nb}
        BY <2>1, InjectAdds
  <2> QED  BY <1>1, <2>1, <2>2
<1>6. ASSUME NEW j \in Jobs,
             \/ DropInCatalog(j) \/ DropIndependently(j) \/ JobReset(j) \/ JobCollect(j)
             \/ JobFinishesNode(j) \/ JobFinishesSnapshot(j) \/ JobFinishesLogStore(j)
      PROVE  AwaitedInv'
  <2>1. db' = db /\ finWait' = finWait /\ finGot' = finGot
        BY <1>6 DEF DropInCatalog, DropIndependently, JobReset, JobCollect,
                    JobFinishesNode, JobFinishesSnapshot, JobFinishesLogStore, JobCollects
  <2> QED  BY <1>2, <2>1
<1>7. CASE DbCollect
  <2>1. db' = CollectFirst(db) /\ finWait' = finWait /\ finGot' = finGot
        BY <1>7 DEF DbCollect
  <2>2. db \in Graphs(DbBarriers)
        BY DEF Inv, CCInv, TypeInv
  <2>3. PICK f : db' = [inflight |-> db.inflight \ {f}, collected |-> db.collected \cup {f},
                        completing |-> db.completing]
        BY <2>1, <2>2, CollectFirstFields
  <2>4. DbPending \subseteq DbPending'
        BY <2>3 DEF DbPending
  <2> QED  BY <1>1, <2>1, <2>4
<1>8. ASSUME NEW more \in SUBSET Jobs, StartTask(more) PROVE AwaitedInv'
      BY <1>8, AwaitedStart
<1>9. CASE TaskCommit \/ TaskPostCollect \/ TaskFinishJobs \/ TruncateFetch \/ TruncateApply
           \/ Recover
  <2>1. db' = db /\ finWait' = finWait /\ finGot' = finGot
        BY <1>9 DEF TaskCommit, TaskPostCollect, TaskFinishJobs, TruncateFetch,
                    TruncateApply, Recover, memory
  <2> QED  BY <1>2, <2>1
<1>10. CASE TaskAck
  <2>1. db' = [db EXCEPT !.completing = {}] /\ finWait' = finWait /\ finGot' = finGot
        BY <1>10, Zenon DEF TaskAck
  <2>2. db \in Graphs(DbBarriers)
        BY DEF Inv, CCInv, TypeInv
  <2>3. DbPending' = DbPending
        BY <2>1, <2>2 DEF DbPending, Graphs
  <2> QED  BY <1>1, <2>1, <2>3
<1>11. CASE Crash \/ TaskFails
      BY <1>11 DEF Crash, TaskFails, LoseMemory, AwaitedInv
<1>12. ASSUME NEW S \in Commands, NEW mutates \in BOOLEAN, OtherCommand(S, mutates)
       PROVE  AwaitedInv'
  <2>1. /\ InjectDb(TRUE, TableIdsToCommit({})) /\ finWait' = finWait /\ finGot' = finGot
        BY <1>12, Zenon DEF OtherCommand
  <2>2. \E nb : DbPending' = DbPending \cup {nb}
        BY <2>1, InjectAdds
  <2> QED  BY <1>1, <2>1, <2>2
<1> QED  BY <1>3, <1>4, <1>5, <1>6, <1>7, <1>8, <1>9, <1>10, <1>11, <1>12 DEF Next

\* Whatever merges, finishes and fails, the checkpoint the database completes is
\* never past a job that has finished and waits to be committed with it: the
\* assert! over finishing_jobs_collector in next_complete_barrier_task holds.
THEOREM NoFinishedJobPassedTheorem == Spec => []NoFinishedJobPassed
<1>1. Init => AwaitedInv
      BY DEF Init, AwaitedInv
<1>2. Inv /\ AwaitedInv /\ [Next]_vars => AwaitedInv'
      BY AwaitedNext
<1>3. ASSUME Inv, AwaitedInv PROVE NoFinishedJobPassed
  <2> SUFFICES ASSUME NEW c \in CheckpointOf(DbPopped), NEW w \in FinGotAfter
               PROVE  c.prev <= w[1]
      BY DEF NoFinishedJobPassed
  <2>1. PICK b \in DbPending : b.ckpt /\ b.prev = w[1]
    <3>1. w \in finWait \cup finGot
          BY <1>3, ScanKeepsEpochs
    <3> QED  BY <1>3, <3>1 DEF AwaitedInv
  <2>2. /\ DbPopped \subseteq DbPending /\ b.prev \in Nat
        /\ \A x, y \in CheckpointOf(DbPopped) : x.prev = y.prev
        /\ b \notin DbPopped => c.prev < b.prev
        BY <1>3, DbPoppedIs DEF DbPending
  <2>3. c.prev \in Nat
        BY <1>3, <2>2, DbPoppedIs DEF CheckpointOf
  <2>4. CASE b \in DbPopped
    <3>1. b \in CheckpointOf(DbPopped)
          BY <2>1, <2>4 DEF CheckpointOf
    <3> QED  BY <2>1, <2>2, <3>1
  <2>5. CASE b \notin DbPopped
        BY <2>1, <2>2, <2>3, <2>5
  <2> QED  BY <2>4, <2>5
<1> QED  BY <1>1, <1>2, <1>3, CheckpointInvariant, PTL DEF Spec

=============================================================================
