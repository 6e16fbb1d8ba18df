------------------------ MODULE PartialGraphRecovery ------------------------
(***************************************************************************)
(* How databases fail and recover: the meta node's PartialGraphManager     *)
(* (meta/src/barrier/partial_graph.rs), the recovery state of each         *)
(* database (checkpoint/recovery.rs), global recovery (worker.rs), the     *)
(* control streams (rpc.rs) and the LocalBarrierWorker at their other end  *)
(* (stream/src/task/barrier_worker).                                       *)
(*                                                                         *)
(* A database runs in one partial graph and each job it is creating in one *)
(* of its own.  On a failure the meta node resets these graphs on every    *)
(* connected worker, and builds them again under a new term once all have  *)
(* answered.  Messages carry the graph's id and no term, so that an answer *)
(* of the graph's previous life can only be told by its place in the       *)
(* stream.  Both ends assert that no message comes at a wrong time.        *)
(***************************************************************************)
EXTENDS Integers, Sequences, SequencesExt, FiniteSets

CONSTANTS
  Workers,
  Databases,
  JobDatabases, \* databases that may be creating a job
  MaxFaults,    \* bound: failures of any kind
  MaxBarrier,   \* bound: barriers of a graph in one term
  MaxExchange   \* bound: exchange requests

ASSUME RecoveryAssumption ==
  /\ IsFiniteSet(Databases) /\ JobDatabases \subseteq Databases
  /\ MaxFaults \in Nat /\ MaxBarrier \in Nat /\ MaxExchange \in Nat

Main(d) == <<d, "main">>
JobOf(d) == <<d, "job">>
Graphs == {Main(d) : d \in Databases} \cup {JobOf(d) : d \in JobDatabases}
GraphsOf(d) == {g \in Graphs : g[1] = d}

VARIABLES
  phase,    \* "boot", "injecting" and "global" in global recovery, "running"
  stage,    \* per database: DatabaseCheckpointControlStatus, "absent", or
            \* "pending" until global recovery comes to it
  waits,    \* per database: graphs still resetting, or initializing
  backoff,  \* per database: the retry backoff has not passed
  job,      \* per database: its IndependentCheckpointJobControl
  graph,    \* PartialGraphManager.graphs: status, term, current barrier and
            \* the workers it still waits for
  nodes,    \* per graph: the workers its actors are on
  lastTerm,
  conn,     \* per worker: its control stream is connected
  reqs, resps,  \* per worker: the two directions of the stream
  cn,       \* per worker and graph: PartialGraphStatus on the compute node
  batches,  \* per worker: sets of graphs being reset together
  xreq,     \* exchange requests under way
  xsent, faults,
  panic     \* an assertion of the code failed

metaVars == <<phase, stage, waits, backoff, job, graph, nodes, lastTerm>>
cnVars   == <<cn, batches>>
xVars    == <<xreq, xsent>>
vars == <<metaVars, cnVars, xVars, conn, reqs, resps, faults, panic>>

NoGraph == [st |-> "none", term |-> 0, epoch |-> 0, left |-> {}]
NoState == [st |-> "none", term |-> 0, actors |-> FALSE, issued |-> <<>>,
            outs |-> {}]

Connected == {w \in Workers : conn[w]}

CreateGraph(g, t) == [type |-> "create", g |-> g, term |-> t]
\* kind: the barrier builds the graph's actors, stops them, or does neither.
Inject(g, t, e, kind) ==
  [type |-> "inject", g |-> g, term |-> t, epoch |-> e, kind |-> kind]
RemoveGraph(g) == [type |-> "remove", g |-> g]
ResetGraphs(G) == [type |-> "reset", gs |-> G]

\* Answers; their term is not in the message, it is there for the properties.
Complete(g, t, e) == [type |-> "complete", g |-> g, term |-> t, epoch |-> e]
Failure(g, t) == [type |-> "failure", g |-> g, term |-> t]
ResetDone(g) == [type |-> "done", g |-> g]

\* The request queues r after message m is sent to the workers W.
Post(r, W, m) == [w \in Workers |-> IF w \in W THEN Append(r[w], m) ELSE r[w]]

Init ==
  /\ phase = "boot"
  /\ stage = [d \in Databases |-> "absent"]
  /\ waits = [d \in Databases |-> {}]
  /\ backoff = [d \in Databases |-> FALSE]
  /\ job = [d \in Databases |-> "none"]
  /\ graph = [g \in Graphs |-> NoGraph]
  /\ nodes = [g \in Graphs |-> {}]
  /\ lastTerm = 0
  /\ conn = [w \in Workers |-> FALSE]
  /\ reqs = [w \in Workers |-> <<>>]
  /\ resps = [w \in Workers |-> <<>>]
  /\ cn = [w \in Workers |-> [g \in Graphs |-> NoState]]
  /\ batches = [w \in Workers |-> {}]
  /\ xreq = {} /\ xsent = 0
  /\ faults = 0
  /\ panic = FALSE

Fault == faults < MaxFaults /\ faults' = faults + 1

------------------------------------------------------------------------------
(* PartialGraphManager: the graphs, and the requests that go with them. *)

\* (Mistake) Only workers that have the graph's actors are waited for.
RemainingActorNodes(g, C) == C \cap nodes[g]

\* The workers a reset waits for: all that it was sent to.
RemainingWorkers(g, C) == C

\* reset_partial_graphs, in graphs gr and queues rq, connected workers C.
ResetPartialGraphs(gr, rq, C, G) ==
  [graph |-> [g \in Graphs |->
                IF g \in G
                THEN [st |-> "resetting", term |-> 0, epoch |-> 0,
                      left |-> RemainingWorkers(g, C)]
                ELSE gr[g]],
   reqs  |-> IF G = {} THEN rq ELSE Post(rq, C, ResetGraphs(G)),
   bad   |-> \E g \in G : gr[g].st = "resetting"]

\* inject_barrier sends to one worker after the other until one is not
\* connected; early: before any was sent.
InjectTo(rq, C, g, t, e, kind, N, early) ==
  IF N \subseteq C \/ ~early THEN Post(rq, N \cap C, Inject(g, t, e, kind))
  ELSE rq

\* recover_graph.
RecoverGraph(s, C, g, t, N, early) ==
  LET sent == InjectTo(Post(s.reqs, C, CreateGraph(g, t)), C, g, t, 1, "build",
                       N, early)
  IN  [graph |-> IF N \subseteq C
                 THEN [s.graph EXCEPT ![g] = [st |-> "initializing", term |-> t,
                                              epoch |-> 1, left |-> N]]
                 ELSE s.graph,
       reqs  |-> sent,
       ok    |-> N \subseteq C,
       added |-> s.added \cup {g},
       bad   |-> s.bad \/ s.graph[g].st # "none"]

\* inject_database_initial_barrier, the database's graph and then its job's;
\* a failure resets what was added.
InjectDatabaseInitialBarrier(s0, C, d, t, p, early) ==
  LET main == RecoverGraph(s0, C, Main(d), t, p[Main(d)], early)
      all  == IF main.ok /\ JobOf(d) \in DOMAIN p
              THEN RecoverGraph(main, C, JobOf(d), t, p[JobOf(d)], early)
              ELSE main
      back == ResetPartialGraphs(all.graph, all.reqs, C, all.added)
  IN  IF all.ok THEN all
      ELSE [graph |-> back.graph, reqs |-> back.reqs, ok |-> FALSE,
            added |-> all.added, bad |-> all.bad \/ back.bad]

------------------------------------------------------------------------------
(* The recovery state of a database. *)

\* (Mistake) A job that is being dropped is reset again.
NewResetsAgain(d) ==
  {Main(d)} \cup (IF job[d] # "none" THEN {JobOf(d)} ELSE {})

\* (Mistake) The job's graph is forgotten.
NewResetsMain(d) == {Main(d)}

\* The graphs to reset when database d fails: the database's own and its
\* job's, unless a drop is already resetting it.
NewResets(d) ==
  {Main(d)} \cup (IF job[d] \in {"running", "finishing"} THEN {JobOf(d)} ELSE {})

AlreadyResetting(d) == IF job[d] = "resetting" THEN {JobOf(d)} ELSE {}

\* What is left of the job of a database that fails: a dropped one is gone.
JobLost(d) == IF job[d] \in {"resetting", "gone"} THEN "gone" ELSE "none"

\* on_report_failure and EnterReset for the databases F that run or are
\* initializing, with graphs gr, queues rq and connected workers C: one reset
\* request for each.
EnterReset(F0, gr, rq, C) ==
  LET F == {d \in F0 : stage[d] \in {"running", "initializing"}}
      R == UNION {NewResets(d) : d \in F}
  IN /\ graph' = [g \in Graphs |->
                    IF g \in R THEN [st |-> "resetting", term |-> 0, epoch |-> 0,
                                    left |-> RemainingWorkers(g, C)]
                    ELSE gr[g]]
     /\ reqs' = [w \in Workers |->
                   IF w \in C THEN rq[w] \o SetToSeq({ResetGraphs(NewResets(d)) : d \in F})
                   ELSE rq[w]]
     /\ panic' = (panic \/ \E g \in R : gr[g].st = "resetting")
     /\ stage' = [d \in Databases |-> IF d \in F THEN "resetting" ELSE stage[d]]
     /\ waits' = [d \in Databases |->
                    IF d \in F THEN NewResets(d) \cup AlreadyResetting(d) ELSE waits[d]]
     /\ backoff' = [d \in Databases |->
                      IF d \in F THEN stage[d] = "initializing" ELSE backoff[d]]
     /\ job' = [d \in Databases |->
                  IF d \in F THEN JobLost(d) ELSE job[d]]

\* The event of a graph that was reset on every worker.
OnPartialGraphReset(g) ==
  LET d == g[1]
  IN CASE stage[d] = "resetting" ->
            /\ panic' = (panic \/ g \notin waits[d])
            /\ waits' = [waits EXCEPT ![d] = @ \ {g}]
            /\ job' = job
       [] stage[d] = "running" ->
            /\ panic' = (panic \/ g = Main(d) \/ job[d] # "resetting")
            /\ job' = [job EXCEPT ![d] = "gone"]
            /\ waits' = waits
       [] OTHER -> panic' = TRUE /\ UNCHANGED <<waits, job>>

\* The event of a graph whose initial barrier was collected.
OnPartialGraphInitialized(g) ==
  LET d == g[1]
  IN /\ panic' = (panic \/ stage[d] # "initializing" \/ g \notin waits[d])
     /\ waits' = [waits EXCEPT ![d] = @ \ {g}]

\* Where the rendered actors of database d go: one set of workers for each of
\* its graphs.  A job that was dropped, or is part of the database, has none.
Placements(d) ==
  LET W == (SUBSET Workers) \ {{}}
  IN  [{Main(d)} -> W]
        \cup (IF d \in JobDatabases /\ JobLost(d) # "gone"
              THEN [{Main(d), JobOf(d)} -> W] ELSE {})

Placed(p) == [g \in Graphs |-> IF g \in DOMAIN p THEN p[g] ELSE nodes[g]]
JobAfter(d, p) == IF JobOf(d) \in DOMAIN p THEN "running" ELSE JobLost(d)

\* The runtime info was reloaded: the initial barriers are injected.
EnterInitializing(d) ==
  /\ phase = "running"
  /\ stage[d] = "resetting" /\ waits[d] = {} /\ ~backoff[d]
  /\ \E p \in Placements(d) :
       LET s == InjectDatabaseInitialBarrier(
                  [graph |-> graph, reqs |-> reqs, added |-> {}, bad |-> FALSE],
                  Connected, d, lastTerm + 1, p, FALSE)
       IN /\ s.ok
          /\ graph' = s.graph /\ reqs' = s.reqs
          /\ panic' = (panic \/ s.bad)
          /\ nodes' = Placed(p)
          /\ waits' = [waits EXCEPT ![d] = s.added]
          /\ job' = [job EXCEPT ![d] = JobAfter(d, p)]
  /\ stage' = [stage EXCEPT ![d] = "initializing"]
  /\ lastTerm' = lastTerm + 1
  /\ UNCHANGED <<phase, backoff, conn, resps, cnVars, xVars, faults>>

\* The injection fails at a worker that is not connected.
FailInitializing(d) ==
  /\ phase = "running" /\ Fault
  /\ stage[d] = "resetting" /\ waits[d] = {} /\ ~backoff[d]
  /\ \E p \in Placements(d), early \in BOOLEAN :
       LET s == InjectDatabaseInitialBarrier(
                  [graph |-> graph, reqs |-> reqs, added |-> {}, bad |-> FALSE],
                  Connected, d, lastTerm + 1, p, early)
       IN /\ ~s.ok
          /\ graph' = s.graph /\ reqs' = s.reqs
          /\ panic' = (panic \/ s.bad)
          /\ waits' = [waits EXCEPT ![d] = s.added]
  /\ backoff' = [backoff EXCEPT ![d] = TRUE]
  /\ lastTerm' = lastTerm + 1
  /\ UNCHANGED <<phase, stage, job, nodes, conn, resps, cnVars, xVars>>

\* fail_reload_runtime_info.
FailReload(d) ==
  /\ phase = "running" /\ Fault
  /\ stage[d] = "resetting" /\ waits[d] = {} /\ ~backoff[d]
  /\ backoff' = [backoff EXCEPT ![d] = TRUE]
  /\ UNCHANGED <<phase, stage, waits, job, graph, nodes, lastTerm, conn, reqs,
                 resps, cnVars, xVars, panic>>

\* The runtime info is empty: the database is gone.
RemoveDatabase(d) ==
  /\ phase = "running"
  /\ stage[d] = "resetting" /\ waits[d] = {} /\ ~backoff[d]
  /\ stage' = [stage EXCEPT ![d] = "absent"]
  /\ UNCHANGED <<phase, waits, backoff, job, graph, nodes, lastTerm, conn, reqs,
                 resps, cnVars, xVars, faults, panic>>

BackoffPasses(d) ==
  /\ phase = "running" /\ backoff[d]
  /\ backoff' = [backoff EXCEPT ![d] = FALSE]
  /\ UNCHANGED <<phase, stage, waits, job, graph, nodes, lastTerm, conn, reqs,
                 resps, cnVars, xVars, faults, panic>>

EnterRunning(d) ==
  /\ phase = "running"
  /\ stage[d] = "initializing" /\ waits[d] = {}
  /\ stage' = [stage EXCEPT ![d] = "running"]
  /\ UNCHANGED <<phase, waits, backoff, job, graph, nodes, lastTerm, conn, reqs,
                 resps, cnVars, xVars, faults, panic>>

------------------------------------------------------------------------------
(* Global recovery. *)

\* recovery_inner: connect to the workers C anew, which resets them.
GlobalRecover ==
  /\ \/ phase = "boot" /\ UNCHANGED faults
     \/ phase \in {"global", "running"} /\ Fault
  /\ \E C \in SUBSET Workers :
       /\ conn' = [w \in Workers |-> w \in C]
       /\ cn' = [w \in Workers |->
                   IF w \in C THEN [g \in Graphs |-> NoState] ELSE cn[w]]
       /\ batches' = [w \in Workers |-> IF w \in C THEN {} ELSE batches[w]]
  /\ graph' = [g \in Graphs |-> NoGraph]
  /\ nodes' = [g \in Graphs |-> {}]
  /\ reqs' = [w \in Workers |-> <<>>]
  /\ resps' = [w \in Workers |-> <<>>]
  /\ phase' = IF Databases = {} THEN "global" ELSE "injecting"
  /\ stage' = [d \in Databases |-> "pending"]
  /\ waits' = [d \in Databases |-> {}]
  /\ backoff' = [d \in Databases |-> FALSE]
  /\ job' = [d \in Databases |-> JobLost(d)]
  /\ UNCHANGED <<lastTerm, xVars, panic>>

\* The loop over the databases, before any event is polled: the initial barriers
\* of d are injected, or not, or d could not be rendered, or is empty.
GlobalInject(d) ==
  /\ phase = "injecting" /\ stage[d] = "pending"
  /\ \/ \E p \in Placements(d), early \in BOOLEAN :
          LET s == InjectDatabaseInitialBarrier(
                     [graph |-> graph, reqs |-> reqs, added |-> {}, bad |-> FALSE],
                     Connected, d, lastTerm + 1, p, early)
          IN /\ graph' = s.graph /\ reqs' = s.reqs
             /\ panic' = (panic \/ s.bad)
             /\ waits' = [waits EXCEPT ![d] = s.added]
             /\ stage' = [stage EXCEPT ![d] = IF s.ok THEN "initializing" ELSE "resetting"]
             /\ nodes' = IF s.ok THEN Placed(p) ELSE nodes
             /\ job' = IF s.ok THEN [job EXCEPT ![d] = JobAfter(d, p)] ELSE job
             /\ lastTerm' = lastTerm + 1
     \/ /\ \E st \in {"resetting", "absent"} : stage' = [stage EXCEPT ![d] = st]
        /\ UNCHANGED <<graph, reqs, panic, waits, nodes, job, lastTerm>>
  /\ phase' = IF \E e \in Databases \ {d} : stage[e] = "pending" THEN phase ELSE "global"
  /\ UNCHANGED <<backoff, conn, resps, cnVars, xVars, faults>>

\* No initial barrier is left to collect: the databases run, or recover alone.
GlobalDone ==
  /\ phase = "global"
  /\ \A d \in Databases : stage[d] # "initializing"
  /\ phase' = "running"
  /\ backoff' = [d \in Databases |-> stage[d] = "resetting"]
  /\ UNCHANGED <<stage, waits, job, graph, nodes, lastTerm, conn, reqs, resps,
                 cnVars, xVars, faults, panic>>

------------------------------------------------------------------------------
(* Barriers of running databases, and the graphs made and removed on the way. *)

\* The next barrier of graph g, which waits for none; jobNext: the state of the
\* database's job after it.  A worker that is not connected fails the database.
NextBarrier(g, kind, jobNext) ==
  LET e == graph[g].epoch + 1
      rq == InjectTo(reqs, Connected, g, graph[g].term, e, kind, nodes[g], FALSE)
  IN /\ phase = "running" /\ stage[g[1]] = "running"
     /\ graph[g].left = {} /\ e <= MaxBarrier
     /\ IF nodes[g] \subseteq Connected
        THEN /\ graph' = [graph EXCEPT ![g].epoch = e, ![g].left = nodes[g]]
             /\ reqs' = rq
             /\ job' = [job EXCEPT ![g[1]] = jobNext]
             /\ UNCHANGED <<stage, waits, backoff, panic>>
        ELSE EnterReset({g[1]}, graph, rq, Connected)
     /\ UNCHANGED <<phase, nodes, lastTerm, conn, resps, cnVars, xVars, faults>>

InjectBarrier(g) ==
  /\ g = Main(g[1]) \/ job[g[1]] = "running"
  /\ NextBarrier(g, "plain", job[g[1]])

\* The barrier that stops the job's actors: its fragments join the database.
StopJob(d) == job[d] = "running" /\ NextBarrier(JobOf(d), "stop", "finishing")

\* add_partial_graph and the barrier that builds the actors of g on workers N.
AddGraph(g, t, N, early) ==
  [graph |-> [graph EXCEPT ![g] = [st |-> "running", term |-> t, epoch |-> 1, left |-> N]],
   reqs  |-> InjectTo(Post(reqs, Connected, CreateGraph(g, t)), Connected, g, t, 1,
                      "build", N, early),
   bad   |-> graph[g].st # "none",
   ok    |-> N \subseteq Connected]

\* The first streaming job of a database that has none.
CreateDatabase(d) ==
  /\ phase = "running" /\ stage[d] = "absent"
  /\ \E N \in (SUBSET Workers) \ {{}} :
       LET s == AddGraph(Main(d), lastTerm + 1, N, FALSE)
       IN /\ s.ok
          /\ graph' = s.graph /\ reqs' = s.reqs
          /\ panic' = (panic \/ s.bad)
          /\ nodes' = [nodes EXCEPT ![Main(d)] = N]
  /\ stage' = [stage EXCEPT ![d] = "running"]
  /\ lastTerm' = lastTerm + 1
  /\ UNCHANGED <<phase, waits, backoff, job, conn, resps, cnVars, xVars, faults>>

\* Its barrier cannot be injected: the new database fails.
CreateDatabaseFails(d) ==
  /\ phase = "running" /\ Fault /\ stage[d] = "absent"
  /\ \E N \in SUBSET Workers, early \in BOOLEAN :
       LET s == AddGraph(Main(d), lastTerm + 1, N, early)
           r == ResetPartialGraphs(s.graph, s.reqs, Connected, {Main(d)})
       IN /\ ~s.ok
          /\ graph' = r.graph /\ reqs' = r.reqs
          /\ panic' = (panic \/ s.bad \/ r.bad)
  /\ stage' = [stage EXCEPT ![d] = "resetting"]
  /\ waits' = [waits EXCEPT ![d] = {Main(d)}]
  /\ lastTerm' = lastTerm + 1
  /\ UNCHANGED <<phase, backoff, job, nodes, conn, resps, cnVars, xVars>>

CreateJob(d) ==
  /\ phase = "running" /\ stage[d] = "running"
  /\ d \in JobDatabases /\ job[d] = "none"
  /\ \E N \in (SUBSET Workers) \ {{}} :
       LET s == AddGraph(JobOf(d), graph[Main(d)].term, N, FALSE)
       IN /\ s.ok
          /\ graph' = s.graph /\ reqs' = s.reqs
          /\ panic' = (panic \/ s.bad)
          /\ nodes' = [nodes EXCEPT ![JobOf(d)] = N]
  /\ job' = [job EXCEPT ![d] = "running"]
  /\ UNCHANGED <<phase, stage, waits, backoff, lastTerm, conn, resps, cnVars, xVars,
                 faults>>

\* The new job's barrier cannot be injected.  Its graph is reset at once, and
\* the database fails with the job recorded as resetting.
CreateJobFails(d) ==
  /\ phase = "running" /\ Fault /\ stage[d] = "running"
  /\ d \in JobDatabases /\ job[d] = "none"
  /\ \E N \in SUBSET Workers, early \in BOOLEAN :
       LET s == AddGraph(JobOf(d), graph[Main(d)].term, N, early)
           r == ResetPartialGraphs(s.graph, s.reqs, Connected, {JobOf(d)})
           q == ResetPartialGraphs(r.graph, r.reqs, Connected, {Main(d)})
       IN /\ ~s.ok
          /\ graph' = q.graph /\ reqs' = q.reqs
          /\ panic' = (panic \/ s.bad \/ r.bad \/ q.bad)
  /\ stage' = [stage EXCEPT ![d] = "resetting"]
  /\ waits' = [waits EXCEPT ![d] = {Main(d), JobOf(d)}]
  /\ UNCHANGED <<phase, backoff, job, nodes, lastTerm, conn, resps, cnVars, xVars>>

\* IndependentCheckpointJobControl::drop.
DropJob(d) ==
  /\ phase = "running" /\ stage[d] = "running" /\ job[d] = "running"
  /\ LET r == ResetPartialGraphs(graph, reqs, Connected, {JobOf(d)})
     IN graph' = r.graph /\ reqs' = r.reqs /\ panic' = (panic \/ r.bad)
  /\ job' = [job EXCEPT ![d] = "resetting"]
  /\ UNCHANGED <<phase, stage, waits, backoff, nodes, lastTerm, conn, resps, cnVars,
                 xVars, faults>>

\* remove_partial_graphs, when that barrier was collected and completed.
FinishJob(d) ==
  LET g == JobOf(d)
  IN /\ phase = "running" /\ stage[d] = "running" /\ job[d] = "finishing"
     /\ graph[g].left = {}
     /\ panic' = (panic \/ graph[g].st # "running")
     /\ graph' = [graph EXCEPT ![g] = NoGraph]
     /\ reqs' = Post(reqs, Connected, RemoveGraph(g))
     /\ job' = [job EXCEPT ![d] = "gone"]
     /\ UNCHANGED <<phase, stage, waits, backoff, nodes, lastTerm, conn, resps, cnVars,
                    xVars, faults>>

------------------------------------------------------------------------------
(* Events of the control streams at the meta node.  Global recovery polls     *)
(* them only while a database is still initializing.                          *)

Polling ==
  \/ phase = "running"
  \/ phase = "global" /\ \E d \in Databases : stage[d] = "initializing"

\* In global recovery a database is collected as soon as its graphs are.
Initialized(g) ==
  LET d == g[1]
  IN /\ OnPartialGraphInitialized(g)
     /\ stage' = IF phase = "global" /\ waits[d] = {g}
                 THEN [stage EXCEPT ![d] = "running"] ELSE stage

\* The new state of graph g when worker w's barrier is complete.
Collected(g, w) ==
  LET left == graph[g].left \ {w}
  IN  [graph EXCEPT ![g].left = left,
                    ![g].st = IF @ = "initializing" /\ left = {} THEN "running" ELSE @]

MetaRecv(w) ==
  /\ Polling /\ conn[w] /\ resps[w] # <<>>
  /\ resps' = [resps EXCEPT ![w] = Tail(@)]
  /\ LET m == Head(resps[w])
         g == m.g
         s == graph[g]
     IN CASE s.st = "none" ->
               /\ panic' = TRUE
               /\ UNCHANGED <<stage, waits, backoff, job, graph, reqs>>
          [] s.st # "none" /\ m.type = "complete" ->
               IF s.st = "resetting" \/ m.epoch # s.epoch \/ w \notin s.left
               THEN /\ panic' = (panic \/ s.st # "resetting")
                    /\ UNCHANGED <<stage, waits, backoff, job, graph, reqs>>
               ELSE /\ graph' = Collected(g, w)
                    /\ IF s.st = "initializing" /\ s.left = {w}
                       THEN Initialized(g)
                       ELSE UNCHANGED <<stage, waits, panic>>
                    /\ UNCHANGED <<backoff, job, reqs>>
          [] s.st # "none" /\ m.type = "failure" ->
               IF s.st = "resetting"
               THEN UNCHANGED <<stage, waits, backoff, job, graph, reqs, panic>>
               ELSE EnterReset({g[1]}, graph, reqs, Connected)
          [] s.st # "none" /\ m.type = "done" ->
               IF s.st # "resetting" \/ w \notin s.left
               THEN panic' = TRUE /\ UNCHANGED <<stage, waits, backoff, job, graph, reqs>>
               ELSE /\ UNCHANGED <<stage, backoff, reqs>>
                    /\ IF s.left = {w}
                       THEN graph' = [graph EXCEPT ![g] = NoGraph] /\ OnPartialGraphReset(g)
                       ELSE graph' = [graph EXCEPT ![g].left = @ \ {w}]
                            /\ UNCHANGED <<waits, job, panic>>
  /\ UNCHANGED <<phase, nodes, lastTerm, conn, cnVars, xVars, faults>>

\* A reset that no worker is left to answer.
ResetCollected(g) ==
  /\ Polling
  /\ graph[g].st = "resetting" /\ graph[g].left = {}
  /\ graph' = [graph EXCEPT ![g] = NoGraph]
  /\ OnPartialGraphReset(g)
  /\ UNCHANGED <<phase, stage, backoff, nodes, lastTerm, conn, reqs, resps, cnVars,
                 xVars, faults>>

\* is_valid_after_worker_err: a job that is finishing has no fragments of its own.
OnWorker(d, w) ==
  \/ w \in nodes[Main(d)]
  \/ job[d] = "running" /\ w \in nodes[JobOf(d)]

\* (Mistake) Only databases with a barrier under way at the worker fail.
FailedDatabasesWaiting(w) ==
  {d \in Databases :
     /\ stage[d] \in {"initializing", "running"}
     /\ \E g \in GraphsOf(d) :
          graph[g].st \in {"running", "initializing"} /\ w \in graph[g].left}

\* The databases that fail with worker w: those with actors on it and those
\* with a graph that waits for it.  Global recovery asks only those that are
\* still initializing.
FailedDatabases(w) ==
  {d \in Databases :
     /\ \/ stage[d] = "initializing"
        \/ phase = "running" /\ stage[d] = "running"
     /\ \/ OnWorker(d, w)
        \/ \E g \in GraphsOf(d) :
             graph[g].st \in {"running", "initializing"} /\ w \in graph[g].left}

\* (Mistake) Resets go on waiting for the worker.
WorkerGoneKept(w) == graph

\* A worker that failed is not waited for by the graphs being reset.
WorkerGone(w) == [g \in Graphs |-> IF graph[g].st = "resetting"
                                   THEN [graph[g] EXCEPT !.left = @ \ {w}] ELSE graph[g]]

\* The control stream of w breaks, because the compute node crashes or not.
WorkerError(w) ==
  /\ Polling /\ conn[w] /\ Fault
  /\ conn' = [conn EXCEPT ![w] = FALSE]
  /\ resps' = [resps EXCEPT ![w] = <<>>]
  /\ EnterReset(FailedDatabases(w), WorkerGone(w), [reqs EXCEPT ![w] = <<>>], Connected \ {w})
  /\ \/ UNCHANGED cnVars
     \/ /\ cn' = [cn EXCEPT ![w] = [g \in Graphs |-> NoState]]
        /\ batches' = [batches EXCEPT ![w] = {}]
  /\ UNCHANGED <<phase, nodes, lastTerm, xVars>>

\* A new control stream: the compute node drops all it has, and is told of the
\* graphs that exist.
Reconnect(w) ==
  /\ Polling /\ ~conn[w]
  /\ conn' = [conn EXCEPT ![w] = TRUE]
  /\ cn' = [cn EXCEPT ![w] = [g \in Graphs |-> NoState]]
  /\ batches' = [batches EXCEPT ![w] = {}]
  /\ LET existing == {g \in Graphs : graph[g].st \in {"running", "initializing"}}
     IN reqs' = [reqs EXCEPT ![w] =
                   SetToSeq({CreateGraph(g, graph[g].term) : g \in existing})]
  /\ UNCHANGED <<metaVars, resps, xVars, faults, panic>>

------------------------------------------------------------------------------
(* The LocalBarrierWorker of a compute node. *)

Answer(w, m) == resps' = [resps EXCEPT ![w] = IF conn[w] THEN Append(@, m) ELSE @]

\* add_partial_graph: requests of actors that came early are kept if they are
\* of the graph's term.
CnCreate(w, m) ==
  LET s == cn[w][m.g]
  IN /\ panic' = (panic \/ s.st \notin {"none", "received"})
     /\ cn' = [cn EXCEPT ![w][m.g] =
                 [NoState EXCEPT !.st = "running", !.term = m.term,
                                 !.outs = s.outs \cap {m.term}]]
     /\ UNCHANGED <<batches, resps>>

\* send_barrier: a suspended graph ignores it; the actors that are to collect
\* it are being built or exist.
CnInject(w, m) ==
  LET s == cn[w][m.g]
  IN /\ panic' = (panic \/ s.st \in {"none", "received", "resetting"}
                        \/ (s.st = "running" /\ m.kind # "build" /\ ~s.actors))
     /\ cn' = IF s.st # "running" THEN cn
              ELSE [cn EXCEPT ![w][m.g].actors = TRUE,
                              ![w][m.g].issued = Append(@, [epoch |-> m.epoch,
                                                            stop |-> m.kind = "stop"])]
     /\ UNCHANGED <<batches, resps>>

CnRemove(w, m) ==
  LET s == cn[w][m.g]
  IN /\ panic' = (panic \/ s.st \in {"received", "resetting"}
                        \/ (s.st = "running" /\ s.issued # <<>>))
     /\ cn' = [cn EXCEPT ![w][m.g] = NoState]
     /\ UNCHANGED <<batches, resps>>

\* (Mistake) Graphs are acknowledged before their actors are gone.
CnResetAcksEarly(w, m) ==
  /\ panic' = panic
  /\ cn' = [cn EXCEPT ![w] = [g \in Graphs |->
              IF g \in m.gs THEN [@[g] EXCEPT !.st = "resetting"] ELSE @[g]]]
  /\ batches' = [batches EXCEPT ![w] = @ \cup {m.gs}]
  /\ resps' = [resps EXCEPT ![w] = @ \o SetToSeq({ResetDone(g) : g \in m.gs})]

\* reset_partial_graphs: graphs that are not there are acknowledged at once,
\* the others are reset together, by a task of their own.
CnReset(w, m) ==
  LET gone == {g \in m.gs : cn[w][g].st = "none"}
      here == m.gs \ gone
  IN /\ panic' = (panic \/ \E g \in m.gs : cn[w][g].st = "resetting")
     /\ cn' = [cn EXCEPT ![w] = [g \in Graphs |->
                 IF g \in here THEN [@[g] EXCEPT !.st = "resetting", !.issued = <<>>,
                                                 !.outs = {}]
                 ELSE @[g]]]
     /\ batches' = [batches EXCEPT ![w] = IF here = {} THEN @ ELSE @ \cup {here}]
     /\ resps' = [resps EXCEPT ![w] = @ \o SetToSeq({ResetDone(g) : g \in gone})]

CnHandle(w) ==
  /\ conn[w] /\ reqs[w] # <<>>
  /\ reqs' = [reqs EXCEPT ![w] = Tail(@)]
  /\ LET m == Head(reqs[w])
     IN CASE m.type = "create" -> CnCreate(w, m)
          [] m.type = "inject" -> CnInject(w, m)
          [] m.type = "remove" -> CnRemove(w, m)
          [] m.type = "reset"  -> CnReset(w, m)
  /\ UNCHANGED <<metaVars, conn, xVars, faults>>

\* All actors collected the barrier, and its epoch was synced.
CnComplete(w, g) ==
  LET s == cn[w][g]
      b == Head(s.issued)
  IN /\ s.st = "running" /\ s.issued # <<>>
     /\ cn' = [cn EXCEPT ![w][g].issued = Tail(@), ![w][g].actors = ~b.stop]
     /\ Answer(w, Complete(g, s.term, b.epoch))
     /\ UNCHANGED <<batches, reqs, panic>>
     /\ UNCHANGED <<metaVars, conn, xVars, faults>>

\* An actor fails: the graph is suspended and the failure reported.
CnFail(w, g) ==
  /\ Fault
  /\ cn[w][g].st = "running" /\ cn[w][g].actors
  /\ cn' = [cn EXCEPT ![w][g].st = "suspended", ![w][g].issued = <<>>]
  /\ Answer(w, Failure(g, cn[w][g].term))
  /\ UNCHANGED <<metaVars, conn, xVars, batches, reqs, panic>>

\* The actors of the graphs B are gone and their tables cleared.
CnResetDone(w) ==
  /\ \E B \in batches[w] :
       /\ batches' = [batches EXCEPT ![w] = @ \ {B}]
       /\ cn' = [cn EXCEPT ![w] = [g \in Graphs |-> IF g \in B THEN NoState ELSE @[g]]]
       /\ resps' = [resps EXCEPT ![w] =
                      IF conn[w] THEN @ \o SetToSeq({ResetDone(g) : g \in B}) ELSE @]
  /\ UNCHANGED <<reqs, panic>>
  /\ UNCHANGED <<metaVars, conn, xVars, faults>>

\* An actor of graph g on w asks for the output of one on worker v.
XSend(w, v, g) ==
  /\ xsent < MaxExchange
  /\ cn[w][g].actors
  /\ xreq' = xreq \cup {[to |-> v, g |-> g, term |-> cn[w][g].term]}
  /\ xsent' = xsent + 1
  /\ UNCHANGED <<metaVars, cnVars, conn, reqs, resps, faults, panic>>

\* (Mistake) A running graph takes any request.
XAcceptsAny(s, t) == s.st \in {"none", "received", "running"}

\* A request is kept for a graph that is not there yet; a running graph takes
\* those of its term.
XAccepts(s, t) == s.st \in {"none", "received"} \/ (s.st = "running" /\ s.term = t)

XDeliver ==
  \E x \in xreq :
    LET s == cn[x.to][x.g]
    IN /\ xreq' = xreq \ {x}
       /\ cn' = IF XAccepts(s, x.term)
                THEN [cn EXCEPT ![x.to][x.g].outs = @ \cup {x.term},
                                ![x.to][x.g].st = IF @ = "none" THEN "received" ELSE @]
                ELSE cn
       /\ UNCHANGED <<metaVars, batches, xsent, conn, reqs, resps, faults, panic>>

------------------------------------------------------------------------------
MetaStep(d) ==
  \/ EnterInitializing(d) \/ FailInitializing(d) \/ FailReload(d)
  \/ RemoveDatabase(d) \/ BackoffPasses(d) \/ EnterRunning(d)
  \/ CreateDatabase(d) \/ CreateDatabaseFails(d)
  \/ CreateJob(d) \/ CreateJobFails(d) \/ DropJob(d) \/ StopJob(d) \/ FinishJob(d)

Next ==
  \/ GlobalRecover \/ GlobalDone
  \/ \E d \in Databases : GlobalInject(d) \/ MetaStep(d)
  \/ \E g \in Graphs : InjectBarrier(g) \/ ResetCollected(g)
  \/ \E w \in Workers : MetaRecv(w) \/ WorkerError(w) \/ Reconnect(w)
                        \/ CnHandle(w) \/ CnResetDone(w)
  \/ \E w \in Workers, g \in Graphs : CnComplete(w, g) \/ CnFail(w, g)
  \/ \E w, v \in Workers, g \in Graphs : XSend(w, v, g)
  \/ XDeliver

Spec == Init /\ [][Next]_vars

\* The meta node's event loop and the compute nodes' go on; failures need not.
Fairness ==
  /\ WF_vars(GlobalDone)
  /\ \A d \in Databases :
       /\ WF_vars(GlobalInject(d)) /\ WF_vars(EnterInitializing(d))
       /\ WF_vars(BackoffPasses(d)) /\ WF_vars(EnterRunning(d))
  /\ \A g \in Graphs : WF_vars(ResetCollected(g))
  /\ \A w \in Workers :
       WF_vars(MetaRecv(w)) /\ WF_vars(Reconnect(w)) /\ WF_vars(CnHandle(w))
         /\ WF_vars(CnResetDone(w))
  /\ \A w \in Workers, g \in Graphs : WF_vars(CnComplete(w, g))

FairSpec == Spec /\ Fairness

------------------------------------------------------------------------------
(* Properties. *)

\* The variables have their types: a graph waits only for workers it was sent
\* to, and a compute node resets a graph in exactly one batch.
RTypeOK ==
  /\ \A g \in Graphs :
       /\ graph[g].st \in {"none", "running", "resetting", "initializing"}
       /\ graph[g].left \subseteq Connected
       /\ graph[g].st \in {"running", "initializing"} => graph[g].left \subseteq nodes[g]
  /\ \A w \in Workers, g \in Graphs :
       Cardinality({B \in batches[w] : g \in B}) =
         (IF cn[w][g].st = "resetting" THEN 1 ELSE 0)
  /\ \A d \in Databases : waits[d] \subseteq GraphsOf(d)

\* No assertion, `unreachable!` or `expect` of the meta node's or the compute
\* nodes' handlers fails, whatever the order of failures, resets and answers.
NoAssertFails == ~panic

\* The actors a barrier is to be collected from exist on the compute node it
\* reaches, unless their graph is suspended: transform_to_issued panics
\* otherwise.
InjectedActorsExist ==
  \A w \in Workers :
    conn[w] /\ reqs[w] # <<>> =>
      LET m == Head(reqs[w])
      IN m.type = "inject" /\ m.kind # "build" =>
           cn[w][m.g].actors \/ cn[w][m.g].st = "suspended"

\* The answers on their way from a worker are about the life of the graph that
\* the meta node has: none for a graph that it does not, and for one being
\* reset only from workers that are still waited for.  The messages do not say
\* which life they are of.
AnswersAreCurrent ==
  \A w \in Workers :
    \A i \in DOMAIN resps[w] :
      LET m == resps[w][i]
          s == graph[m.g]
      IN CASE s.st \in {"running", "initializing"} -> m.type # "done" /\ m.term = s.term
           [] s.st = "resetting" -> w \in s.left
           [] OTHER -> FALSE

\* When a database is built again, no actor of its previous life is left on a
\* connected worker.
OldActorsGone ==
  \A w \in Connected, g \in Graphs :
    graph[g].st \in {"none", "initializing", "running"} /\ cn[w][g].actors =>
      graph[g].st # "none" /\ cn[w][g].term = graph[g].term

\* A running graph hands its actors' outputs only to actors of its own term.
ExchangeSameTerm ==
  \A w \in Workers, g \in Graphs :
    cn[w][g].st = "running" => cn[w][g].outs \subseteq {cn[w][g].term}

\* The recovery state of a database and the manager's graphs agree: it waits
\* for exactly the graphs being reset or initialized, and runs the others.  The
\* variables are well typed.
RecoveryTracksGraphs ==
  RTypeOK /\ \A d \in Databases :
    LET with(x) == {g \in GraphsOf(d) : graph[g].st = x}
    IN CASE stage[d] \in {"absent", "pending"} -> with("none") = GraphsOf(d)
         [] stage[d] = "resetting" ->
              with("resetting") = waits[d] /\ with("none") = GraphsOf(d) \ waits[d]
         [] stage[d] = "initializing" ->
              with("initializing") = waits[d] /\ with("resetting") = {}
         [] OTHER ->
              /\ graph[Main(d)].st = "running" /\ waits[d] = {}
              /\ with("resetting") # {} <=> job[d] = "resetting"
              /\ JobOf(d) \in with("running") <=> job[d] \in {"running", "finishing"}

\* A database that fails runs again, or is gone: resets are answered or given
\* up with their workers, and retries come to an end with the failures.
RecoveryEnds ==
  \A d \in Databases :
    stage[d] \in {"pending", "resetting", "initializing"} ~> stage[d] \in {"running", "absent"}

=============================================================================
