------------------------- MODULE ManagedBarrierState -------------------------
(***************************************************************************)
(* One partial graph on one compute node: PartialGraphState and            *)
(* PartialGraphManagedBarrierState with their InflightActorStates          *)
(* (stream/src/task/barrier_worker/managed_state.rs), the barrier worker's *)
(* loop that completes what they collect (barrier_worker/mod.rs), and the  *)
(* actors, which talk to it through LocalBarrierManager                    *)
(* (task/barrier_manager/mod.rs).                                          *)
(*                                                                         *)
(* A barrier request creates, issues to and stops actors at once, but an   *)
(* actor is built concurrently: its executors subscribe to barriers one by *)
(* one, when more barriers may already have been issued to it.  Barriers   *)
(* go only to workers that have actors of the graph, so a worker that      *)
(* loses all of them and gets new ones later misses barriers in between.   *)
(*                                                                         *)
(* The barrier with prev epoch e has curr epoch e + 1.  The time a request *)
(* spends on the control stream is left out: what the meta node asks next  *)
(* depends on nothing this worker does in between.  A failed graph is      *)
(* suspended and reset; what follows is PartialGraphRecovery's subject.    *)
(***************************************************************************)
EXTENDS Integers, Sequences, SequencesExt, FiniteSets

CONSTANTS
  Actors,       \* actors that may be built on this worker
  NumReceivers, \* barrier subscriptions of an actor, one per source or merge
  Reporters,    \* actors with an executor that reports at every barrier
  Tables,
  MaxEpoch,     \* bound: barriers of the graph
  MaxInFlight,  \* bound: barriers not answered
  MaxFailures   \* bound: actors that fail

ASSUME ManagedAssumption ==
  /\ NumReceivers \in Nat \ {0}
  /\ Reporters \subseteq Actors
  /\ MaxEpoch \in Nat /\ MaxInFlight \in Nat /\ MaxFailures \in Nat

VARIABLES
  (* the meta node *)
  epoch,        \* prev epoch of the next barrier
  live,         \* actors of the graph on this worker
  tables,       \* tables of the graph, as far as this worker syncs them
  barriers,     \* barriers sent to this worker and not answered, in order
  answered,     \* the last one answered
  unsynced,     \* history: tables with an epoch no checkpoint was sent for
  (* the barrier worker *)
  graph,        \* PartialGraphStatus: "running", "suspended", or "panic"
  states,       \* actor_states
  map,          \* epoch_barrier_state_map, by prev epoch
  prevTables,   \* prev_barrier_table_ids: last barrier's curr epoch and tables
  reports,      \* per prev epoch: actors whose report is in the report maps
  completing,   \* await_epoch_completed_futures
  (* the actors *)
  events,       \* barrier_event_rx
  failures,     \* actor_failure_rx
  task,         \* per actor: its task
  rx,           \* per actor and subscription: barriers sent to it
  passed,       \* per actor: epoch of the last barrier it collected
  reported      \* history, per epoch in flight: actors that made a report

metaVars  == <<epoch, live, tables, barriers, answered, unsynced>>
graphVars == <<map, prevTables, reports>>
actorVars == <<task, rx, passed, reported>>
vars == <<metaVars, graph, states, graphVars, completing, events, failures,
          actorVars>>

Epochs == 1 .. MaxEpoch
Receivers == 1 .. NumReceivers

NoState == [inflight |-> <<>>, first |-> <<>>, max |-> 0, stopping |-> FALSE,
            senders |-> {}, exists |-> FALSE]

NoTables == [curr |-> 0, tables |-> {}]

Init ==
  /\ epoch = 1
  /\ live = {}
  /\ tables = {}
  /\ barriers = <<>>
  /\ answered = 0
  /\ unsynced = {}
  /\ graph = "running"
  /\ states = [a \in Actors |-> NoState]
  /\ map = <<>>
  /\ prevTables = NoTables
  /\ reports = [e \in Epochs |-> {}]
  /\ completing = <<>>
  /\ events = <<>>
  /\ failures = <<>>
  /\ task = [a \in Actors |-> "none"]
  /\ rx = [a \in Actors |-> [r \in Receivers |-> <<>>]]
  /\ passed = [a \in Actors |-> 0]
  /\ reported = [e \in Epochs |-> {}]

------------------------------------------------------------------------------
(* Issuing a barrier. *)

\* InflightActorState::start.
Started(e) == [NoState EXCEPT !.inflight = <<e>>, !.first = <<e>>, !.max = e,
                              !.exists = TRUE]

\* (Mistake) A barrier issued before the actor subscribed is not kept for it.
IssuedUnkept(s, e, stop) ==
  [s EXCEPT !.inflight = Append(@, e), !.max = e, !.stopping = @ \/ stop]

\* InflightActorState::issue_barrier, once it is sent to the subscriptions.
Issued(s, e, stop) ==
  [s EXCEPT !.inflight = Append(@, e),
            !.first = IF @ = <<>> THEN @ ELSE Append(@, e),
            !.max = e,
            !.stopping = @ \/ stop]

\* What issue_barrier asserts of the actor.
MayIssue(s, e, stop) == s.exists /\ e > s.max /\ (stop => ~s.stopping)

\* The tables a checkpoint syncs: those whose epoch the previous barrier
\* started, if this worker had that barrier.
TablesToSync(b) == IF prevTables.curr = b.epoch THEN prevTables.tables ELSE {}

\* What transform_to_issued asserts of the previous barrier.
FollowsPrevious(b) ==
  CASE b.kind = "initial"    -> prevTables = NoTables
    [] b.kind = "barrier"    -> \/ prevTables = NoTables
                                \/ prevTables = [curr |-> b.epoch, tables |-> b.tables]
    [] b.kind = "checkpoint" -> TRUE

\* A task whose receivers are dropped: a send to them fails.
Closed(a) == task[a] \in {"failing", "failed", "exited"}

\* The actors issue_barrier cannot reach.
Unreachable(b) == {a \in b.collect \ b.build : Closed(a) /\ states[a].senders # {}}

AssertsHold(b) ==
  /\ FollowsPrevious(b)
  /\ \A i \in DOMAIN map : map[i].epoch # b.epoch
  /\ \A a \in b.build : ~states[a].exists /\ a \in b.collect \ b.stop
  /\ \A a \in b.collect \ b.build : MayIssue(states[a], b.epoch, a \in b.stop)

\* transform_to_issued: the graph first, then the actors.  If one cannot be
\* reached, the graph is suspended and what was done is never looked at.
TransformToIssued(b) ==
  IF ~AssertsHold(b) \/ Unreachable(b) # {}
  THEN /\ graph' = IF AssertsHold(b) THEN "suspended" ELSE "panic"
       /\ completing' = <<>>
       /\ UNCHANGED <<states, graphVars, task, rx>>
  ELSE /\ map' = Append(map, [epoch |-> b.epoch, remaining |-> b.collect,
                              kind |-> b.kind, sync |-> TablesToSync(b)])
       /\ prevTables' = [curr |-> b.epoch + 1, tables |-> b.tables]
       /\ states' = [a \in Actors |->
                       CASE a \in b.build -> Started(b.epoch)
                         [] a \in b.collect \ b.build ->
                              Issued(states[a], b.epoch, a \in b.stop)
                         [] OTHER -> states[a]]
       /\ task' = [a \in Actors |-> IF a \in b.build THEN "building" ELSE task[a]]
       /\ rx' = [a \in Actors |-> [r \in Receivers |->
                   IF a \in b.collect \ b.build /\ r \in states[a].senders
                   THEN Append(rx[a][r], b.epoch) ELSE rx[a][r]]]
       /\ UNCHANGED <<graph, reports, completing>>

------------------------------------------------------------------------------
(* Collecting and completing barriers. *)

\* may_have_collected_all: the oldest barrier has been collected by all.
CollectedAll(m) == m # <<>> /\ Head(m).remaining = {}

\* The future of a completed barrier; only a checkpoint has something to await.
FutureOf(b, rep) ==
  [epoch |-> b.epoch, kind |-> b.kind, sync |-> b.sync, reports |-> rep[b.epoch],
   done |-> b.kind # "checkpoint"]

\* may_have_collected_all and, if it returns a barrier, complete_barrier: its
\* reports leave the maps, and its future, which for a checkpoint syncs the
\* state store, is queued behind those of older barriers.
Completed(m, rep) ==
  IF CollectedAll(m)
  THEN /\ map' = Tail(m)
       /\ completing' = Append(completing, FutureOf(Head(m), rep))
       /\ reports' = [rep EXCEPT ![Head(m).epoch] = {}]
  ELSE map' = m /\ reports' = rep /\ completing' = completing

\* (Mistake) It is only looked for when an event arrives.
PollCollectedOnEvent ==
  /\ graph = "running"
  /\ failures = <<>> /\ events # <<>>
  /\ CollectedAll(map)
  /\ Completed(map, reports)
  /\ UNCHANGED <<metaVars, graph, states, prevTables, events, failures, actorVars>>

\* poll_next_event yields a barrier collected earlier.
PollCollected ==
  /\ graph = "running"
  /\ failures = <<>>
  /\ CollectedAll(map)
  /\ Completed(map, reports)
  /\ UNCHANGED <<metaVars, graph, states, prevTables, events, failures,
                 actorVars>>

\* on_partial_graph_failure: the graph is suspended, its futures dropped.
Suspend ==
  /\ graph' = "suspended"
  /\ completing' = <<>>

\* An actor failed.
PollFailure ==
  /\ graph = "running"
  /\ failures # <<>>
  /\ failures' = Tail(failures)
  /\ Suspend
  /\ UNCHANGED <<metaVars, states, graphVars, events, actorVars>>

\* The next event of the actors.
NextEvent(kind) ==
  /\ graph = "running"
  /\ events # <<>>
  /\ Head(events).kind = kind
  /\ events' = Tail(events)

\* register_barrier_sender: the new subscription gets every barrier issued so
\* far.  It is too late once the actor has collected one.
PollRegister ==
  /\ NextEvent("register")
  /\ LET a == Head(events).actor
         r == Head(events).rx
     IN IF states[a].first = <<>> \/ Closed(a)
        THEN /\ graph' = IF states[a].first = <<>> THEN "panic" ELSE "suspended"
             /\ completing' = <<>>
             /\ UNCHANGED <<states, rx>>
        ELSE /\ rx' = [rx EXCEPT ![a][r] = states[a].first]
             /\ states' = [states EXCEPT ![a].senders = @ \cup {r}]
             /\ UNCHANGED <<graph, completing>>
  /\ UNCHANGED <<metaVars, graphVars, failures, task, passed, reported>>

\* report_source_list_finished and the like: a report about a barrier that is
\* not in flight at the actor is ignored.
PollReport ==
  /\ NextEvent("report")
  /\ LET a == Head(events).actor
         e == Head(events).epoch
     IN reports' = IF \E i \in DOMAIN states[a].inflight : states[a].inflight[i] = e
                   THEN [reports EXCEPT ![e] = @ \cup {a}] ELSE reports
  /\ UNCHANGED <<metaVars, graph, states, map, prevTables, completing,
                 failures, actorVars>>

\* (Mistake) The state is removed as soon as a stop barrier was issued.
CollectedByAtOnce(s) ==
  IF s.stopping THEN NoState ELSE [s EXCEPT !.inflight = Tail(@), !.first = <<>>]

\* InflightActorState::collect; the state is removed with the last barrier of
\* a stopping actor.
CollectedBy(s) ==
  IF Len(s.inflight) = 1 /\ s.stopping THEN NoState
  ELSE [s EXCEPT !.inflight = Tail(@), !.first = <<>>]

\* What the two collect functions assert.
MayCollect(a, e) ==
  /\ states[a].inflight # <<>> /\ Head(states[a].inflight) = e
  /\ states[a].first # <<>> => Head(states[a].first) = e
  /\ \E i \in DOMAIN map : map[i].epoch = e /\ a \in map[i].remaining

PollCollect ==
  /\ NextEvent("collect")
  /\ LET a == Head(events).actor
         e == Head(events).epoch
         m == [i \in DOMAIN map |->
                 IF map[i].epoch = e THEN [map[i] EXCEPT !.remaining = @ \ {a}]
                 ELSE map[i]]
     IN IF MayCollect(a, e)
        THEN /\ states' = [states EXCEPT ![a] = CollectedBy(@)]
             /\ Completed(m, reports)
             /\ graph' = graph
        ELSE /\ graph' = "panic"
             /\ UNCHANGED <<states, map, reports, completing>>
  /\ UNCHANGED <<metaVars, prevTables, failures, actorVars>>

\* The state store has synced a checkpoint; syncs may end in any order.
SyncDone ==
  /\ graph = "running"
  /\ \E i \in DOMAIN completing :
       /\ ~completing[i].done
       /\ completing' = [completing EXCEPT ![i].done = TRUE]
  /\ UNCHANGED <<metaVars, graph, states, graphVars, events, failures,
                 actorVars>>

\* (Mistake) Futures complete as they are ready.
NextCompletedUnordered == {i \in DOMAIN completing : completing[i].done}

\* next_completed_epoch: FuturesOrdered yields the first future only.
NextCompleted == {i \in DOMAIN completing : i = 1 /\ completing[i].done}

\* The worker's select is biased: events first, then completed epochs, then
\* requests.
NoEvent == events = <<>> /\ failures = <<>> /\ ~CollectedAll(map)

\* on_epoch_completed: the answer, which the meta node takes.
OnEpochCompleted ==
  /\ graph = "running"
  /\ NoEvent
  /\ \E i \in NextCompleted, k \in DOMAIN barriers :
       LET e == completing[i].epoch
       IN  /\ barriers[k].epoch = e
           /\ answered' = e
           /\ barriers' = RemoveAt(barriers, k)
           /\ reported' = [reported EXCEPT ![e] = {}]
           /\ completing' = RemoveAt(completing, i)
  /\ UNCHANGED <<epoch, live, tables, unsynced, graph, states, graphVars, events,
                 failures, task, rx, passed>>

------------------------------------------------------------------------------
(* The meta node. *)

\* A barrier for this worker.  The request lists the actors there before the
\* command, the new ones included; the tables are those after it, and none if
\* no actor stays.
Inject(b, after) ==
  /\ graph = "running"
  /\ epoch <= MaxEpoch /\ Len(barriers) < MaxInFlight
  /\ NoEvent /\ NextCompleted = {}
  /\ b.collect # {}
  /\ TransformToIssued(b)
  /\ epoch' = epoch + 1
  /\ live' = after
  /\ tables' = b.tables
  /\ barriers' = Append(barriers, b)
  /\ unsynced' = IF b.kind = "checkpoint" THEN b.tables ELSE unsynced \cup b.tables
  /\ UNCHANGED <<answered, events, failures, passed, reported>>

Barrier(kind, build, stop, tabs) ==
  [epoch |-> epoch, kind |-> kind, collect |-> live \cup build, build |-> build,
   stop |-> stop, tables |-> tabs, due |-> unsynced]

NewActors == {a \in Actors : task[a] = "none"}

\* The first barrier of a graph builds its actors.
InjectInitial ==
  /\ epoch = 1
  /\ \E A \in SUBSET NewActors, T \in SUBSET Tables :
       Inject(Barrier("initial", A, {}, T), A)

\* A barrier without a command.
InjectPlain ==
  \E kind \in {"barrier", "checkpoint"} :
    epoch > 1 /\ Inject(Barrier(kind, {}, {}, tables), live)

\* A command's barrier is a checkpoint (Command::need_checkpoint).
InjectCommand ==
  /\ epoch > 1
  /\ \E A \in SUBSET NewActors, S \in SUBSET live, T \in SUBSET Tables :
       LET after == (live \cup A) \ S
       IN  Inject(Barrier("checkpoint", A, S, IF after = {} THEN {} ELSE T), after)

\* A barrier of the graph goes only to other workers.
InjectElsewhere ==
  /\ graph = "running"
  /\ live = {}
  /\ epoch <= MaxEpoch
  /\ epoch' = epoch + 1
  /\ UNCHANGED <<live, tables, barriers, answered, unsynced, graph, states,
                 graphVars, completing, events, failures, actorVars>>

------------------------------------------------------------------------------
(* The actors. *)

SubscribedBy(a) ==
  states[a].senders \cup
    {events[i].rx : i \in {k \in DOMAIN events : events[k].kind = "register"
                                                 /\ events[k].actor = a}}

\* subscribe_barrier: the executors of the actor are created one after another.
Subscribe(a) ==
  /\ graph = "running"
  /\ task[a] = "building"
  /\ SubscribedBy(a) # Receivers
  /\ events' = Append(events, [kind |-> "register", actor |-> a,
                               rx |-> Cardinality(SubscribedBy(a)) + 1])
  /\ UNCHANGED <<metaVars, graph, states, graphVars, completing, failures,
                 actorVars>>

\* The actor is built when all subscriptions are made, and runs.
Run(a) ==
  /\ graph = "running"
  /\ task[a] = "building"
  /\ SubscribedBy(a) = Receivers
  /\ task' = [task EXCEPT ![a] = "running"]
  /\ UNCHANGED <<metaVars, graph, states, graphVars, completing, events,
                 failures, rx, passed, reported>>

BarrierOf(e) == barriers[CHOOSE i \in DOMAIN barriers : barriers[i].epoch = e]

\* (Mistake) The barrier is collected before the reports of its executors.
PassEventsCollectFirst(a, e) ==
  <<[kind |-> "collect", actor |-> a, epoch |-> e]>>
    \o (IF a \in Reporters THEN <<[kind |-> "report", actor |-> a, epoch |-> e]>>
        ELSE <<>>)

\* Executors report while the barrier passes them; the actor collects it last.
PassEvents(a, e) ==
  (IF a \in Reporters THEN <<[kind |-> "report", actor |-> a, epoch |-> e]>>
   ELSE <<>>)
    \o <<[kind |-> "collect", actor |-> a, epoch |-> e]>>

\* A barrier has come from every subscription and passes the actor, which
\* exits if the barrier stops it.
Pass(a) ==
  /\ graph = "running"
  /\ task[a] = "running"
  /\ \A r \in Receivers : rx[a][r] # <<>>
  /\ LET e == Head(rx[a][1])
     IN /\ \A r \in Receivers : Head(rx[a][r]) = e
        /\ rx' = [rx EXCEPT ![a] = [r \in Receivers |-> Tail(@[r])]]
        /\ passed' = [passed EXCEPT ![a] = e]
        /\ events' = events \o PassEvents(a, e)
        /\ reported' = [reported EXCEPT ![e] = @ \cup ({a} \cap Reporters)]
        /\ task' = IF a \in BarrierOf(e).stop
                   THEN [task EXCEPT ![a] = "exited"] ELSE task
  /\ UNCHANGED <<metaVars, graph, states, graphVars, completing, failures>>

FailedActors == {a \in Actors : task[a] \in {"failing", "failed"}}

\* The actor's future ends with an error and its receivers are dropped, ...
Fail(a) ==
  /\ graph = "running"
  /\ task[a] \in {"building", "running"}
  /\ Cardinality(FailedActors) < MaxFailures
  /\ task' = [task EXCEPT ![a] = "failing"]
  /\ UNCHANGED <<metaVars, graph, states, graphVars, completing, events,
                 failures, rx, passed, reported>>

\* ... and then it notifies the barrier worker.
NotifyFailure(a) ==
  /\ graph = "running"
  /\ task[a] = "failing"
  /\ task' = [task EXCEPT ![a] = "failed"]
  /\ failures' = Append(failures, a)
  /\ UNCHANGED <<metaVars, graph, states, graphVars, completing, events,
                 rx, passed, reported>>

Next ==
  \/ InjectInitial \/ InjectPlain \/ InjectCommand \/ InjectElsewhere
  \/ PollCollected \/ PollFailure \/ PollRegister \/ PollReport \/ PollCollect
  \/ SyncDone \/ OnEpochCompleted
  \/ \E a \in Actors :
       \/ Subscribe(a) \/ Run(a) \/ Pass(a) \/ Fail(a) \/ NotifyFailure(a)

Spec == Init /\ [][Next]_vars

\* The worker's loop and the actors' tasks are polled when they can go on, and
\* the state store's syncs end.
Fairness ==
  /\ WF_vars(PollCollected) /\ WF_vars(PollFailure)
  /\ WF_vars(PollRegister) /\ WF_vars(PollReport) /\ WF_vars(PollCollect)
  /\ WF_vars(SyncDone) /\ WF_vars(OnEpochCompleted)
  /\ \A a \in Actors :
       /\ WF_vars(Subscribe(a)) /\ WF_vars(Run(a)) /\ WF_vars(Pass(a)) /\ WF_vars(NotifyFailure(a))

FairSpec == Spec /\ Fairness

------------------------------------------------------------------------------
(* Properties. *)

\* Type correctness of the worker's state; a barrier in flight is waiting for
\* actors or being completed.
MBTypeOK ==
  /\ epoch \in 1 .. MaxEpoch + 1
  /\ live \subseteq Actors
  /\ graph \in {"running", "suspended", "panic"}
  /\ \A a \in Actors : states[a].senders \subseteq Receivers
  /\ \A i \in DOMAIN map : map[i].remaining \subseteq Actors
  /\ \A e \in Epochs : reports[e] \subseteq Actors
  /\ prevTables.curr \in 0 .. MaxEpoch + 1
  /\ graph = "running" => Len(map) + Len(completing) = Len(barriers)

\* No assertion, expect or unreachable of the barrier state is reached: no
\* subscription is late, no actor is unknown or collects twice, and a worker
\* that gets the graph again after missing barriers starts over.
NoPanic == graph # "panic"

Increasing(s) == \A i, j \in DOMAIN s : i < j => s[i] < s[j]

CollectEvents(a) ==
  {i \in DOMAIN events : events[i].kind = "collect" /\ events[i].actor = a}

\* Every executor of an actor gets every barrier issued to it, once and in
\* order, however late it subscribed: of what the barrier worker has in flight
\* for the actor, each subscription still holds all after the barrier that the
\* actor passed last, and the events hold its collection of the others, in
\* order.  The state is well typed.
SubscribersInStep ==
  /\ MBTypeOK
  /\ graph = "running" =>
       \A a \in Actors :
         LET inflight == Range(states[a].inflight)
         IN  /\ Increasing(states[a].inflight)
             /\ {events[i].epoch : i \in CollectEvents(a)}
                  = {e \in inflight : e <= passed[a]}
             /\ \A i, j \in CollectEvents(a) : i < j => events[i].epoch < events[j].epoch
             /\ \A r \in states[a].senders : ~Closed(a) =>
                  /\ Increasing(rx[a][r])
                  /\ Range(rx[a][r]) = {e \in inflight : e > passed[a]}

\* A barrier is completed only when every actor it was sent to has passed it,
\* and barriers are answered in the order they were sent, none left out.
AnsweredWhenPassed ==
  graph = "running" =>
    /\ \A i \in DOMAIN barriers : barriers[i].epoch > answered
    /\ \A i \in DOMAIN completing :
         /\ i \in DOMAIN barriers /\ completing[i].epoch = barriers[i].epoch
         /\ \A a \in barriers[i].collect : passed[a] >= barriers[i].epoch

\* A barrier's answer is complete: it has what the actors reported at that
\* barrier, nothing of which stays behind in the report maps, and a checkpoint
\* syncs the tables of every epoch this worker started since the checkpoint
\* before, no more and no less, also when it missed barriers in between.
AnswersComplete ==
  /\ \A i \in DOMAIN completing :
       LET c == completing[i]
       IN  /\ c.reports = reported[c.epoch]
           /\ reports[c.epoch] = {}
           /\ c.kind = "checkpoint" => c.sync = BarrierOf(c.epoch).due
  /\ \A e \in Epochs : e <= answered => reports[e] = {}

\* Every barrier is answered, or the graph fails.
EveryBarrierAnswered ==
  (barriers # <<>>) ~> (barriers = <<>> \/ graph = "suspended")
==============================================================================
