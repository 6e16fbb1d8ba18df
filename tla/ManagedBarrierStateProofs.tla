---------------------- MODULE ManagedBarrierStateProofs ----------------------
(***************************************************************************)
(* One partial graph on a compute node, for any number of actors,          *)
(* subscriptions, tables, barriers and failures: the worker never panics,  *)
(* subscribers stay in step with what is issued, and barriers are          *)
(* completed and answered when, and with what, their actors passed them.   *)
(***************************************************************************)
EXTENDS ManagedBarrierState, FiniteSetTheorems, TLAPS

------------------------------------------------------------------------------
(* Queues. *)

\* Elements of a queue after a message is appended.
LEMMA AppendElements ==
  ASSUME NEW S, NEW q \in Seq(S), NEW m \in S
  PROVE  /\ Append(q, m) \in Seq(S)
         /\ Len(Append(q, m)) = Len(q) + 1
         /\ \A i \in 1 .. Len(q) : Append(q, m)[i] = q[i]
         /\ Append(q, m)[Len(q) + 1] = m
         /\ Len(q) \in Nat
OBVIOUS

\* Elements of a queue after its head is taken.
LEMMA TailElements ==
  ASSUME NEW S, NEW q \in Seq(S), q # <<>>
  PROVE  /\ Tail(q) \in Seq(S)
         /\ Len(Tail(q)) = Len(q) - 1
         /\ Len(q) \in Nat /\ Len(q) >= 1
         /\ \A i \in 1 .. Len(q) - 1 : Tail(q)[i] = q[i + 1]
         /\ Head(q) = q[1]
         /\ Head(q) \in S
OBVIOUS

\* The elements of a queue after one is appended.
LEMMA AppendRange ==
  ASSUME NEW S, NEW q \in Seq(S), NEW m \in S
  PROVE  Range(Append(q, m)) = Range(q) \cup {m}
<1> DEFINE p == Append(q, m)
<1>1. /\ p \in Seq(S) /\ Len(p) = Len(q) + 1 /\ Len(q) \in Nat
      /\ \A i \in 1 .. Len(q) : p[i] = q[i]
      /\ p[Len(q) + 1] = m
      BY AppendElements
<1>2. DOMAIN p = 1 .. Len(q) + 1 /\ DOMAIN q = 1 .. Len(q)
      BY <1>1
<1> HIDE DEF p
<1>3. ASSUME NEW x \in Range(p) PROVE x \in Range(q) \cup {m}
  <2>1. PICK i \in 1 .. Len(q) + 1 : x = p[i]
        BY <1>2 DEF Range
  <2>2. i \in 1 .. Len(q) \/ i = Len(q) + 1
        BY <1>1
  <2> QED  BY <1>1, <1>2, <2>1, <2>2 DEF Range
<1>4. ASSUME NEW x \in Range(q) PROVE x \in Range(p)
  <2>1. PICK i \in 1 .. Len(q) : x = q[i]
        BY <1>2 DEF Range
  <2>2. i \in 1 .. Len(q) + 1 /\ x = p[i]
        BY <1>1, <2>1
  <2> QED  BY <1>2, <2>2 DEF Range
<1>5. m \in Range(p)
      BY <1>1, <1>2 DEF Range
<1>6. Range(p) = Range(q) \cup {m}
      BY <1>3, <1>4, <1>5
<1> QED  BY <1>6 DEF p

\* The elements of a queue before its head is taken.
LEMMA TailRange ==
  ASSUME NEW S, NEW q \in Seq(S), q # <<>>
  PROVE  Range(q) = {Head(q)} \cup Range(Tail(q))
<1> DEFINE p == Tail(q)
<1>1. /\ p \in Seq(S) /\ Len(p) = Len(q) - 1 /\ Len(q) \in Nat /\ Len(q) >= 1
      /\ \A i \in 1 .. Len(q) - 1 : p[i] = q[i + 1]
      /\ Head(q) = q[1]
      BY TailElements
<1>2. DOMAIN p = 1 .. Len(q) - 1 /\ DOMAIN q = 1 .. Len(q)
      BY <1>1
<1> HIDE DEF p
<1>3. ASSUME NEW x \in Range(q) PROVE x = Head(q) \/ x \in Range(p)
  <2>1. PICK i \in 1 .. Len(q) : x = q[i]
        BY <1>2 DEF Range
  <2>2. CASE i = 1
        BY <1>1, <2>1, <2>2
  <2>3. CASE i # 1
    <3>1. i - 1 \in 1 .. Len(q) - 1 /\ (i - 1) + 1 = i
          BY <1>1, <2>3
    <3>2. x = p[i - 1]
          BY <1>1, <2>1, <3>1
    <3> QED  BY <1>2, <3>1, <3>2 DEF Range
  <2> QED  BY <2>2, <2>3
<1>4. ASSUME NEW x \in Range(p) PROVE x \in Range(q)
  <2>1. PICK i \in 1 .. Len(q) - 1 : x = p[i]
        BY <1>2 DEF Range
  <2>2. i + 1 \in 1 .. Len(q) /\ x = q[i + 1]
        BY <1>1, <2>1
  <2> QED  BY <1>2, <2>2 DEF Range
<1>5. Head(q) \in Range(q)
      BY <1>1, <1>2 DEF Range
<1>6. Range(q) = {Head(q)} \cup Range(p)
      BY <1>3, <1>4, <1>5
<1> QED  BY <1>6 DEF p

\* Removing the first element leaves the tail.
LEMMA RemoveFirstElement ==
  ASSUME NEW S, NEW q \in Seq(S), q # <<>>
  PROVE  RemoveAt(q, 1) = Tail(q)
BY DEF RemoveAt

\* A queue without elements is empty.
LEMMA EmptyQueue ==
  ASSUME NEW S, NEW q \in Seq(S), Len(q) = 0
  PROVE  q = <<>>
OBVIOUS

------------------------------------------------------------------------------
(* The inductive invariant. *)

Kinds == {"initial", "barrier", "checkpoint"}
BarrierType == [epoch : Epochs, kind : Kinds, collect : SUBSET Actors, build : SUBSET Actors,
                stop : SUBSET Actors, tables : SUBSET Tables, due : SUBSET Tables]
StateType == [inflight : Seq(Epochs), first : Seq(Epochs), max : 0 .. MaxEpoch,
              stopping : BOOLEAN, senders : SUBSET Receivers, exists : BOOLEAN]
PendingType == [epoch : Epochs, remaining : SUBSET Actors, kind : Kinds, sync : SUBSET Tables]
FutureType == [epoch : Epochs, kind : Kinds, sync : SUBSET Tables, reports : SUBSET Actors,
               done : BOOLEAN]
EventType == [kind : {"register"}, actor : Actors, rx : Receivers]
               \cup [kind : {"report", "collect"}, actor : Actors, epoch : Epochs]
Tasks == {"none", "building", "running", "failing", "failed", "exited"}

TypeInv ==
  /\ epoch \in 1 .. MaxEpoch + 1
  /\ live \subseteq Actors /\ tables \subseteq Tables /\ unsynced \subseteq Tables
  /\ barriers \in Seq(BarrierType)
  /\ answered \in 0 .. MaxEpoch
  /\ graph \in {"running", "suspended"}
  /\ states \in [Actors -> StateType]
  /\ map \in Seq(PendingType)
  /\ prevTables \in [curr : 0 .. MaxEpoch + 1, tables : SUBSET Tables]
  /\ reports \in [Epochs -> SUBSET Actors]
  /\ completing \in Seq(FutureType)
  /\ events \in Seq(EventType)
  /\ task \in [Actors -> Tasks]
  /\ rx \in [Actors -> [Receivers -> Seq(Epochs)]]
  /\ passed \in [Actors -> 0 .. MaxEpoch]
  /\ reported \in [Epochs -> SUBSET Actors]

\* The tables to sync are known from the barrier before, and without actors
\* there are none.
TablesInv ==
  /\ unsynced = tables /\ prevTables.tables = tables
  /\ live # {} => prevTables.curr = epoch
  /\ live = {} => tables = {}
  /\ epoch = 1 => prevTables.curr = 0

\* Barriers sent and not answered, in order; reports are made at these only.
BarriersInv ==
  /\ answered < epoch
  /\ \A i \in 1 .. Len(barriers) : answered < barriers[i].epoch /\ barriers[i].epoch < epoch
  /\ \A i, j \in 1 .. Len(barriers) : i < j => barriers[i].epoch < barriers[j].epoch
  /\ \A e \in Epochs : reported[e] # {} => \E i \in 1 .. Len(barriers) : barriers[i].epoch = e

IsRegister(v, a, r) == v.kind = "register" /\ v.actor = a /\ v.rx = r
IsReport(v, a, e) == v.kind = "report" /\ v.actor = a /\ v.epoch = e
IsCollect(v, a, e) == v.kind = "collect" /\ v.actor = a /\ v.epoch = e

\* Of these barriers the oldest are being completed (c), and the others wait for
\* actors (m), namely those with the barrier in flight in their states S.  What
\* was reported at a barrier that waits is in the maps rep or on its way in the
\* events V, and what was reported at a completed one is in its answer.
MapOk(m, c, rep, S, V) ==
  /\ Len(c) + Len(m) = Len(barriers)
  /\ \A i \in 1 .. Len(c) :
       /\ c[i].epoch = barriers[i].epoch /\ c[i].sync = barriers[i].due
       /\ \A a \in barriers[i].collect : passed[a] >= barriers[i].epoch
       /\ c[i].reports = reported[c[i].epoch]
  /\ \A i \in 1 .. Len(m) :
       LET b == barriers[Len(c) + i]
       IN  /\ m[i].epoch = b.epoch /\ m[i].sync = b.due
           /\ \A a \in b.collect : a \in m[i].remaining \/ passed[a] >= b.epoch
  /\ \A i \in 1 .. Len(m), a \in Actors :
       /\ a \in m[i].remaining <=> m[i].epoch \in Range(S[a].inflight)
       /\ a \in reported[m[i].epoch] <=>
            \/ a \in rep[m[i].epoch]
            \/ \E k \in 1 .. Len(V) : IsReport(V[k], a, m[i].epoch)
  /\ \A a \in Actors : \A e \in Range(S[a].inflight) : \E i \in 1 .. Len(m) : m[i].epoch = e
  /\ \A e \in Epochs : rep[e] # {} => \E i \in 1 .. Len(m) : m[i].epoch = e

Flying(a) == Range(states[a].inflight)

\* The worker's state of an actor: until the actor collects a barrier all are
\* kept for subscriptions to come, and it goes with the barrier that stops it.
StateOk(a) ==
  LET s == states[a]
  IN  /\ s.exists \/ s = NoState
      /\ Increasing(s.inflight)
      /\ s.inflight # <<>> => s.inflight[Len(s.inflight)] = s.max
      /\ s.first # <<>> => s.first = s.inflight
      /\ s.max < epoch
      /\ a \in live => s.exists /\ ~s.stopping
      /\ s.exists /\ s.senders # Receivers => passed[a] = 0 /\ s.first # <<>>
      /\ s.stopping => /\ s.inflight # <<>>
                       /\ \A i \in 1 .. Len(barriers) : barriers[i].epoch = s.max => a \in barriers[i].stop
                       /\ passed[a] >= s.max => task[a] = "exited"

\* The actor: a subscription holds what is in flight and was not passed.
ActorOk(a) ==
  /\ task[a] = "none" => ~states[a].exists /\ passed[a] = 0
  /\ task[a] \notin {"none", "exited"} => states[a].exists
  /\ passed[a] < epoch
  /\ \A r \in Receivers :
       IF r \in states[a].senders
       THEN /\ Increasing(rx[a][r])
            /\ \A e \in Epochs : e \in Range(rx[a][r]) <=> e \in Flying(a) /\ e > passed[a]
       ELSE rx[a][r] = <<>>

\* The events.  Subscriptions are numbered, and each is made once, ...
SubscriptionsOk ==
  \A a \in Actors : \E k \in 0 .. NumReceivers : SubscribedBy(a) = 1 .. k

RegistersOk ==
  /\ \A i \in 1 .. Len(events) : events[i].kind = "register" =>
       /\ states[events[i].actor].exists
       /\ events[i].rx \notin states[events[i].actor].senders
  /\ \A i, j \in 1 .. Len(events) :
       i < j /\ events[i].kind = "register" /\ events[j].kind = "register"
         /\ events[i].actor = events[j].actor => events[i].rx # events[j].rx

\* ... what an actor passed and is still in flight for the worker is collected
\* by an event, in order, ...
CollectsOk ==
  /\ \A i \in 1 .. Len(events) : events[i].kind = "collect" =>
       events[i].epoch \in Flying(events[i].actor) /\ events[i].epoch <= passed[events[i].actor]
  /\ \A a \in Actors : \A e \in Flying(a) : e <= passed[a] =>
       \E i \in 1 .. Len(events) : IsCollect(events[i], a, e)
  /\ \A i, j \in 1 .. Len(events) :
       i < j /\ events[i].kind = "collect" /\ events[j].kind = "collect"
         /\ events[i].actor = events[j].actor => events[i].epoch < events[j].epoch

\* ... and a report comes before the collection it belongs to.
ReportsOk ==
  \A i \in 1 .. Len(events) : events[i].kind = "report" =>
    \E j \in 1 .. Len(events) : i < j /\ IsCollect(events[j], events[i].actor, events[i].epoch)

EventsInv == SubscriptionsOk /\ RegistersOk /\ CollectsOk /\ ReportsOk

Running ==
  /\ TablesInv /\ BarriersInv
  /\ MapOk(map, completing, reports, states, events)
  /\ \A a \in Actors : StateOk(a) /\ ActorOk(a)
  /\ EventsInv

MBInv ==
  /\ TypeInv
  /\ graph = "running" => Running
  /\ graph = "suspended" => completing = <<>> /\ \A e \in Epochs : e <= answered => reports[e] = {}

------------------------------------------------------------------------------
(* Increasing queues of epochs. *)

\* The head of an increasing queue is its smallest element.
LEMMA IncreasingTail ==
  ASSUME NEW s \in Seq(Epochs), s # <<>>, Increasing(s)
  PROVE  /\ Increasing(Tail(s)) /\ Tail(s) \in Seq(Epochs) /\ Head(s) \in Epochs
         /\ \A x \in Range(Tail(s)) : Head(s) < x
         /\ Range(s) = {Head(s)} \cup Range(Tail(s))
         /\ Len(Tail(s)) = Len(s) - 1 /\ Len(s) \in Nat /\ Len(s) >= 1
         /\ Head(s) = s[1]
<1> DEFINE p == Tail(s)
<1>1. /\ p \in Seq(Epochs) /\ Len(p) = Len(s) - 1 /\ Len(s) \in Nat /\ Len(s) >= 1
      /\ \A i \in 1 .. Len(s) - 1 : p[i] = s[i + 1]
      /\ Head(s) = s[1] /\ Head(s) \in Epochs
      BY TailElements
<1>2. DOMAIN p = 1 .. Len(s) - 1 /\ DOMAIN s = 1 .. Len(s)
      BY <1>1
<1>3. Range(s) = {Head(s)} \cup Range(p)
      BY TailRange
<1> HIDE DEF p
<1>4. Increasing(p)
  <2> SUFFICES ASSUME NEW i \in 1 .. Len(s) - 1, NEW j \in 1 .. Len(s) - 1, i < j
               PROVE  p[i] < p[j]
      BY <1>2 DEF Increasing
  <2>1. i + 1 \in DOMAIN s /\ j + 1 \in DOMAIN s /\ i + 1 < j + 1
        BY <1>1, <1>2
  <2> QED  BY <1>1, <2>1 DEF Increasing
<1>5. ASSUME NEW x \in Range(p) PROVE Head(s) < x
  <2>1. PICK i \in 1 .. Len(s) - 1 : x = p[i]
        BY <1>2 DEF Range
  <2>2. 1 \in DOMAIN s /\ i + 1 \in DOMAIN s /\ 1 < i + 1
        BY <1>1, <1>2
  <2> QED  BY <1>1, <2>1, <2>2 DEF Increasing
<1> QED  BY <1>1, <1>3, <1>4, <1>5 DEF p

\* A larger epoch goes to the end of an increasing queue.
LEMMA IncreasingAppend ==
  ASSUME NEW s \in Seq(Epochs), NEW e \in Epochs, Increasing(s), \A x \in Range(s) : x < e
  PROVE  /\ Append(s, e) \in Seq(Epochs) /\ Increasing(Append(s, e))
         /\ Range(Append(s, e)) = Range(s) \cup {e}
         /\ Append(s, e)[Len(Append(s, e))] = e /\ Append(s, e) # <<>>
<1> DEFINE p == Append(s, e)
<1>1. /\ p \in Seq(Epochs) /\ Len(p) = Len(s) + 1 /\ Len(s) \in Nat
      /\ \A i \in 1 .. Len(s) : p[i] = s[i]
      /\ p[Len(s) + 1] = e
      BY AppendElements
<1>2. DOMAIN p = 1 .. Len(s) + 1 /\ DOMAIN s = 1 .. Len(s)
      BY <1>1
<1>3. Range(p) = Range(s) \cup {e}
      BY AppendRange
<1> HIDE DEF p
<1>4. Increasing(p)
  <2> SUFFICES ASSUME NEW i \in 1 .. Len(s) + 1, NEW j \in 1 .. Len(s) + 1, i < j
               PROVE  p[i] < p[j]
      BY <1>2 DEF Increasing
  <2>1. i \in 1 .. Len(s) /\ p[i] = s[i] /\ s[i] \in Range(s)
        BY <1>1, <1>2 DEF Range
  <2>2. CASE j = Len(s) + 1
        BY <1>1, <2>1, <2>2
  <2>3. CASE j # Len(s) + 1
    <3>1. j \in 1 .. Len(s) /\ p[j] = s[j]
          BY <1>1, <2>3
    <3> QED  BY <1>2, <2>1, <3>1 DEF Increasing
  <2> QED  BY <2>2, <2>3
<1>5. p # <<>> /\ p[Len(p)] = e
      BY <1>1
<1> QED  BY <1>1, <1>3, <1>4, <1>5 DEF p

------------------------------------------------------------------------------
(* What the types say of the elements. *)

\* Barriers and what the worker keeps of them.
LEMMA BarrierFacts ==
  ASSUME TypeInv
  PROVE  /\ Len(barriers) \in Nat /\ Len(map) \in Nat /\ Len(completing) \in Nat /\ Len(events) \in Nat
         /\ epoch \in Nat /\ answered \in Nat /\ MaxEpoch \in Nat
         /\ \A i \in 1 .. Len(barriers) : /\ barriers[i] \in BarrierType
                                         /\ barriers[i].epoch \in Epochs /\ barriers[i].epoch \in Nat
                                         /\ barriers[i].collect \subseteq Actors
         /\ \A i \in 1 .. Len(map) : /\ map[i] \in PendingType /\ map[i].epoch \in Epochs
                                    /\ map[i].epoch \in Nat /\ map[i].remaining \subseteq Actors
         /\ \A i \in 1 .. Len(completing) : /\ completing[i] \in FutureType
                                           /\ completing[i].epoch \in Epochs
<1> USE ManagedAssumption DEF Epochs
<1>1. /\ Len(barriers) \in Nat /\ Len(map) \in Nat /\ Len(completing) \in Nat /\ Len(events) \in Nat
      /\ epoch \in Nat /\ answered \in Nat /\ MaxEpoch \in Nat
      BY DEF TypeInv
<1>2. \A i \in 1 .. Len(barriers) : barriers[i] \in BarrierType
      BY DEF TypeInv
<1>3. \A i \in 1 .. Len(map) : map[i] \in PendingType
      BY DEF TypeInv
<1>4. \A i \in 1 .. Len(completing) : completing[i] \in FutureType
      BY DEF TypeInv
<1>5. \A b \in BarrierType : b.epoch \in Epochs /\ b.epoch \in Nat /\ b.collect \subseteq Actors
      BY DEF BarrierType
<1>6. \A b \in PendingType : b.epoch \in Epochs /\ b.epoch \in Nat /\ b.remaining \subseteq Actors
      BY DEF PendingType
<1>7. \A b \in FutureType : b.epoch \in Epochs
      BY DEF FutureType
<1> QED  BY <1>1, <1>2, <1>3, <1>4, <1>5, <1>6, <1>7

\* Actors and what the worker keeps of them.
LEMMA ActorFacts ==
  ASSUME TypeInv, NEW a \in Actors
  PROVE  /\ states[a] \in StateType
         /\ states[a].inflight \in Seq(Epochs) /\ states[a].first \in Seq(Epochs)
         /\ states[a].max \in Nat /\ states[a].stopping \in BOOLEAN
         /\ states[a].senders \subseteq Receivers /\ states[a].exists \in BOOLEAN
         /\ task[a] \in Tasks /\ passed[a] \in Nat
         /\ \A r \in Receivers : rx[a][r] \in Seq(Epochs)
         /\ Flying(a) \subseteq Epochs
<1> USE ManagedAssumption
<1>1. states[a] \in StateType
      BY DEF TypeInv
<1>2. /\ states[a].inflight \in Seq(Epochs) /\ states[a].first \in Seq(Epochs)
      /\ states[a].max \in Nat /\ states[a].stopping \in BOOLEAN
      /\ states[a].senders \subseteq Receivers /\ states[a].exists \in BOOLEAN
      BY <1>1 DEF StateType
<1>3. task[a] \in Tasks /\ passed[a] \in Nat /\ \A r \in Receivers : rx[a][r] \in Seq(Epochs)
      BY DEF TypeInv
<1>4. Flying(a) \subseteq Epochs
      BY <1>2 DEF Flying, Range
<1> QED  BY <1>1, <1>2, <1>3, <1>4

\* An event is of one of three kinds.
LEMMA EventFacts ==
  ASSUME TypeInv, NEW i \in 1 .. Len(events)
  PROVE  /\ events[i] \in EventType
         /\ events[i].kind \in {"register", "report", "collect"}
         /\ events[i].actor \in Actors
         /\ events[i].kind = "register" => events[i].rx \in Receivers
         /\ events[i].kind # "register" => events[i].epoch \in Epochs
<1>1. events[i] \in EventType
      BY DEF TypeInv
<1> QED  BY <1>1 DEF EventType

------------------------------------------------------------------------------
(* Steps that leave the barriers alone. *)

\* A step that touches neither the events nor what they are about.
LEMMA EventsUntouched ==
  ASSUME EventsInv, UNCHANGED <<events, states, passed>>
  PROVE  EventsInv'
<1>1. \A a : Flying(a)' = Flying(a) /\ SubscribedBy(a)' = SubscribedBy(a)
      BY DEF Flying, SubscribedBy
<1>2. SubscriptionsOk' /\ RegistersOk'
      BY <1>1 DEF EventsInv, SubscriptionsOk, RegistersOk
<1>3. CollectsOk' /\ ReportsOk'
      BY <1>1 DEF EventsInv, CollectsOk, ReportsOk, IsCollect
<1> QED  BY <1>2, <1>3 DEF EventsInv

\* A step that moves no barrier and no report.
LEMMA MapUntouched ==
  ASSUME TypeInv, MapOk(map, completing, reports, states, events),
         UNCHANGED <<barriers, passed, reported, map, reports>>,
         Len(completing') = Len(completing),
         \A i \in 1 .. Len(completing) : /\ completing'[i].epoch = completing[i].epoch
                                        /\ completing'[i].sync = completing[i].sync
                                        /\ completing'[i].reports = completing[i].reports,
         \A a \in Actors : states'[a].inflight = states[a].inflight,
         \A a \in Actors, e \in Epochs :
           (\E k \in 1 .. Len(events) : IsReport(events[k], a, e))
             <=> \E k \in 1 .. Len(events') : IsReport(events'[k], a, e)
  PROVE  MapOk(map, completing, reports, states, events)'
<1>1. \A i \in 1 .. Len(map) : map[i].epoch \in Epochs
      BY BarrierFacts
<1>2. \A i \in 1 .. Len(completing') :
        /\ completing'[i].epoch = barriers[i].epoch /\ completing'[i].sync = barriers[i].due
        /\ \A a \in barriers[i].collect : passed[a] >= barriers[i].epoch
        /\ completing'[i].reports = reported[completing'[i].epoch]
  <2> TAKE i \in 1 .. Len(completing')
  <2> QED  BY DEF MapOk
<1>3. \A i \in 1 .. Len(map) :
        LET b == barriers[Len(completing') + i]
        IN  /\ map[i].epoch = b.epoch /\ map[i].sync = b.due
            /\ \A a \in b.collect : a \in map[i].remaining \/ passed[a] >= b.epoch
  <2> TAKE i \in 1 .. Len(map)
  <2> QED  BY DEF MapOk
<1>4. \A i \in 1 .. Len(map), a \in Actors :
        /\ a \in map[i].remaining <=> map[i].epoch \in Range(states'[a].inflight)
        /\ a \in reported[map[i].epoch] <=>
             \/ a \in reports[map[i].epoch]
             \/ \E k \in 1 .. Len(events') : IsReport(events'[k], a, map[i].epoch)
  <2> TAKE i \in 1 .. Len(map), a \in Actors
  <2> QED  BY <1>1 DEF MapOk
<1>5. \A a \in Actors : \A e \in Range(states'[a].inflight) : \E i \in 1 .. Len(map) : map[i].epoch = e
  <2> TAKE a \in Actors
  <2> QED  BY DEF MapOk
<1>6. Len(completing') + Len(map) = Len(barriers)
      BY DEF MapOk
<1>7. \A e \in Epochs : reports[e] # {} => \E i \in 1 .. Len(map) : map[i].epoch = e
      BY DEF MapOk
<1>8. map' = map /\ reports' = reports /\ barriers' = barriers /\ passed' = passed /\ reported' = reported
      OBVIOUS
<1> QED  BY <1>2, <1>3, <1>4, <1>5, <1>6, <1>7, <1>8 DEF MapOk

\* A graph that fails leaves no report of an answered barrier behind.
LEMMA NothingLeftBehind ==
  ASSUME MBInv, graph = "running"
  PROVE  \A e \in Epochs : e <= answered => reports[e] = {}
<1> SUFFICES ASSUME NEW e \in Epochs, e <= answered, reports[e] # {} PROVE FALSE
    OBVIOUS
<1>1. TypeInv /\ BarriersInv /\ MapOk(map, completing, reports, states, events)
      BY DEF MBInv, Running
<1>2. PICK i \in 1 .. Len(map) : map[i].epoch = e
      BY <1>1 DEF MapOk
<1>3. Len(completing) \in Nat /\ Len(map) \in Nat /\ Len(completing) + Len(map) = Len(barriers)
      BY <1>1 DEF TypeInv, MapOk
<1>4. Len(completing) + i \in 1 .. Len(barriers)
      BY <1>3
<1>5. map[i].epoch = barriers[Len(completing) + i].epoch
      BY <1>1 DEF MapOk
<1> QED  BY <1>1, <1>2, <1>4, <1>5 DEF BarriersInv, TypeInv, Epochs

\* The graph is suspended.
LEMMA SuspendStep ==
  ASSUME MBInv, graph = "running", graph' = "suspended", completing' = <<>>, TypeInv',
         answered' = answered, reports' = reports
  PROVE  MBInv'
BY NothingLeftBehind DEF MBInv

\* A barrier of the graph goes to other workers only.
LEMMA InjectElsewhereStep == MBInv /\ InjectElsewhere => MBInv'
<1> SUFFICES ASSUME MBInv, InjectElsewhere PROVE MBInv'
    OBVIOUS
<1> USE ManagedAssumption DEF Epochs
<1>1. /\ TypeInv /\ TablesInv /\ BarriersInv /\ MapOk(map, completing, reports, states, events)
      /\ (\A a \in Actors : StateOk(a) /\ ActorOk(a)) /\ EventsInv
      BY DEF MBInv, Running, InjectElsewhere
<1>2. /\ epoch \in Nat /\ epoch > 0 /\ epoch' = epoch + 1 /\ epoch' \in 1 .. MaxEpoch + 1 /\ live = {}
      /\ graph = "running"
      BY <1>1 DEF InjectElsewhere, TypeInv
<1>3. UNCHANGED <<live, tables, barriers, answered, unsynced, graph, states,
                  graphVars, completing, events, failures, actorVars>>
      BY DEF InjectElsewhere
<1>4. TypeInv'
      BY <1>1, <1>2, <1>3 DEF TypeInv, graphVars, actorVars
<1>5. TablesInv'
  <2>1. epoch + 1 # 1 /\ prevTables' = prevTables
        BY <1>2, <1>3 DEF graphVars
  <2> QED  BY <1>1, <1>2, <1>3, <2>1 DEF TablesInv
<1>6. BarriersInv'
  <2>1. answered \in Nat /\ \A i \in 1 .. Len(barriers) : barriers[i].epoch \in Nat
        BY <1>1, BarrierFacts
  <2> QED  BY <1>1, <1>2, <1>3, <2>1 DEF BarriersInv, actorVars
<1>7. MapOk(map, completing, reports, states, events)'
      BY <1>1, <1>3 DEF MapOk, graphVars, actorVars
<1>8. \A a \in Actors : StateOk(a)'
  <2>1. \A a \in Actors : states[a].max \in Nat
        BY <1>1 DEF TypeInv, StateType
  <2> QED  BY <1>1, <1>2, <1>3, <2>1 DEF StateOk, actorVars
<1>9. \A a \in Actors : ActorOk(a)'
  <2>1. \A a \in Actors : passed[a] \in Nat
        BY <1>1 DEF TypeInv
  <2> QED  BY <1>1, <1>2, <1>3, <2>1 DEF ActorOk, Flying, actorVars
<1>10. EventsInv'
      BY <1>1, <1>3, EventsUntouched DEF actorVars
<1> QED  BY <1>2, <1>3, <1>4, <1>5, <1>6, <1>7, <1>8, <1>9, <1>10 DEF MBInv, Running

\* The worker reads a failure.
LEMMA PollFailureStep == MBInv /\ PollFailure => MBInv'
<1> SUFFICES ASSUME MBInv, PollFailure PROVE MBInv'
    OBVIOUS
<1>1. TypeInv'
      BY DEF MBInv, PollFailure, Suspend, TypeInv, metaVars, graphVars, actorVars
<1> QED  BY <1>1, SuspendStep DEF PollFailure, Suspend, metaVars, graphVars

\* An actor's task goes on or fails.
LEMMA TaskStep ==
  ASSUME MBInv, graph = "running", NEW a \in Actors, task[a] \notin {"none", "exited"},
         NEW t \in {"running", "failing", "failed"},
         task' = [task EXCEPT ![a] = t],
         UNCHANGED <<metaVars, graph, states, graphVars, completing, events, rx, passed, reported>>
  PROVE  MBInv'
<1>1. /\ TypeInv /\ TablesInv /\ BarriersInv /\ MapOk(map, completing, reports, states, events)
      /\ (\A b \in Actors : StateOk(b) /\ ActorOk(b)) /\ EventsInv
      BY DEF MBInv, Running
<1>2. /\ task' \in [Actors -> Tasks] /\ task'[a] = t /\ \A b \in Actors : b # a => task'[b] = task[b]
      BY <1>1 DEF TypeInv, Tasks
<1>3. TypeInv'
      BY <1>1, <1>2 DEF TypeInv, metaVars, graphVars
<1>4. TablesInv' /\ BarriersInv' /\ MapOk(map, completing, reports, states, events)'
      BY <1>1 DEF TablesInv, BarriersInv, MapOk, metaVars, graphVars
<1>5. \A b \in Actors : StateOk(b)'
  <2> TAKE b \in Actors
  <2>1. task[b] = "exited" => task'[b] = "exited"
        BY <1>2
  <2> QED  BY <1>1, <2>1 DEF StateOk, metaVars
<1>6. \A b \in Actors : ActorOk(b)'
      BY <1>1, <1>2 DEF ActorOk, Flying, metaVars
<1>7. EventsInv'
      BY <1>1, EventsUntouched
<1> QED  BY <1>3, <1>4, <1>5, <1>6, <1>7 DEF MBInv, Running

\* The state store's sync ends.
LEMMA SyncDoneStep == MBInv /\ SyncDone => MBInv'
<1> SUFFICES ASSUME MBInv, SyncDone PROVE MBInv'
    OBVIOUS
<1>1. /\ TypeInv /\ TablesInv /\ BarriersInv /\ MapOk(map, completing, reports, states, events)
      /\ (\A b \in Actors : StateOk(b) /\ ActorOk(b)) /\ EventsInv
      BY DEF MBInv, Running, SyncDone
<1>2. UNCHANGED <<metaVars, graph, states, graphVars, events, failures, actorVars>>
      BY DEF SyncDone
<1>3. PICK i \in DOMAIN completing : completing' = [completing EXCEPT ![i].done = TRUE]
      BY DEF SyncDone
<1>4. /\ completing' \in Seq(FutureType) /\ Len(completing') = Len(completing)
      /\ \A k \in 1 .. Len(completing) :
           /\ completing'[k].epoch = completing[k].epoch
           /\ completing'[k].sync = completing[k].sync
           /\ completing'[k].reports = completing[k].reports
  <2>1. /\ i \in 1 .. Len(completing) /\ completing \in Seq(FutureType)
        /\ completing[i] \in FutureType /\ Len(completing) \in Nat
        BY <1>1, <1>3 DEF TypeInv
  <2>2. [completing[i] EXCEPT !.done = TRUE] \in FutureType
        BY <2>1 DEF FutureType
  <2>3. completing' = [completing EXCEPT ![i] = [completing[i] EXCEPT !.done = TRUE]]
        BY <1>3
  <2> HIDE DEF FutureType
  <2>4. completing' \in Seq(FutureType) /\ Len(completing') = Len(completing)
        BY <2>1, <2>2, <2>3
  <2>5. ASSUME NEW k \in 1 .. Len(completing), k # i PROVE completing'[k] = completing[k]
        BY <2>1, <2>3, <2>5
  <2>6. completing'[i] = [completing[i] EXCEPT !.done = TRUE]
        BY <2>1, <2>3
  <2>7. /\ completing'[i].epoch = completing[i].epoch
        /\ completing'[i].sync = completing[i].sync
        /\ completing'[i].reports = completing[i].reports
        BY <2>1, <2>6 DEF FutureType
  <2> QED  BY <2>4, <2>5, <2>7
<1>5. TypeInv'
      BY <1>1, <1>2, <1>4 DEF TypeInv, metaVars, graphVars, actorVars
<1>6. TablesInv' /\ BarriersInv'
      BY <1>1, <1>2 DEF TablesInv, BarriersInv, metaVars, graphVars, actorVars
<1>7. MapOk(map, completing, reports, states, events)'
  <2>1. UNCHANGED <<barriers, passed, reported, map, reports, states, events>>
        BY <1>2 DEF metaVars, graphVars, actorVars
  <2> QED  BY <1>1, <1>4, <2>1, MapUntouched
<1>8. \A b \in Actors : StateOk(b)' /\ ActorOk(b)'
      BY <1>1, <1>2 DEF StateOk, ActorOk, Flying, metaVars, actorVars
<1>9. EventsInv'
      BY <1>1, <1>2, EventsUntouched DEF actorVars
<1> QED  BY <1>2, <1>5, <1>6, <1>7, <1>8, <1>9 DEF MBInv, Running, SyncDone

------------------------------------------------------------------------------
(* Steps that take an event. *)

\* The events after the first one is taken.
LEMMA TakeEvent ==
  ASSUME TypeInv, NEW kind, NextEvent(kind)
  PROVE  /\ graph = "running" /\ Head(events) = events[1] /\ 1 \in 1 .. Len(events)
         /\ events[1].kind = kind
         /\ events' \in Seq(EventType) /\ Len(events') \in Nat
         /\ DOMAIN events = 1 .. Len(events) /\ DOMAIN events' = 1 .. Len(events')
         /\ \A i \in 1 .. Len(events') : /\ i + 1 \in 1 .. Len(events) /\ i + 1 > 1
                                         /\ events'[i] = events[i + 1]
         /\ \A i \in 1 .. Len(events) : i # 1 => /\ i - 1 \in 1 .. Len(events')
                                                 /\ events'[i - 1] = events[i]
<1>1. events \in Seq(EventType) /\ events # <<>> /\ events' = Tail(events)
      BY DEF TypeInv, NextEvent
<1>2. /\ events' \in Seq(EventType) /\ Len(events') = Len(events) - 1
      /\ Len(events) \in Nat /\ Len(events) >= 1
      /\ \A i \in 1 .. Len(events) - 1 : events'[i] = events[i + 1]
      /\ Head(events) = events[1]
      BY <1>1, TailElements
<1>3. graph = "running" /\ events[1].kind = kind
      BY <1>2 DEF NextEvent
<1>4. DOMAIN events = 1 .. Len(events) /\ DOMAIN events' = 1 .. Len(events')
      BY <1>1, <1>2
<1>5. \A i \in 1 .. Len(events') : i + 1 \in 1 .. Len(events) /\ i + 1 > 1 /\ events'[i] = events[i + 1]
      BY <1>2
<1>6. ASSUME NEW i \in 1 .. Len(events), i # 1
      PROVE  i - 1 \in 1 .. Len(events') /\ events'[i - 1] = events[i]
  <2>1. i - 1 \in 1 .. Len(events) - 1 /\ (i - 1) + 1 = i
        BY <1>2, <1>6
  <2> QED  BY <1>2, <2>1
<1> QED  BY <1>2, <1>3, <1>4, <1>5, <1>6

\* A report still comes before its collection.
LEMMA ReportsShift ==
  ASSUME TypeInv, EventsInv, NEW kind, NextEvent(kind)
  PROVE  ReportsOk'
<1>1. /\ 1 \in 1 .. Len(events) /\ events[1].kind = kind
      /\ Len(events') \in Nat
      /\ \A i \in 1 .. Len(events') : i + 1 \in 1 .. Len(events) /\ i + 1 > 1 /\ events'[i] = events[i + 1]
      /\ \A i \in 1 .. Len(events) : i # 1 => i - 1 \in 1 .. Len(events') /\ events'[i - 1] = events[i]
      BY TakeEvent
<1> SUFFICES ASSUME NEW i \in 1 .. Len(events'), events'[i].kind = "report"
             PROVE  \E j \in 1 .. Len(events') :
                      i < j /\ IsCollect(events'[j], events'[i].actor, events'[i].epoch)
    BY DEF ReportsOk
<1>2. i + 1 \in 1 .. Len(events) /\ events'[i] = events[i + 1]
      BY <1>1
<1>3. PICK j \in 1 .. Len(events) : i + 1 < j /\ IsCollect(events[j], events'[i].actor, events'[i].epoch)
      BY <1>2 DEF EventsInv, ReportsOk
<1>4. j - 1 \in 1 .. Len(events') /\ events'[j - 1] = events[j] /\ i < j - 1
      BY <1>1, <1>3
<1> QED  BY <1>3, <1>4

\* Another event than a collection is taken.
LEMMA OtherEventTaken ==
  ASSUME TypeInv, EventsInv, NEW kind, kind # "collect", NextEvent(kind), passed' = passed,
         \A a \in Actors : Flying(a)' = Flying(a)
  PROVE  CollectsOk' /\ ReportsOk'
<1>1. /\ 1 \in 1 .. Len(events) /\ events[1].kind = kind
      /\ Len(events') \in Nat
      /\ \A i \in 1 .. Len(events') : i + 1 \in 1 .. Len(events) /\ i + 1 > 1 /\ events'[i] = events[i + 1]
      /\ \A i \in 1 .. Len(events) : i # 1 => i - 1 \in 1 .. Len(events') /\ events'[i - 1] = events[i]
      BY TakeEvent
<1>2. ASSUME NEW i \in 1 .. Len(events'), events'[i].kind = "collect"
      PROVE  /\ events'[i].epoch \in Range(states'[events'[i].actor].inflight)
             /\ events'[i].epoch <= passed'[events'[i].actor]
  <2>1. i + 1 \in 1 .. Len(events) /\ events'[i] = events[i + 1]
        BY <1>1
  <2>2. events[i + 1].actor \in Actors
        BY <2>1, EventFacts
  <2>3. Range(states'[events'[i].actor].inflight) = Flying(events[i + 1].actor)
        BY <2>1, <2>2 DEF Flying
  <2> QED  BY <1>2, <2>1, <2>3 DEF EventsInv, CollectsOk
<1>3. ASSUME NEW a \in Actors, NEW e \in Flying(a)', e <= passed'[a]
      PROVE  \E i \in 1 .. Len(events') : IsCollect(events'[i], a, e)
  <2>1. PICK i \in 1 .. Len(events) : IsCollect(events[i], a, e)
        BY <1>3 DEF EventsInv, CollectsOk
  <2>2. i # 1
        BY <1>1, <2>1 DEF IsCollect
  <2> QED  BY <1>1, <2>1, <2>2
<1>4. ASSUME NEW i \in 1 .. Len(events'), NEW j \in 1 .. Len(events'), i < j,
             events'[i].kind = "collect", events'[j].kind = "collect",
             events'[i].actor = events'[j].actor
      PROVE  events'[i].epoch < events'[j].epoch
  <2>1. /\ i + 1 \in 1 .. Len(events) /\ j + 1 \in 1 .. Len(events) /\ i + 1 < j + 1
        /\ events'[i] = events[i + 1] /\ events'[j] = events[j + 1]
        BY <1>1, <1>4
  <2> QED  BY <1>4, <2>1 DEF EventsInv, CollectsOk
<1>5. CollectsOk'
      BY <1>2, <1>3, <1>4 DEF CollectsOk, Flying
<1>6. ReportsOk'
      BY ReportsShift
<1> QED  BY <1>5, <1>6

\* A subscription is registered.
LEMMA PollRegisterStep == MBInv /\ PollRegister => MBInv'
<1> SUFFICES ASSUME MBInv, PollRegister PROVE MBInv'
    OBVIOUS
<1>1. /\ TypeInv /\ TablesInv /\ BarriersInv /\ MapOk(map, completing, reports, states, events)
      /\ (\A b \in Actors : StateOk(b) /\ ActorOk(b)) /\ EventsInv /\ NextEvent("register")
      BY DEF MBInv, Running, PollRegister, NextEvent
<1>2. /\ graph = "running" /\ Head(events) = events[1] /\ 1 \in 1 .. Len(events)
      /\ events[1].kind = "register"
      /\ events' \in Seq(EventType) /\ Len(events') \in Nat
      /\ DOMAIN events = 1 .. Len(events) /\ DOMAIN events' = 1 .. Len(events')
      /\ \A i \in 1 .. Len(events') : i + 1 \in 1 .. Len(events) /\ i + 1 > 1 /\ events'[i] = events[i + 1]
      /\ \A i \in 1 .. Len(events) : i # 1 => i - 1 \in 1 .. Len(events') /\ events'[i - 1] = events[i]
      BY <1>1, TakeEvent
<1>3. PICK a \in Actors, r \in Receivers : events[1].actor = a /\ events[1].rx = r
      BY <1>1, <1>2, EventFacts
<1>4. states[a].exists /\ r \notin states[a].senders
      BY <1>1, <1>2, <1>3 DEF EventsInv, RegistersOk
<1>5. passed[a] = 0 /\ states[a].first # <<>> /\ states[a].first = states[a].inflight
      BY <1>1, <1>4 DEF StateOk
<1>6. UNCHANGED <<metaVars, graphVars, failures, task, passed, reported>>
      BY DEF PollRegister
<1>7. CASE Closed(a)
  <2>1. graph' = "suspended" /\ completing' = <<>> /\ states' = states /\ rx' = rx
        BY <1>2, <1>3, <1>5, <1>7 DEF PollRegister
  <2>2. TypeInv'
        BY <1>1, <1>2, <1>6, <2>1 DEF TypeInv, metaVars, graphVars
  <2> QED  BY <1>2, <1>6, <2>1, <2>2, SuspendStep DEF metaVars, graphVars
<1>8. CASE ~Closed(a)
  <2>1. /\ rx' = [rx EXCEPT ![a][r] = states[a].first]
        /\ states' = [states EXCEPT ![a].senders = @ \cup {r}]
        /\ graph' = graph /\ completing' = completing
        BY <1>2, <1>3, <1>5, <1>8 DEF PollRegister
  <2>2. /\ states' = [states EXCEPT ![a] = [states[a] EXCEPT !.senders = @ \cup {r}]]
        /\ rx' = [rx EXCEPT ![a] = [rx[a] EXCEPT ![r] = states[a].first]]
        BY <2>1
  <2>3. /\ [states[a] EXCEPT !.senders = @ \cup {r}] \in StateType
        /\ [rx[a] EXCEPT ![r] = states[a].first] \in [Receivers -> Seq(Epochs)]
    <3>1. states[a] \in StateType /\ states[a].first \in Seq(Epochs) /\ rx[a] \in [Receivers -> Seq(Epochs)]
          BY <1>1, ActorFacts DEF TypeInv
    <3> QED  BY <3>1 DEF StateType
  <2>4. states' \in [Actors -> StateType] /\ rx' \in [Actors -> [Receivers -> Seq(Epochs)]]
        BY <1>1, <2>2, <2>3 DEF TypeInv
  <2>5. TypeInv'
        BY <1>1, <1>2, <1>6, <2>1, <2>4 DEF TypeInv, metaVars, graphVars
  <2>6. /\ states'[a].inflight = states[a].inflight /\ states'[a].first = states[a].first
        /\ states'[a].max = states[a].max /\ states'[a].stopping = states[a].stopping
        /\ states'[a].senders = states[a].senders \cup {r} /\ states'[a].exists = states[a].exists
        /\ \A b \in Actors : b # a => states'[b] = states[b] /\ rx'[b] = rx[b]
        /\ rx'[a][r] = states[a].inflight
        /\ \A k \in Receivers : k # r => rx'[a][k] = rx[a][k]
    <3>1. states[a] \in StateType /\ rx[a] \in [Receivers -> Seq(Epochs)]
          BY <1>1, ActorFacts DEF TypeInv
    <3>2. /\ states'[a] = [states[a] EXCEPT !.senders = @ \cup {r}]
          /\ rx'[a] = [rx[a] EXCEPT ![r] = states[a].first]
          /\ \A b \in Actors : b # a => states'[b] = states[b] /\ rx'[b] = rx[b]
          BY <1>1, <2>2 DEF TypeInv
    <3> QED  BY <1>5, <3>1, <3>2 DEF StateType
  <2>7. \A b \in Actors : states'[b].inflight = states[b].inflight /\ Flying(b)' = Flying(b)
        BY <2>6 DEF Flying
  <2>8. TablesInv' /\ BarriersInv'
        BY <1>1, <1>6 DEF TablesInv, BarriersInv, metaVars, graphVars
  <2>9. MapOk(map, completing, reports, states, events)'
    <3>1. \A b \in Actors, e \in Epochs :
            (\E k \in 1 .. Len(events) : IsReport(events[k], b, e))
              <=> \E k \in 1 .. Len(events') : IsReport(events'[k], b, e)
      <4> TAKE b \in Actors, e \in Epochs
      <4>1. ~IsReport(events[1], b, e)
            BY <1>2 DEF IsReport
      <4> QED  BY <1>2, <4>1
    <3>2. UNCHANGED <<barriers, passed, reported, map, completing, reports>>
          BY <1>6, <2>1 DEF metaVars, graphVars
    <3> QED  BY <1>1, <2>7, <3>1, <3>2, MapUntouched
  <2>10. \A b \in Actors : StateOk(b)'
    <3>1. UNCHANGED <<epoch, live, barriers, passed, task>>
          BY <1>6 DEF metaVars
    <3>2. StateOk(a)'
          BY <1>1, <1>4, <1>5, <2>6, <3>1 DEF StateOk
    <3>3. ASSUME NEW b \in Actors, b # a PROVE StateOk(b)'
          BY <1>1, <2>6, <3>1, <3>3 DEF StateOk
    <3> QED  BY <3>2, <3>3
  <2>11. \A b \in Actors : ActorOk(b)'
    <3>1. UNCHANGED <<epoch, passed, task>>
          BY <1>6 DEF metaVars
    <3>2. ASSUME NEW b \in Actors, b # a PROVE ActorOk(b)'
          BY <1>1, <2>6, <2>7, <3>1, <3>2 DEF ActorOk
    <3>3. ActorOk(a)'
      <4>1. \A e \in Epochs : e > passed[a]
            BY <1>5 DEF Epochs
      <4>2. Increasing(rx'[a][r]) /\ \A e \in Epochs : e \in Range(rx'[a][r]) <=> e \in Flying(a)
            BY <1>1, <2>6 DEF StateOk, Flying
      <4> QED  BY <1>1, <1>4, <2>6, <2>7, <3>1, <4>1, <4>2 DEF ActorOk
    <3> QED  BY <3>2, <3>3
  <2>12. SubscriptionsOk'
    <3>1. ASSUME NEW b \in Actors, NEW x PROVE x \in SubscribedBy(b)' <=> x \in SubscribedBy(b)
      <4>1. x \in SubscribedBy(b) <=> \/ x \in states[b].senders
                                    \/ \E k \in 1 .. Len(events) : IsRegister(events[k], b, x)
            BY <1>2 DEF SubscribedBy, IsRegister
      <4>2. x \in SubscribedBy(b)' <=> \/ x \in states'[b].senders
                                     \/ \E k \in 1 .. Len(events') : IsRegister(events'[k], b, x)
            BY <1>2 DEF SubscribedBy, IsRegister
      <4>3. (\E k \in 1 .. Len(events) : IsRegister(events[k], b, x)) <=>
              \/ IsRegister(events[1], b, x)
              \/ \E k \in 1 .. Len(events') : IsRegister(events'[k], b, x)
            BY <1>2
      <4>4. IsRegister(events[1], b, x) <=> b = a /\ x = r
            BY <1>2, <1>3 DEF IsRegister
      <4>5. CASE b = a
        <5>1. x \in states'[b].senders <=> x \in states[b].senders \/ x = r
              BY <2>6, <4>5
        <5> QED  BY <4>1, <4>2, <4>3, <4>4, <4>5, <5>1
      <4>6. CASE b # a
        <5>1. x \in states'[b].senders <=> x \in states[b].senders
              BY <2>6, <4>6
        <5> QED  BY <4>1, <4>2, <4>3, <4>4, <4>6, <5>1
      <4> QED  BY <4>5, <4>6
    <3>5. \A b \in Actors : SubscribedBy(b)' = SubscribedBy(b)
          BY <3>1
    <3> QED  BY <1>1, <3>5 DEF EventsInv, SubscriptionsOk
  <2>13. RegistersOk'
    <3>1. ASSUME NEW i \in 1 .. Len(events'), events'[i].kind = "register"
          PROVE  /\ states'[events'[i].actor].exists
                 /\ events'[i].rx \notin states'[events'[i].actor].senders
      <4>1. i + 1 \in 1 .. Len(events) /\ i + 1 > 1 /\ events'[i] = events[i + 1]
            BY <1>2
      <4>2. events[i + 1].actor \in Actors
            BY <1>1, <4>1, EventFacts
      <4>3. /\ states[events[i + 1].actor].exists
            /\ events[i + 1].rx \notin states[events[i + 1].actor].senders
            /\ events[i + 1].actor = a => events[i + 1].rx # r
            BY <1>1, <1>2, <1>3, <3>1, <4>1 DEF EventsInv, RegistersOk
      <4> QED  BY <2>6, <4>1, <4>2, <4>3
    <3>2. ASSUME NEW i \in 1 .. Len(events'), NEW j \in 1 .. Len(events'), i < j,
                 events'[i].kind = "register", events'[j].kind = "register",
                 events'[i].actor = events'[j].actor
          PROVE  events'[i].rx # events'[j].rx
      <4>1. i + 1 \in 1 .. Len(events) /\ j + 1 \in 1 .. Len(events) /\ i + 1 < j + 1
            BY <1>2, <3>2
      <4> QED  BY <1>1, <1>2, <3>2, <4>1 DEF EventsInv, RegistersOk
    <3> QED  BY <3>1, <3>2 DEF RegistersOk
  <2>14. CollectsOk' /\ ReportsOk'
        BY <1>1, <1>6, <2>7, OtherEventTaken
  <2> QED  BY <1>2, <2>1, <2>5, <2>8, <2>9, <2>10, <2>11, <2>12, <2>13, <2>14 DEF MBInv, Running, EventsInv
<1> QED  BY <1>7, <1>8

\* Another event than a subscription is taken.
LEMMA RegistersStay ==
  ASSUME TypeInv, EventsInv, NEW kind, kind # "register", NextEvent(kind)
  PROVE  /\ \A i \in 1 .. Len(events') : events'[i].kind = "register" =>
              /\ states[events'[i].actor].exists
              /\ events'[i].rx \notin states[events'[i].actor].senders
              /\ events'[i].actor \in Actors /\ events'[i].rx \in Receivers
         /\ \A i, j \in 1 .. Len(events') :
              i < j /\ events'[i].kind = "register" /\ events'[j].kind = "register"
                /\ events'[i].actor = events'[j].actor => events'[i].rx # events'[j].rx
         /\ \A a \in Actors : states'[a].senders = states[a].senders => SubscribedBy(a)' = SubscribedBy(a)
<1>1. /\ 1 \in 1 .. Len(events) /\ events[1].kind = kind
      /\ Len(events') \in Nat /\ DOMAIN events = 1 .. Len(events) /\ DOMAIN events' = 1 .. Len(events')
      /\ \A i \in 1 .. Len(events') : i + 1 \in 1 .. Len(events) /\ i + 1 > 1 /\ events'[i] = events[i + 1]
      /\ \A i \in 1 .. Len(events) : i # 1 => i - 1 \in 1 .. Len(events') /\ events'[i - 1] = events[i]
      BY TakeEvent
<1>2. ASSUME NEW i \in 1 .. Len(events'), events'[i].kind = "register"
      PROVE  /\ states[events'[i].actor].exists
             /\ events'[i].rx \notin states[events'[i].actor].senders
             /\ events'[i].actor \in Actors /\ events'[i].rx \in Receivers
  <2>1. i + 1 \in 1 .. Len(events) /\ events'[i] = events[i + 1]
        BY <1>1
  <2>2. events[i + 1].actor \in Actors /\ events[i + 1].rx \in Receivers
        BY <1>2, <2>1, EventFacts
  <2> QED  BY <1>2, <2>1, <2>2 DEF EventsInv, RegistersOk
<1>3. ASSUME NEW i \in 1 .. Len(events'), NEW j \in 1 .. Len(events'), i < j,
             events'[i].kind = "register", events'[j].kind = "register",
             events'[i].actor = events'[j].actor
      PROVE  events'[i].rx # events'[j].rx
  <2>1. /\ i + 1 \in 1 .. Len(events) /\ j + 1 \in 1 .. Len(events) /\ i + 1 < j + 1
        /\ events'[i] = events[i + 1] /\ events'[j] = events[j + 1]
        BY <1>1, <1>3
  <2> QED  BY <1>3, <2>1 DEF EventsInv, RegistersOk
<1>4. ASSUME NEW a \in Actors, states'[a].senders = states[a].senders, NEW x
      PROVE  x \in SubscribedBy(a)' <=> x \in SubscribedBy(a)
  <2>1. x \in SubscribedBy(a) <=> \/ x \in states[a].senders
                                  \/ \E k \in 1 .. Len(events) : IsRegister(events[k], a, x)
        BY <1>1 DEF SubscribedBy, IsRegister
  <2>2. x \in SubscribedBy(a)' <=> \/ x \in states'[a].senders
                                   \/ \E k \in 1 .. Len(events') : IsRegister(events'[k], a, x)
        BY <1>1 DEF SubscribedBy, IsRegister
  <2>3. (\E k \in 1 .. Len(events) : IsRegister(events[k], a, x)) <=>
          \E k \in 1 .. Len(events') : IsRegister(events'[k], a, x)
    <3>1. ~IsRegister(events[1], a, x)
          BY <1>1 DEF IsRegister
    <3> QED  BY <1>1, <3>1
  <2> QED  BY <1>4, <2>1, <2>2, <2>3
<1> QED  BY <1>2, <1>3, <1>4

\* A report is of a barrier in flight at its actor.
LEMMA ReportInFlight ==
  ASSUME CollectsOk, ReportsOk, NEW i \in 1 .. Len(events), events[i].kind = "report"
  PROVE  events[i].epoch \in Flying(events[i].actor)
<1>1. PICK j \in 1 .. Len(events) : IsCollect(events[j], events[i].actor, events[i].epoch)
      BY DEF ReportsOk
<1> QED  BY <1>1 DEF CollectsOk, IsCollect

\* A report is put into the maps.
LEMMA PollReportStep == MBInv /\ PollReport => MBInv'
<1> SUFFICES ASSUME MBInv, PollReport PROVE MBInv'
    OBVIOUS
<1>1. /\ TypeInv /\ TablesInv /\ BarriersInv /\ MapOk(map, completing, reports, states, events)
      /\ (\A b \in Actors : StateOk(b) /\ ActorOk(b)) /\ EventsInv /\ NextEvent("report")
      BY DEF MBInv, Running, PollReport, NextEvent
<1>2. /\ graph = "running" /\ Head(events) = events[1] /\ 1 \in 1 .. Len(events)
      /\ events[1].kind = "report"
      /\ events' \in Seq(EventType) /\ Len(events') \in Nat
      /\ \A i \in 1 .. Len(events') : i + 1 \in 1 .. Len(events) /\ i + 1 > 1 /\ events'[i] = events[i + 1]
      /\ \A i \in 1 .. Len(events) : i # 1 => i - 1 \in 1 .. Len(events') /\ events'[i - 1] = events[i]
      BY <1>1, TakeEvent
<1>3. PICK a \in Actors, e \in Epochs : events[1].actor = a /\ events[1].epoch = e
      BY <1>1, <1>2, EventFacts
<1>4. e \in Flying(a)
      BY <1>1, <1>2, <1>3, ReportInFlight DEF EventsInv
<1>5. UNCHANGED <<metaVars, graph, states, map, prevTables, completing, failures, actorVars>>
      BY DEF PollReport
<1>6. reports' = [reports EXCEPT ![e] = @ \cup {a}]
  <2>1. \E i \in DOMAIN states[a].inflight : states[a].inflight[i] = e
        BY <1>4 DEF Flying, Range
  <2> QED  BY <1>2, <1>3, <2>1 DEF PollReport
<1>7. /\ reports' \in [Epochs -> SUBSET Actors] /\ reports'[e] = reports[e] \cup {a}
      /\ \A x \in Epochs : x # e => reports'[x] = reports[x]
      BY <1>1, <1>6 DEF TypeInv
<1>8. TypeInv'
      BY <1>1, <1>2, <1>5, <1>7 DEF TypeInv, metaVars, actorVars
<1>9. TablesInv' /\ BarriersInv'
      BY <1>1, <1>5 DEF TablesInv, BarriersInv, metaVars, actorVars
<1>10. MapOk(map, completing, reports, states, events)'
  <2>1. \A b \in Actors : \A x \in Epochs :
          b \in reports[x] \/ (\E k \in 1 .. Len(events) : IsReport(events[k], b, x))
            <=> b \in reports'[x] \/ \E k \in 1 .. Len(events') : IsReport(events'[k], b, x)
    <3> TAKE b \in Actors
    <3> TAKE x \in Epochs
    <3>1. (\E k \in 1 .. Len(events) : IsReport(events[k], b, x)) <=>
            \/ IsReport(events[1], b, x)
            \/ \E k \in 1 .. Len(events') : IsReport(events'[k], b, x)
          BY <1>2
    <3>2. IsReport(events[1], b, x) <=> b = a /\ x = e
          BY <1>2, <1>3 DEF IsReport
    <3>3. b \in reports'[x] <=> b \in reports[x] \/ (b = a /\ x = e)
          BY <1>7
    <3> QED  BY <3>1, <3>2, <3>3
  <2>2. \A i \in 1 .. Len(map) : map[i].epoch \in Epochs
        BY <1>1, BarrierFacts
  <2>3. UNCHANGED <<barriers, passed, reported, map, completing, states>>
        BY <1>5 DEF metaVars, actorVars
  <2>4. \E i \in 1 .. Len(map) : map[i].epoch = e
        BY <1>1, <1>4 DEF MapOk, Flying
  <2>5. \A x \in Epochs : reports'[x] # {} => \E i \in 1 .. Len(map) : map[i].epoch = x
        BY <1>1, <1>7, <2>4 DEF MapOk
  <2> QED  BY <1>1, <2>1, <2>2, <2>3, <2>5, SMTT(30) DEF MapOk
<1>11. \A b \in Actors : StateOk(b)' /\ ActorOk(b)'
      BY <1>1, <1>5 DEF StateOk, ActorOk, Flying, metaVars, actorVars
<1>12. EventsInv'
  <2>1. states' = states /\ passed' = passed /\ \A b \in Actors : Flying(b)' = Flying(b)
        BY <1>5 DEF actorVars, Flying
  <2>2. CollectsOk' /\ ReportsOk'
        BY <1>1, <2>1, OtherEventTaken
  <2>3. RegistersOk'
        BY <1>1, <2>1, RegistersStay DEF RegistersOk
  <2>4. \A b \in Actors : SubscribedBy(b)' = SubscribedBy(b)
        BY <1>1, <2>1, RegistersStay
  <2>5. SubscriptionsOk'
        BY <1>1, <2>4 DEF EventsInv, SubscriptionsOk
  <2> QED  BY <2>2, <2>3, <2>5 DEF EventsInv
<1> QED  BY <1>2, <1>5, <1>8, <1>9, <1>10, <1>11, <1>12 DEF MBInv, Running

------------------------------------------------------------------------------
(* Collecting and completing. *)

\* The epochs of barriers in flight, of the map and of what is being completed,
\* are those of the barriers sent, so no two are the same.
LEMMA MapEpochs ==
  ASSUME TypeInv, BarriersInv, NEW m \in Seq(PendingType), NEW rep, NEW S, NEW V,
         MapOk(m, completing, rep, S, V)
  PROVE  /\ Len(m) \in Nat /\ Len(completing) \in Nat /\ Len(completing) + Len(m) = Len(barriers)
         /\ \A i \in 1 .. Len(m) : m[i].epoch \in Epochs
         /\ \A i \in 1 .. Len(m) : answered < m[i].epoch /\ m[i].epoch < epoch
         /\ \A i, j \in 1 .. Len(m) : i < j => m[i].epoch < m[j].epoch
         /\ \A i \in 1 .. Len(completing), j \in 1 .. Len(m) : completing[i].epoch < m[j].epoch
<1>1. Len(m) \in Nat /\ Len(completing) \in Nat /\ Len(completing) + Len(m) = Len(barriers)
      BY BarrierFacts DEF MapOk
<1>2. \A i \in 1 .. Len(m) : m[i] \in PendingType
      OBVIOUS
<1>3. \A i \in 1 .. Len(m) : m[i].epoch \in Epochs
      BY <1>2 DEF PendingType
<1>4. \A i \in 1 .. Len(m) : /\ Len(completing) + i \in 1 .. Len(barriers)
                             /\ m[i].epoch = barriers[Len(completing) + i].epoch
      BY <1>1 DEF MapOk
<1>5. \A i \in 1 .. Len(m) : answered < m[i].epoch /\ m[i].epoch < epoch
      BY <1>4 DEF BarriersInv
<1>6. ASSUME NEW i \in 1 .. Len(m), NEW j \in 1 .. Len(m), i < j PROVE m[i].epoch < m[j].epoch
  <2>1. Len(completing) + i < Len(completing) + j
        BY <1>1, <1>6
  <2> QED  BY <1>4, <2>1 DEF BarriersInv
<1>7. ASSUME NEW i \in 1 .. Len(completing), NEW j \in 1 .. Len(m)
      PROVE  completing[i].epoch < m[j].epoch
  <2>1. i < Len(completing) + j /\ i \in 1 .. Len(barriers)
        BY <1>1
  <2>2. completing[i].epoch = barriers[i].epoch
        BY DEF MapOk
  <2> QED  BY <1>4, <2>1, <2>2 DEF BarriersInv
<1> QED  BY <1>1, <1>3, <1>5, <1>6, <1>7

\* The oldest barrier moves from the map m to what is being completed, if all
\* have collected it.
LEMMA CompletedStep ==
  ASSUME TypeInv, BarriersInv, NEW m \in Seq(PendingType), Completed(m, reports),
         MapOk(m, completing, reports, states', events'),
         UNCHANGED <<barriers, passed, reported>>,
         \A k \in 1 .. Len(events') : events'[k].kind = "report" =>
           /\ events'[k].actor \in Actors
           /\ events'[k].epoch \in Range(states'[events'[k].actor].inflight)
  PROVE  /\ map' \in Seq(PendingType) /\ completing' \in Seq(FutureType)
         /\ reports' \in [Epochs -> SUBSET Actors]
         /\ MapOk(map, completing, reports, states, events)'
<1>1. /\ Len(m) \in Nat /\ Len(completing) \in Nat /\ Len(completing) + Len(m) = Len(barriers)
      /\ \A i \in 1 .. Len(m) : m[i].epoch \in Epochs
      /\ \A i, j \in 1 .. Len(m) : i < j => m[i].epoch < m[j].epoch
      /\ \A i \in 1 .. Len(completing), j \in 1 .. Len(m) : completing[i].epoch < m[j].epoch
      BY MapEpochs
<1>2. reports \in [Epochs -> SUBSET Actors] /\ completing \in Seq(FutureType)
      BY DEF TypeInv
<1>3. CASE ~CollectedAll(m)
  <2>1. map' = m /\ reports' = reports /\ completing' = completing
        BY <1>3 DEF Completed
  <2> QED  BY <1>2, <2>1 DEF MapOk
<1>4. CASE CollectedAll(m)
  <2> DEFINE f == FutureOf(m[1], reports)
  <2>1. m # <<>> /\ Head(m) = m[1] /\ m[1].remaining = {} /\ m[1] \in PendingType /\ 1 \in 1 .. Len(m)
    <3>1. m # <<>> /\ Head(m).remaining = {}
          BY <1>4 DEF CollectedAll
    <3>2. Len(m) \in Nat /\ Len(m) >= 1 /\ Head(m) = m[1] /\ Head(m) \in PendingType
          BY <3>1, TailElements
    <3> QED  BY <3>1, <3>2
  <2>2. /\ map' = Tail(m) /\ completing' = Append(completing, f)
        /\ reports' = [reports EXCEPT ![m[1].epoch] = {}]
        BY <1>4, <2>1 DEF Completed
  <2>3. /\ f \in FutureType /\ f.epoch = m[1].epoch /\ f.sync = m[1].sync
        /\ f.reports = reports[m[1].epoch]
        BY <1>1, <1>2, <2>1 DEF FutureOf, FutureType, PendingType
  <2> HIDE DEF f
  <2>4. /\ map' \in Seq(PendingType) /\ Len(map') = Len(m) - 1 /\ Len(m) >= 1
        /\ \A i \in 1 .. Len(m) - 1 : map'[i] = m[i + 1]
        BY <2>1, <2>2, TailElements
  <2>5. /\ completing' \in Seq(FutureType) /\ Len(completing') = Len(completing) + 1
        /\ \A i \in 1 .. Len(completing) : completing'[i] = completing[i]
        /\ completing'[Len(completing) + 1] = f
        BY <1>2, <2>2, <2>3, AppendElements
  <2>6. /\ reports' \in [Epochs -> SUBSET Actors] /\ reports'[m[1].epoch] = {}
        /\ \A e \in Epochs : e # m[1].epoch => reports'[e] = reports[e]
        BY <1>1, <1>2, <2>1, <2>2
  <2>7. \A i \in 1 .. Len(map') : i + 1 \in 1 .. Len(m) /\ map'[i] = m[i + 1] /\ m[i + 1].epoch # m[1].epoch
    <3> TAKE i \in 1 .. Len(map')
    <3>1. i + 1 \in 1 .. Len(m) /\ 1 < i + 1 /\ map'[i] = m[i + 1]
          BY <1>1, <2>4
    <3>2. m[1].epoch < m[i + 1].epoch /\ m[1].epoch \in Epochs
          BY <1>1, <2>1, <3>1
    <3> QED  BY <3>1, <3>2 DEF Epochs
  <2>8. \A i \in 1 .. Len(m) : i # 1 => i - 1 \in 1 .. Len(map') /\ map'[i - 1] = m[i]
    <3> TAKE i \in 1 .. Len(m)
    <3> HAVE i # 1
    <3>1. i - 1 \in 1 .. Len(m) - 1 /\ (i - 1) + 1 = i
          BY <1>1
    <3> QED  BY <2>4, <3>1
  <2>9. \A a \in Actors : m[1].epoch \notin Range(states'[a].inflight)
        BY <2>1 DEF MapOk
  <2>10. reports[m[1].epoch] = reported[m[1].epoch]
    <3>1. \A k \in 1 .. Len(events'), a \in Actors : ~IsReport(events'[k], a, m[1].epoch)
          BY <2>9 DEF IsReport
    <3>2. \A a \in Actors : a \in reported[m[1].epoch] <=> a \in reports[m[1].epoch]
          BY <2>1, <3>1 DEF MapOk
    <3>3. reports[m[1].epoch] \subseteq Actors /\ reported[m[1].epoch] \subseteq Actors
          BY <1>1, <2>1 DEF TypeInv
    <3> QED  BY <3>2, <3>3
  <2>11. \A i \in 1 .. Len(completing') :
           /\ completing'[i].epoch = barriers[i].epoch /\ completing'[i].sync = barriers[i].due
           /\ \A a \in barriers[i].collect : passed[a] >= barriers[i].epoch
           /\ completing'[i].reports = reported[completing'[i].epoch]
    <3> TAKE i \in 1 .. Len(completing')
    <3>1. CASE i \in 1 .. Len(completing)
          BY <2>5, <3>1 DEF MapOk
    <3>2. CASE i = Len(completing) + 1
      <4>1. /\ m[1].epoch = barriers[i].epoch /\ m[1].sync = barriers[i].due
            /\ \A a \in barriers[i].collect : a \in m[1].remaining \/ passed[a] >= barriers[i].epoch
            BY <2>1, <3>2 DEF MapOk
      <4> QED  BY <2>1, <2>3, <2>5, <2>10, <3>2, <4>1
    <3> QED  BY <1>1, <2>5, <3>1, <3>2
  <2>12. \A i \in 1 .. Len(map') :
           /\ map'[i].epoch = barriers[Len(completing') + i].epoch
           /\ map'[i].sync = barriers[Len(completing') + i].due
           /\ \A a \in barriers[Len(completing') + i].collect :
                a \in map'[i].remaining \/ passed[a] >= barriers[Len(completing') + i].epoch
    <3> TAKE i \in 1 .. Len(map')
    <3>1. Len(completing') + i = Len(completing) + (i + 1)
          BY <1>1, <2>4, <2>5
    <3> QED  BY <2>7, <3>1 DEF MapOk
  <2>13. \A i \in 1 .. Len(map'), a \in Actors :
           /\ a \in map'[i].remaining <=> map'[i].epoch \in Range(states'[a].inflight)
           /\ a \in reported[map'[i].epoch] <=>
                \/ a \in reports'[map'[i].epoch]
                \/ \E k \in 1 .. Len(events') : IsReport(events'[k], a, map'[i].epoch)
    <3> TAKE i \in 1 .. Len(map'), a \in Actors
    <3>1. reports'[map'[i].epoch] = reports[m[i + 1].epoch]
          BY <1>1, <2>6, <2>7
    <3> QED  BY <2>7, <3>1 DEF MapOk
  <2>14. \A a \in Actors : \A e \in Range(states'[a].inflight) : \E i \in 1 .. Len(map') : map'[i].epoch = e
    <3> TAKE a \in Actors
    <3> TAKE e \in Range(states'[a].inflight)
    <3>1. PICK i \in 1 .. Len(m) : m[i].epoch = e
          BY DEF MapOk
    <3>2. i # 1
          BY <2>9, <3>1
    <3> QED  BY <2>8, <3>1, <3>2
  <2>15. \A e \in Epochs : reports'[e] # {} => \E i \in 1 .. Len(map') : map'[i].epoch = e
    <3> TAKE e \in Epochs
    <3> HAVE reports'[e] # {}
    <3>1. e # m[1].epoch /\ reports[e] # {}
          BY <2>6
    <3>2. PICK i \in 1 .. Len(m) : m[i].epoch = e
          BY <3>1 DEF MapOk
    <3> QED  BY <2>8, <3>1, <3>2
  <2>16. Len(completing') + Len(map') = Len(barriers)
    <3>1. Len(m) \in Nat /\ Len(completing) \in Nat /\ Len(completing) + Len(m) = Len(barriers)
          BY <1>1
    <3>2. Len(completing') = Len(completing) + 1 /\ Len(map') = Len(m) - 1
          BY <2>4, <2>5
    <3>3. \A x, y \in Nat : (x + 1) + (y - 1) = x + y
          OBVIOUS
    <3> QED  BY <3>1, <3>2, <3>3, Zenon
  <2>17. MapOk(map, completing, reports, states, events)'
        BY <2>11, <2>12, <2>13, <2>14, <2>15, <2>16 DEF MapOk
  <2> QED  BY <2>4, <2>5, <2>6, <2>17
<1> QED  BY <1>3, <1>4

\* A barrier that was collected earlier is completed.
LEMMA PollCollectedStep == MBInv /\ PollCollected => MBInv'
<1> SUFFICES ASSUME MBInv, PollCollected PROVE MBInv'
    OBVIOUS
<1>1. /\ TypeInv /\ TablesInv /\ BarriersInv /\ MapOk(map, completing, reports, states, events)
      /\ (\A b \in Actors : StateOk(b) /\ ActorOk(b)) /\ EventsInv
      BY DEF MBInv, Running, PollCollected
<1>2. /\ graph = "running" /\ Completed(map, reports)
      /\ UNCHANGED <<metaVars, graph, states, prevTables, events, failures, actorVars>>
      BY DEF PollCollected
<1>3. /\ UNCHANGED <<barriers, passed, reported, states, events>>
      BY <1>2 DEF metaVars, actorVars
<1>4. MapOk(map, completing, reports, states', events') /\ map \in Seq(PendingType)
      BY <1>1, <1>3 DEF TypeInv
<1>5. \A k \in 1 .. Len(events) : events[k].kind = "report" =>
        events[k].actor \in Actors /\ events[k].epoch \in Range(states[events[k].actor].inflight)
      BY <1>1, ReportInFlight, EventFacts DEF EventsInv, Flying
<1>6. /\ map' \in Seq(PendingType) /\ completing' \in Seq(FutureType)
      /\ reports' \in [Epochs -> SUBSET Actors]
      /\ MapOk(map, completing, reports, states, events)'
      BY <1>1, <1>2, <1>3, <1>4, <1>5, CompletedStep
<1>7. TypeInv'
      BY <1>1, <1>2, <1>6 DEF TypeInv, metaVars, actorVars
<1>8. TablesInv' /\ BarriersInv'
      BY <1>1, <1>2 DEF TablesInv, BarriersInv, metaVars, actorVars
<1>9. \A b \in Actors : StateOk(b)' /\ ActorOk(b)'
      BY <1>1, <1>2 DEF StateOk, ActorOk, Flying, metaVars, actorVars
<1>10. EventsInv'
      BY <1>1, <1>3, EventsUntouched
<1> QED  BY <1>2, <1>6, <1>7, <1>8, <1>9, <1>10 DEF MBInv, Running

\* An actor's collections come in the order its barriers were issued: the first
\* is of the oldest barrier in flight, so no assertion of the two collect
\* functions fails.
LEMMA CollectedInOrder ==
  ASSUME MBInv, NextEvent("collect"), NEW a \in Actors, NEW e \in Epochs,
         events[1].actor = a, events[1].epoch = e
  PROVE  /\ MayCollect(a, e) /\ e \in Flying(a) /\ e <= passed[a] /\ states[a].exists
         /\ states[a].inflight # <<>> /\ Head(states[a].inflight) = e
         /\ states[a].senders = Receivers
<1>1. /\ TypeInv /\ MapOk(map, completing, reports, states, events)
      /\ StateOk(a) /\ CollectsOk
      BY DEF MBInv, Running, NextEvent, EventsInv
<1>2. 1 \in 1 .. Len(events) /\ events[1].kind = "collect"
      BY <1>1, TakeEvent
<1>3. e \in Flying(a) /\ e <= passed[a] /\ passed[a] \in Nat /\ Flying(a) \subseteq Epochs
      BY <1>1, <1>2, ActorFacts DEF CollectsOk
<1>4. states[a].inflight \in Seq(Epochs) /\ states[a].inflight # <<>> /\ Increasing(states[a].inflight)
      BY <1>1, <1>3, ActorFacts DEF Flying, Range, StateOk
<1> DEFINE h == Head(states[a].inflight)
<1>5. h \in Epochs /\ h \in Flying(a) /\ \A x \in Flying(a) : x = h \/ h < x
      BY <1>4, IncreasingTail DEF Flying
<1>6. h = e
  <2> HIDE DEF h
  <2>1. h <= passed[a] /\ (h = e \/ h < e)
        BY <1>3, <1>5 DEF Epochs
  <2>2. PICK i \in 1 .. Len(events) : IsCollect(events[i], a, h)
        BY <1>1, <1>5, <2>1 DEF CollectsOk
  <2>3. CASE i = 1
        BY <2>2, <2>3 DEF IsCollect
  <2>4. CASE i # 1
    <3>1. 1 < i
          BY <1>2, <2>4
    <3>2. e < h
          BY <1>1, <1>2, <2>2, <3>1 DEF CollectsOk, IsCollect
    <3> QED  BY <1>3, <1>5, <2>1, <3>2 DEF Epochs
  <2> QED  BY <2>3, <2>4
<1>7. states[a].exists
      BY <1>1, <1>4 DEF StateOk, NoState
<1>8. states[a].senders = Receivers
      BY <1>1, <1>3, <1>7 DEF StateOk, Epochs
<1>9. PICK i \in 1 .. Len(map) : map[i].epoch = e
      BY <1>1, <1>3 DEF MapOk, Flying
<1>10. a \in map[i].remaining
      BY <1>1, <1>3, <1>9 DEF MapOk, Flying
<1>11. i \in DOMAIN map
      BY <1>1 DEF TypeInv
<1>12. states[a].first # <<>> => Head(states[a].first) = e
      BY <1>1, <1>6 DEF StateOk
<1> QED  BY <1>3, <1>4, <1>6, <1>7, <1>8, <1>9, <1>10, <1>11, <1>12 DEF MayCollect

\* An actor collects a barrier.
LEMMA PollCollectStep == MBInv /\ PollCollect => MBInv'
<1> SUFFICES ASSUME MBInv, PollCollect PROVE MBInv'
    OBVIOUS
<1>1. /\ TypeInv /\ TablesInv /\ BarriersInv /\ MapOk(map, completing, reports, states, events)
      /\ (\A b \in Actors : StateOk(b) /\ ActorOk(b)) /\ EventsInv /\ NextEvent("collect")
      BY DEF MBInv, Running, PollCollect, NextEvent
<1>2. /\ graph = "running" /\ Head(events) = events[1] /\ 1 \in 1 .. Len(events)
      /\ events[1].kind = "collect"
      /\ events' \in Seq(EventType) /\ Len(events') \in Nat
      /\ DOMAIN events' = 1 .. Len(events')
      /\ \A i \in 1 .. Len(events') : i + 1 \in 1 .. Len(events) /\ i + 1 > 1 /\ events'[i] = events[i + 1]
      /\ \A i \in 1 .. Len(events) : i # 1 => i - 1 \in 1 .. Len(events') /\ events'[i - 1] = events[i]
      BY <1>1, TakeEvent
<1>3. PICK a \in Actors, e \in Epochs : events[1].actor = a /\ events[1].epoch = e
      BY <1>1, <1>2, EventFacts
<1>4. /\ MayCollect(a, e) /\ e \in Flying(a) /\ e <= passed[a] /\ states[a].exists
      /\ states[a].inflight # <<>> /\ Head(states[a].inflight) = e
      /\ states[a].senders = Receivers
      BY <1>1, <1>3, CollectedInOrder
<1>5. PICK m : m = [i \in DOMAIN map |->
                      IF map[i].epoch = e THEN [map[i] EXCEPT !.remaining = @ \ {a}] ELSE map[i]]
      OBVIOUS
<1>6. /\ states' = [states EXCEPT ![a] = CollectedBy(@)]
      /\ Completed(m, reports) /\ graph' = graph
      /\ UNCHANGED <<metaVars, prevTables, failures, actorVars>>
  <2> DEFINE mm == [i \in DOMAIN map |->
                      IF map[i].epoch = e THEN [map[i] EXCEPT !.remaining = @ \ {a}] ELSE map[i]]
  <2>1. IF MayCollect(a, e)
        THEN /\ states' = [states EXCEPT ![a] = CollectedBy(@)]
             /\ Completed(mm, reports)
             /\ graph' = graph
        ELSE /\ graph' = "panic"
             /\ UNCHANGED <<states, map, reports, completing>>
        BY <1>2, <1>3, Zenon DEF PollCollect
  <2>2. UNCHANGED <<metaVars, prevTables, failures, actorVars>>
        BY DEF PollCollect
  <2>3. m = mm
        BY <1>5
  <2> HIDE DEF mm
  <2> QED  BY <1>4, <2>1, <2>2, <2>3
<1>7. UNCHANGED <<epoch, live, barriers, answered, passed, reported, task, rx>>
      BY <1>6 DEF metaVars, actorVars
<1>8. /\ m \in Seq(PendingType) /\ Len(m) = Len(map) /\ Len(map) \in Nat
      /\ \A i \in 1 .. Len(map) :
           /\ m[i].epoch = map[i].epoch /\ m[i].sync = map[i].sync
           /\ \A b : b \in m[i].remaining <=> b \in map[i].remaining /\ ~(b = a /\ map[i].epoch = e)
  <2>1. /\ map \in Seq(PendingType) /\ Len(map) \in Nat /\ DOMAIN map = 1 .. Len(map)
        /\ \A i \in 1 .. Len(map) : map[i] \in PendingType
        BY <1>1 DEF TypeInv
  <2>2. \A p \in PendingType : [p EXCEPT !.remaining = @ \ {a}] \in PendingType
        BY DEF PendingType
  <2>3. \A i \in 1 .. Len(map) : m[i] \in PendingType
        BY <1>5, <2>1, <2>2
  <2>4. m \in Seq(PendingType) /\ Len(m) = Len(map)
        BY <1>5, <2>1, <2>3
  <2>5. ASSUME NEW i \in 1 .. Len(map)
        PROVE  /\ m[i].epoch = map[i].epoch /\ m[i].sync = map[i].sync
               /\ \A b : b \in m[i].remaining <=> b \in map[i].remaining /\ ~(b = a /\ map[i].epoch = e)
    <3>1. CASE map[i].epoch = e
      <4>1. m[i] = [map[i] EXCEPT !.remaining = @ \ {a}] /\ map[i] \in PendingType
            BY <1>5, <2>1, <3>1
      <4> QED  BY <3>1, <4>1 DEF PendingType
    <3>2. CASE map[i].epoch # e
      <4>1. m[i] = map[i]
            BY <1>5, <2>1, <3>2
      <4> QED  BY <3>2, <4>1
    <3> QED  BY <3>1, <3>2
  <2> QED  BY <2>1, <2>4, <2>5
\* What is in flight at the actor afterwards.
<1>9. /\ states[a].inflight \in Seq(Epochs) /\ Increasing(Tail(states[a].inflight))
      /\ Tail(states[a].inflight) \in Seq(Epochs) /\ Len(states[a].inflight) \in Nat
      /\ Flying(a) = {e} \cup Range(Tail(states[a].inflight))
      /\ \A x \in Range(Tail(states[a].inflight)) : e < x
      /\ Len(Tail(states[a].inflight)) = Len(states[a].inflight) - 1 /\ Len(states[a].inflight) >= 1
      BY <1>1, <1>4, ActorFacts, IncreasingTail DEF StateOk, Flying
<1>10. PICK gone \in BOOLEAN : gone <=> Len(states[a].inflight) = 1 /\ states[a].stopping
      OBVIOUS
<1>11. /\ states' \in [Actors -> StateType]
       /\ \A b \in Actors : b # a => states'[b] = states[b]
       /\ gone => states'[a] = NoState
       /\ ~gone => /\ states'[a].inflight = Tail(states[a].inflight) /\ states'[a].first = <<>>
                   /\ states'[a].max = states[a].max /\ states'[a].stopping = states[a].stopping
                   /\ states'[a].senders = states[a].senders /\ states'[a].exists = states[a].exists
  <2>1. /\ states \in [Actors -> StateType] /\ states[a] \in StateType
        /\ states'[a] = CollectedBy(states[a])
        /\ \A b \in Actors : b # a => states'[b] = states[b]
        BY <1>1, <1>6 DEF TypeInv
  <2>2. NoState \in StateType
        BY ManagedAssumption DEF NoState, StateType
  <2>3. CASE gone
    <3>1. states'[a] = NoState
          BY <1>10, <2>1, <2>3 DEF CollectedBy
    <3>2. states' \in [Actors -> StateType]
          BY <1>6, <2>1, <2>2, <3>1
    <3> QED  BY <2>1, <2>3, <3>1, <3>2
  <2>4. CASE ~gone
    <3>1. states'[a] = [states[a] EXCEPT !.inflight = Tail(@), !.first = <<>>]
          BY <1>10, <2>1, <2>4 DEF CollectedBy
    <3>2. <<>> \in Seq(Epochs)
          OBVIOUS
    <3>3. states'[a] \in StateType
          BY <1>9, <2>1, <3>1, <3>2 DEF StateType
    <3>4. states' \in [Actors -> StateType]
          BY <1>6, <2>1, <3>3
    <3>5. /\ states'[a].inflight = Tail(states[a].inflight) /\ states'[a].first = <<>>
          /\ states'[a].max = states[a].max /\ states'[a].stopping = states[a].stopping
          /\ states'[a].senders = states[a].senders /\ states'[a].exists = states[a].exists
          BY <2>1, <3>1 DEF StateType
    <3> QED  BY <2>1, <2>4, <3>4, <3>5
  <2> QED  BY <2>3, <2>4
<1>12. /\ \A x : x \in Range(states'[a].inflight) <=> x \in Flying(a) /\ x # e
       /\ \A b \in Actors : b # a => Range(states'[b].inflight) = Flying(b)
  <2>1. CASE gone
    <3>1. Len(Tail(states[a].inflight)) = 0
          BY <1>9, <1>10, <2>1
    <3>2. Tail(states[a].inflight) = <<>>
          BY <1>9, <3>1, EmptyQueue
    <3>3. states'[a].inflight = <<>>
          BY <1>11, <2>1 DEF NoState
    <3>4. Range(<<>>) = {}
          BY DEF Range
    <3>5. Flying(a) = {e}
          BY <1>9, <3>2, <3>4
    <3> QED  BY <1>11, <3>3, <3>4, <3>5 DEF Flying
  <2>2. CASE ~gone
        BY <1>9, <1>11, <2>2 DEF Flying, Epochs
  <2> QED  BY <2>1, <2>2
\* The map.
<1>13. MapOk(m, completing, reports, states', events')
  <2>1. \A b \in Actors : \A x \in Epochs :
          (\E k \in 1 .. Len(events) : IsReport(events[k], b, x)) <=>
            \E k \in 1 .. Len(events') : IsReport(events'[k], b, x)
    <3> TAKE b \in Actors
    <3> TAKE x \in Epochs
    <3>1. ~IsReport(events[1], b, x)
          BY <1>2 DEF IsReport
    <3> QED  BY <1>2, <3>1
  <2>2. \A i \in 1 .. Len(map) : map[i].epoch \in Epochs
        BY <1>1, BarrierFacts
  <2>3. \A i \in 1 .. Len(m), b \in Actors :
          /\ b \in m[i].remaining <=> m[i].epoch \in Range(states'[b].inflight)
          /\ b \in reported[m[i].epoch] <=>
               \/ b \in reports[m[i].epoch]
               \/ \E k \in 1 .. Len(events') : IsReport(events'[k], b, m[i].epoch)
    <3> TAKE i \in 1 .. Len(m), b \in Actors
    <3>1. /\ b \in map[i].remaining <=> map[i].epoch \in Flying(b)
          /\ b \in reported[map[i].epoch] <=>
               \/ b \in reports[map[i].epoch]
               \/ \E k \in 1 .. Len(events) : IsReport(events[k], b, map[i].epoch)
          BY <1>1, <1>8 DEF MapOk, Flying
    <3>2. m[i].epoch = map[i].epoch /\ map[i].epoch \in Epochs
          BY <1>8, <2>2
    <3>3. b \in m[i].remaining <=> m[i].epoch \in Range(states'[b].inflight)
      <4>1. CASE b = a
            BY <1>8, <1>12, <3>1, <3>2, <4>1
      <4>2. CASE b # a
            BY <1>8, <1>12, <3>1, <3>2, <4>2
      <4> QED  BY <4>1, <4>2
    <3> QED  BY <2>1, <3>1, <3>2, <3>3
  <2>4. \A b \in Actors : \A x \in Range(states'[b].inflight) : \E i \in 1 .. Len(m) : m[i].epoch = x
    <3> TAKE b \in Actors
    <3> TAKE x \in Range(states'[b].inflight)
    <3>1. x \in Flying(b)
          BY <1>12
    <3>2. PICK i \in 1 .. Len(map) : map[i].epoch = x
          BY <1>1, <3>1 DEF MapOk, Flying
    <3> QED  BY <1>8, <3>2
  <2>5. \A i \in 1 .. Len(m) :
          LET b == barriers[Len(completing) + i]
          IN  /\ m[i].epoch = b.epoch /\ m[i].sync = b.due
              /\ \A x \in b.collect : x \in m[i].remaining \/ passed[x] >= b.epoch
        BY <1>1, <1>4, <1>8 DEF MapOk
  <2>6. \A x \in Epochs : reports[x] # {} => \E i \in 1 .. Len(m) : m[i].epoch = x
    <3> TAKE x \in Epochs
    <3> HAVE reports[x] # {}
    <3>1. PICK i \in 1 .. Len(map) : map[i].epoch = x
          BY <1>1 DEF MapOk
    <3> QED  BY <1>8, <3>1
  <2> QED  BY <1>1, <1>8, <2>3, <2>4, <2>5, <2>6 DEF MapOk
\* The events.
<1>14. CollectsOk'
  <2>1. ASSUME NEW i \in 1 .. Len(events'), events'[i].kind = "collect"
        PROVE  /\ events'[i].epoch \in Range(states'[events'[i].actor].inflight)
               /\ events'[i].epoch <= passed'[events'[i].actor]
    <3>1. i + 1 \in 1 .. Len(events) /\ 1 < i + 1 /\ events'[i] = events[i + 1]
          BY <1>2
    <3>2. events[i + 1].actor \in Actors
          BY <1>1, <3>1, EventFacts
    <3>3. /\ events[i + 1].epoch \in Flying(events[i + 1].actor)
          /\ events[i + 1].epoch <= passed[events[i + 1].actor]
          /\ events[i + 1].actor = a => e < events[i + 1].epoch
          BY <1>1, <1>2, <1>3, <2>1, <3>1 DEF EventsInv, CollectsOk
    <3>4. events[i + 1].actor = a => events[i + 1].epoch # e
          BY <3>3 DEF Epochs
    <3> QED  BY <1>7, <1>12, <3>1, <3>2, <3>3, <3>4
  <2>2. ASSUME NEW b \in Actors, NEW x \in Range(states'[b].inflight), x <= passed'[b]
        PROVE  \E i \in 1 .. Len(events') : IsCollect(events'[i], b, x)
    <3>1. x \in Flying(b) /\ ~(b = a /\ x = e)
          BY <1>12
    <3>2. PICK i \in 1 .. Len(events) : IsCollect(events[i], b, x)
          BY <1>1, <1>7, <2>2, <3>1 DEF EventsInv, CollectsOk
    <3>3. i # 1
          BY <1>3, <3>1, <3>2 DEF IsCollect
    <3> QED  BY <1>2, <3>2, <3>3
  <2>3. ASSUME NEW i \in 1 .. Len(events'), NEW j \in 1 .. Len(events'), i < j,
               events'[i].kind = "collect", events'[j].kind = "collect",
               events'[i].actor = events'[j].actor
        PROVE  events'[i].epoch < events'[j].epoch
    <3>1. /\ i + 1 \in 1 .. Len(events) /\ j + 1 \in 1 .. Len(events) /\ i + 1 < j + 1
          /\ events'[i] = events[i + 1] /\ events'[j] = events[j + 1]
          BY <1>2, <2>3
    <3> QED  BY <1>1, <2>3, <3>1 DEF EventsInv, CollectsOk
  <2> QED  BY <2>1, <2>2, <2>3 DEF CollectsOk, Flying
<1>15. ReportsOk'
      BY <1>1, ReportsShift
<1>16. /\ \A i \in 1 .. Len(events') : events'[i].kind = "register" =>
            /\ states[events'[i].actor].exists
            /\ events'[i].rx \notin states[events'[i].actor].senders
            /\ events'[i].actor \in Actors /\ events'[i].rx \in Receivers
       /\ \A i, j \in 1 .. Len(events') :
            i < j /\ events'[i].kind = "register" /\ events'[j].kind = "register"
              /\ events'[i].actor = events'[j].actor => events'[i].rx # events'[j].rx
       /\ \A b \in Actors : states'[b].senders = states[b].senders => SubscribedBy(b)' = SubscribedBy(b)
      BY <1>1, RegistersStay
<1>17. \A i \in 1 .. Len(events') : events'[i].kind = "register" => events'[i].actor # a
      BY <1>4, <1>16
<1>18. RegistersOk'
      BY <1>11, <1>16, <1>17 DEF RegistersOk
<1>19. SubscriptionsOk'
  <2>1. ASSUME NEW b \in Actors PROVE \E k \in 0 .. NumReceivers : SubscribedBy(b)' = 1 .. k
    <3>1. CASE states'[b].senders = states[b].senders
          BY <1>1, <1>16, <3>1 DEF EventsInv, SubscriptionsOk
    <3>2. CASE states'[b].senders # states[b].senders
      <4>1. b = a /\ states'[a] = NoState
            BY <1>11, <3>2
      <4>2. SubscribedBy(b)' = {}
            BY <1>2, <1>17, <4>1 DEF SubscribedBy, NoState
      <4>3. {} = 1 .. 0 /\ 0 \in 0 .. NumReceivers
            BY ManagedAssumption
      <4> QED  BY <4>2, <4>3
    <3> QED  BY <3>1, <3>2
  <2> QED  BY <2>1 DEF SubscriptionsOk
<1>20. EventsInv'
      BY <1>14, <1>15, <1>18, <1>19 DEF EventsInv
\* The barrier is completed if this was the last actor.
<1>21. \A k \in 1 .. Len(events') : events'[k].kind = "report" =>
         events'[k].actor \in Actors /\ events'[k].epoch \in Range(states'[events'[k].actor].inflight)
  <2> TAKE k \in 1 .. Len(events')
  <2> HAVE events'[k].kind = "report"
  <2>1. PICK j \in 1 .. Len(events') : IsCollect(events'[j], events'[k].actor, events'[k].epoch)
        BY <1>15 DEF ReportsOk
  <2>2. events'[k].actor \in Actors
        BY <1>1, <1>2, EventFacts
  <2> QED  BY <1>14, <2>1, <2>2 DEF CollectsOk, IsCollect, Flying
<1>22. /\ map' \in Seq(PendingType) /\ completing' \in Seq(FutureType)
       /\ reports' \in [Epochs -> SUBSET Actors]
       /\ MapOk(map, completing, reports, states, events)'
      BY <1>1, <1>6, <1>7, <1>8, <1>13, <1>21, CompletedStep
<1>23. TypeInv'
      BY <1>1, <1>2, <1>6, <1>11, <1>22 DEF TypeInv, metaVars, actorVars
<1>24. TablesInv' /\ BarriersInv'
      BY <1>1, <1>6 DEF TablesInv, BarriersInv, metaVars, actorVars
\* The actor.
<1>25. \A b \in Actors : b # a => StateOk(b)' /\ ActorOk(b)'
      BY <1>1, <1>7, <1>11 DEF StateOk, ActorOk, Flying
<1>26. StateOk(a)'
  <2>1. CASE gone
    <3>1. a \notin live
          BY <1>1, <1>10, <2>1 DEF StateOk
    <3>2. states'[a].max < epoch
          BY <1>1, <1>11, <2>1 DEF NoState, TypeInv
    <3>3. Increasing(<<>>)
          BY DEF Increasing
    <3> QED  BY <1>7, <1>11, <2>1, <3>1, <3>2, <3>3 DEF StateOk, NoState
  <2>2. CASE ~gone
    <3>1. Len(states'[a].inflight) = Len(states[a].inflight) - 1
          BY <1>9, <1>11, <2>2
    <3>2. states[a].stopping => states'[a].inflight # <<>>
      <4>1. HAVE states[a].stopping
      <4>2. Len(states[a].inflight) - 1 # 0
            BY <1>9, <1>10, <2>2, <4>1
      <4> QED  BY <3>1, <4>2
    <3>3. states'[a].inflight # <<>> => states'[a].inflight[Len(states'[a].inflight)] = states[a].max
      <4>1. HAVE states'[a].inflight # <<>>
      <4>2. Len(states'[a].inflight) >= 1
            BY <1>9, <1>11, <2>2, <4>1
      <4>3. \A i \in 1 .. Len(states[a].inflight) - 1 : Tail(states[a].inflight)[i] = states[a].inflight[i + 1]
            BY <1>4, <1>9, TailElements
      <4>4. PICK n \in Nat : n = Len(states[a].inflight)
            BY <1>9
      <4>5. n - 1 \in 1 .. n - 1 /\ (n - 1) + 1 = n
            BY <3>1, <4>2, <4>4
      <4>6. states'[a].inflight[n - 1] = states[a].inflight[n]
            BY <1>11, <2>2, <4>3, <4>4, <4>5
      <4> QED  BY <1>1, <1>4, <3>1, <4>4, <4>6 DEF StateOk
    <3> QED  BY <1>1, <1>4, <1>7, <1>9, <1>11, <2>2, <3>2, <3>3 DEF StateOk
  <2> QED  BY <2>1, <2>2
<1>27. ActorOk(a)'
  <2>1. CASE gone
    <3>1. task[a] = "exited"
      <4>1. states[a].inflight[1] = e /\ Len(states[a].inflight) = 1
            BY <1>4, <1>9, <1>10, <2>1, IncreasingTail
      <4>2. states[a].max = e
            BY <1>1, <1>4, <4>1 DEF StateOk
      <4> QED  BY <1>1, <1>4, <1>10, <2>1, <4>2 DEF StateOk
    <3>2. \A x \in Flying(a) : ~(x > passed[a])
      <4>1. Range(Tail(states[a].inflight)) = {}
            BY <1>9, <1>10, <2>1 DEF Range
      <4>2. passed[a] \in Nat
            BY <1>1, ActorFacts
      <4> QED  BY <1>4, <1>9, <4>1, <4>2 DEF Epochs
    <3>3. ASSUME NEW r \in Receivers PROVE rx[a][r] = <<>>
      <4>1. rx[a][r] \in Seq(Epochs) /\ \A x \in Epochs : x \notin Range(rx[a][r])
            BY <1>1, <1>4, <3>2, ActorFacts DEF ActorOk
      <4>2. rx[a][r] # <<>> => Head(rx[a][r]) \in Epochs /\ Head(rx[a][r]) \in Range(rx[a][r])
            BY <4>1, TailElements, TailRange
      <4> QED  BY <4>1, <4>2
    <3> QED  BY <1>1, <1>7, <1>11, <2>1, <3>1, <3>3 DEF ActorOk, NoState
  <2>2. CASE ~gone
    <3>1. \A x \in Epochs : x \in Flying(a)' /\ x > passed[a] <=> x \in Flying(a) /\ x > passed[a]
      <4>1. passed[a] \in Nat /\ ~(e > passed[a])
            BY <1>1, <1>4, ActorFacts DEF Epochs
      <4> QED  BY <1>12, <4>1 DEF Flying
    <3> QED  BY <1>1, <1>4, <1>7, <1>11, <2>2, <3>1 DEF ActorOk
  <2> QED  BY <2>1, <2>2
<1> QED  BY <1>2, <1>6, <1>20, <1>22, <1>23, <1>24, <1>25, <1>26, <1>27 DEF MBInv, Running

\* A barrier is answered: the oldest one, for that is what is completed first.
LEMMA OnEpochCompletedStep == MBInv /\ OnEpochCompleted => MBInv'
<1> SUFFICES ASSUME MBInv, OnEpochCompleted PROVE MBInv'
    OBVIOUS
<1>1. /\ TypeInv /\ TablesInv /\ BarriersInv /\ MapOk(map, completing, reports, states, events)
      /\ (\A b \in Actors : StateOk(b) /\ ActorOk(b)) /\ EventsInv /\ graph = "running"
      BY DEF MBInv, Running, OnEpochCompleted
<1>2. UNCHANGED <<epoch, live, tables, unsynced, graph, states, graphVars, events,
                  failures, task, rx, passed>>
      BY DEF OnEpochCompleted
<1>3. PICK i \in NextCompleted, k \in DOMAIN barriers :
        LET e == completing[i].epoch
        IN  /\ barriers[k].epoch = e
            /\ answered' = e
            /\ barriers' = RemoveAt(barriers, k)
            /\ reported' = [reported EXCEPT ![e] = {}]
            /\ completing' = RemoveAt(completing, i)
      BY DEF OnEpochCompleted
<1>4. /\ Len(barriers) \in Nat /\ Len(map) \in Nat /\ Len(completing) \in Nat
      /\ completing \in Seq(FutureType) /\ barriers \in Seq(BarrierType)
      /\ Len(completing) + Len(map) = Len(barriers)
      /\ \A j \in 1 .. Len(barriers) : barriers[j].epoch \in Epochs
      BY <1>1, BarrierFacts DEF TypeInv, MapOk
<1>5. i = 1 /\ 1 \in 1 .. Len(completing) /\ k \in 1 .. Len(barriers)
      BY <1>3, <1>4 DEF NextCompleted
<1>6. completing # <<>> /\ barriers # <<>> /\ 1 \in 1 .. Len(barriers)
      BY <1>4, <1>5
<1>7. PICK e \in Epochs : e = completing[1].epoch /\ e = barriers[1].epoch
      BY <1>1, <1>4, <1>5, <1>6 DEF MapOk
<1>8. k = 1
  <2>1. k # 1 => 1 < k
        BY <1>5
  <2>2. barriers[k].epoch = e
        BY <1>3, <1>5, <1>7
  <2> QED  BY <1>1, <1>5, <1>6, <1>7, <2>1, <2>2 DEF BarriersInv, Epochs
<1>9. /\ answered' = e /\ barriers' = Tail(barriers) /\ completing' = Tail(completing)
      /\ reported' = [reported EXCEPT ![e] = {}]
  <2>1. RemoveAt(barriers, 1) = Tail(barriers) /\ RemoveAt(completing, 1) = Tail(completing)
        BY <1>4, <1>6, RemoveFirstElement
  <2> QED  BY <1>3, <1>5, <1>7, <1>8, <2>1
<1>10. /\ barriers' \in Seq(BarrierType) /\ Len(barriers') = Len(barriers) - 1
       /\ \A j \in 1 .. Len(barriers) - 1 : barriers'[j] = barriers[j + 1]
      BY <1>4, <1>6, <1>9, TailElements
<1>11. /\ completing' \in Seq(FutureType) /\ Len(completing') = Len(completing) - 1
       /\ \A j \in 1 .. Len(completing) - 1 : completing'[j] = completing[j + 1]
      BY <1>4, <1>6, <1>9, TailElements
<1>12. /\ reported' \in [Epochs -> SUBSET Actors] /\ reported'[e] = {}
       /\ \A x \in Epochs : x # e => reported'[x] = reported[x]
      BY <1>1, <1>9 DEF TypeInv
<1>13. \A j \in 1 .. Len(barriers') : /\ j + 1 \in 1 .. Len(barriers) /\ barriers'[j] = barriers[j + 1]
                                      /\ e < barriers[j + 1].epoch /\ barriers[j + 1].epoch # e
  <2> TAKE j \in 1 .. Len(barriers')
  <2>1. j + 1 \in 1 .. Len(barriers) /\ 1 < j + 1 /\ barriers'[j] = barriers[j + 1]
        BY <1>4, <1>10
  <2>2. e < barriers[j + 1].epoch
        BY <1>1, <1>6, <1>7, <2>1 DEF BarriersInv
  <2> QED  BY <1>4, <2>1, <2>2 DEF Epochs
<1>14. \A j \in 1 .. Len(barriers) : j # 1 => j - 1 \in 1 .. Len(barriers') /\ barriers'[j - 1] = barriers[j]
  <2> TAKE j \in 1 .. Len(barriers)
  <2> HAVE j # 1
  <2>1. j - 1 \in 1 .. Len(barriers) - 1 /\ (j - 1) + 1 = j
        BY <1>4
  <2> QED  BY <1>10, <2>1
<1>15. TypeInv'
  <2>1. e \in 0 .. MaxEpoch
        BY ManagedAssumption DEF Epochs
  <2> QED  BY <1>1, <1>2, <1>9, <1>10, <1>11, <1>12, <2>1 DEF TypeInv, graphVars
<1>16. TablesInv'
      BY <1>1, <1>2 DEF TablesInv, graphVars
<1>17. BarriersInv'
  <2>1. answered' < epoch'
        BY <1>1, <1>2, <1>6, <1>7, <1>9 DEF BarriersInv
  <2>2. \A j \in 1 .. Len(barriers') : answered' < barriers'[j].epoch /\ barriers'[j].epoch < epoch'
        BY <1>1, <1>2, <1>9, <1>13 DEF BarriersInv
  <2>3. ASSUME NEW j \in 1 .. Len(barriers'), NEW l \in 1 .. Len(barriers'), j < l
        PROVE  barriers'[j].epoch < barriers'[l].epoch
    <3>1. j + 1 < l + 1
          BY <1>4, <1>10, <2>3
    <3> QED  BY <1>1, <1>13, <3>1 DEF BarriersInv
  <2>4. ASSUME NEW x \in Epochs, reported'[x] # {}
        PROVE  \E j \in 1 .. Len(barriers') : barriers'[j].epoch = x
    <3>1. x # e /\ reported[x] # {}
          BY <1>12, <2>4
    <3>2. PICK j \in 1 .. Len(barriers) : barriers[j].epoch = x
          BY <1>1, <3>1 DEF BarriersInv
    <3> QED  BY <1>7, <1>14, <3>1, <3>2
  <2> QED  BY <2>1, <2>2, <2>3, <2>4 DEF BarriersInv
<1>18. MapOk(map, completing, reports, states, events)'
  <2>1. UNCHANGED <<map, reports, states, events, passed>>
        BY <1>2 DEF graphVars
  <2>2. /\ \A j \in 1 .. Len(map) : map[j].epoch \in Epochs
        /\ \A j \in 1 .. Len(map) : completing[1].epoch < map[j].epoch
        BY <1>1, <1>4, <1>5, MapEpochs DEF TypeInv
  <2>3. \A j \in 1 .. Len(map) : reported'[map[j].epoch] = reported[map[j].epoch]
    <3> TAKE j \in 1 .. Len(map)
    <3>1. map[j].epoch \in Epochs /\ map[j].epoch # e
          BY <1>7, <2>2 DEF Epochs
    <3> QED  BY <1>12, <3>1
  <2>4. \A j \in 1 .. Len(completing') :
          /\ completing'[j].epoch = barriers'[j].epoch /\ completing'[j].sync = barriers'[j].due
          /\ \A a \in barriers'[j].collect : passed[a] >= barriers'[j].epoch
          /\ completing'[j].reports = reported'[completing'[j].epoch]
    <3> TAKE j \in 1 .. Len(completing')
    <3>1. j + 1 \in 1 .. Len(completing) /\ completing'[j] = completing[j + 1] /\ j \in 1 .. Len(barriers')
          BY <1>4, <1>10, <1>11
    <3>2. /\ completing[j + 1].epoch = barriers[j + 1].epoch
          /\ completing[j + 1].sync = barriers[j + 1].due
          /\ \A a \in barriers[j + 1].collect : passed[a] >= barriers[j + 1].epoch
          /\ completing[j + 1].reports = reported[completing[j + 1].epoch]
          BY <1>1, <3>1 DEF MapOk
    <3>3. reported'[completing[j + 1].epoch] = reported[completing[j + 1].epoch]
          BY <1>4, <1>12, <1>13, <3>1, <3>2
    <3> QED  BY <1>13, <3>1, <3>2, <3>3
  <2>5. \A j \in 1 .. Len(map) :
          LET b == barriers'[Len(completing') + j]
          IN  /\ map[j].epoch = b.epoch /\ map[j].sync = b.due
              /\ \A a \in b.collect : a \in map[j].remaining \/ passed[a] >= b.epoch
    <3> TAKE j \in 1 .. Len(map)
    <3>1. /\ Len(completing) + j # 1 /\ Len(completing) + j \in 1 .. Len(barriers)
          /\ Len(completing') + j = (Len(completing) + j) - 1
          BY <1>4, <1>5, <1>11
    <3>2. barriers'[Len(completing') + j] = barriers[Len(completing) + j]
          BY <1>14, <3>1
    <3> QED  BY <1>1, <3>2 DEF MapOk
  <2>6. Len(completing') + Len(map') = Len(barriers')
        BY <1>4, <1>10, <1>11, <2>1
  <2> QED  BY <1>1, <2>1, <2>3, <2>4, <2>5, <2>6, SMTT(30) DEF MapOk
<1>19. \A b \in Actors : StateOk(b)'
      BY <1>1, <1>2, <1>13 DEF StateOk
<1>20. \A b \in Actors : ActorOk(b)'
      BY <1>1, <1>2 DEF ActorOk, Flying
<1>21. EventsInv'
      BY <1>1, <1>2, EventsUntouched
<1> QED  BY <1>1, <1>2, <1>15, <1>16, <1>17, <1>18, <1>19, <1>20, <1>21 DEF MBInv, Running

------------------------------------------------------------------------------
(* The actors. *)

\* Run, Fail and NotifyFailure.
LEMMA TaskSteps ==
  ASSUME MBInv, NEW a \in Actors, Run(a) \/ Fail(a) \/ NotifyFailure(a)
  PROVE  MBInv'
<1>1. CASE Run(a)
      BY <1>1, TaskStep DEF Run
<1>2. CASE Fail(a)
      BY <1>2, TaskStep DEF Fail
<1>3. CASE NotifyFailure(a)
      BY <1>3, TaskStep DEF NotifyFailure
<1> QED  BY <1>1, <1>2, <1>3

\* An executor of an actor under construction subscribes, with a new number.
LEMMA SubscribeStep ==
  ASSUME MBInv, NEW a \in Actors, Subscribe(a)
  PROVE  MBInv'
<1>1. /\ TypeInv /\ TablesInv /\ BarriersInv /\ MapOk(map, completing, reports, states, events)
      /\ (\A b \in Actors : StateOk(b) /\ ActorOk(b)) /\ EventsInv /\ graph = "running"
      BY DEF MBInv, Running, Subscribe
<1>2. /\ task[a] = "building" /\ SubscribedBy(a) # Receivers
      /\ events' = Append(events, [kind |-> "register", actor |-> a,
                                   rx |-> Cardinality(SubscribedBy(a)) + 1])
      /\ UNCHANGED <<metaVars, graph, states, graphVars, completing, failures, actorVars>>
      BY DEF Subscribe
<1>3. UNCHANGED <<states, passed, barriers, reported, map, reports, completing>>
      BY <1>2 DEF metaVars, graphVars, actorVars
<1>4. PICK k \in 0 .. NumReceivers : SubscribedBy(a) = 1 .. k
      BY <1>1 DEF EventsInv, SubscriptionsOk
<1>5. k # NumReceivers
      BY <1>2, <1>4 DEF Receivers
<1>6. Cardinality(SubscribedBy(a)) = k
  <2>1. k \in Nat
        BY ManagedAssumption
  <2>2. Cardinality(1 .. k) = IF 1 > k THEN 0 ELSE k - 1 + 1
        BY <2>1, FS_Interval
  <2> QED  BY <1>4, <2>1, <2>2
<1>7. k + 1 \in Receivers /\ k + 1 \notin SubscribedBy(a) /\ k \in Nat
      BY <1>4, <1>5, ManagedAssumption DEF Receivers
<1>8. PICK v : v = [kind |-> "register", actor |-> a, rx |-> k + 1]
      OBVIOUS
<1>9. /\ v \in EventType /\ v.kind = "register" /\ v.actor = a /\ v.rx = k + 1
      BY <1>7, <1>8 DEF EventType
<1>10. /\ events' \in Seq(EventType) /\ Len(events') = Len(events) + 1 /\ Len(events) \in Nat
       /\ \A i \in 1 .. Len(events) : events'[i] = events[i]
       /\ events'[Len(events) + 1] = v
       /\ DOMAIN events = 1 .. Len(events) /\ DOMAIN events' = 1 .. Len(events) + 1
  <2>1. events' = Append(events, v) /\ events \in Seq(EventType)
        BY <1>1, <1>2, <1>6, <1>8 DEF TypeInv
  <2>2. /\ events' \in Seq(EventType) /\ Len(events') = Len(events) + 1 /\ Len(events) \in Nat
        /\ \A i \in 1 .. Len(events) : events'[i] = events[i]
        /\ events'[Len(events) + 1] = v
        BY <1>9, <2>1, AppendElements
  <2> QED  BY <2>1, <2>2
<1>12. \A i \in 1 .. Len(events) : i \in 1 .. Len(events') /\ events'[i] = events[i]
      BY <1>10
<1>11. \A i \in 1 .. Len(events') :
         (i \in 1 .. Len(events) /\ events'[i] = events[i]) \/ (i = Len(events) + 1 /\ events'[i] = v)
  <2> TAKE i \in 1 .. Len(events')
  <2>1. i \in 1 .. Len(events) \/ i = Len(events) + 1
        BY <1>10
  <2>2. CASE i \in 1 .. Len(events)
        BY <1>12, <2>2
  <2>3. CASE i = Len(events) + 1
        BY <1>10, <2>3
  <2> QED  BY <2>1, <2>2, <2>3
<1>13. TypeInv'
      BY <1>1, <1>2, <1>10 DEF TypeInv, metaVars, graphVars, actorVars
<1>14. TablesInv' /\ BarriersInv'
      BY <1>1, <1>2 DEF TablesInv, BarriersInv, metaVars, graphVars, actorVars
<1>15. MapOk(map, completing, reports, states, events)'
  <2>1. \A b, x : ~IsReport(v, b, x)
        BY <1>9 DEF IsReport
  <2>2. \A b \in Actors, x \in Epochs :
          (\E j \in 1 .. Len(events) : IsReport(events[j], b, x)) <=>
            \E j \in 1 .. Len(events') : IsReport(events'[j], b, x)
        BY <1>11, <1>12, <2>1
  <2> QED  BY <1>1, <1>3, <2>2, MapUntouched
<1>16. \A b \in Actors : StateOk(b)' /\ ActorOk(b)'
      BY <1>1, <1>2 DEF StateOk, ActorOk, Flying, metaVars, actorVars
<1>17. SubscriptionsOk'
  <2>1. ASSUME NEW b \in Actors, NEW x
        PROVE  x \in SubscribedBy(b)' <=> x \in SubscribedBy(b) \/ (b = a /\ x = k + 1)
    <3>1. x \in SubscribedBy(b) <=> \/ x \in states[b].senders
                                    \/ \E j \in 1 .. Len(events) : IsRegister(events[j], b, x)
          BY <1>10 DEF SubscribedBy, IsRegister
    <3>2. x \in SubscribedBy(b)' <=> \/ x \in states[b].senders
                                     \/ \E j \in 1 .. Len(events') : IsRegister(events'[j], b, x)
          BY <1>3, <1>10 DEF SubscribedBy, IsRegister
    <3>3. (\E j \in 1 .. Len(events') : IsRegister(events'[j], b, x)) <=>
            \/ IsRegister(v, b, x)
            \/ \E j \in 1 .. Len(events) : IsRegister(events[j], b, x)
          BY <1>10, <1>11, <1>12
    <3>4. IsRegister(v, b, x) <=> b = a /\ x = k + 1
          BY <1>9 DEF IsRegister
    <3> QED  BY <3>1, <3>2, <3>3, <3>4
  <2>2. ASSUME NEW b \in Actors PROVE \E n \in 0 .. NumReceivers : SubscribedBy(b)' = 1 .. n
    <3>1. CASE b = a
      <4>1. SubscribedBy(b)' = (1 .. k) \cup {k + 1}
            BY <1>4, <2>1, <3>1
      <4>2. (1 .. k) \cup {k + 1} = 1 .. k + 1 /\ k + 1 \in 0 .. NumReceivers
            BY <1>7 DEF Receivers
      <4> QED  BY <4>1, <4>2
    <3>2. CASE b # a
      <4>1. SubscribedBy(b)' = SubscribedBy(b)
            BY <2>1, <3>2
      <4> QED  BY <1>1, <4>1 DEF EventsInv, SubscriptionsOk
    <3> QED  BY <3>1, <3>2
  <2> QED  BY <2>2 DEF SubscriptionsOk
<1>18. RegistersOk'
  <2>1. states[a].exists /\ k + 1 \notin states[a].senders
        BY <1>1, <1>2, <1>7 DEF ActorOk, SubscribedBy
  <2>2. \A i \in 1 .. Len(events) : events[i].kind = "register" /\ events[i].actor = a => events[i].rx # k + 1
        BY <1>7, <1>10 DEF SubscribedBy
  <2>3. \A i \in 1 .. Len(events') : events'[i].kind = "register" =>
          /\ states'[events'[i].actor].exists
          /\ events'[i].rx \notin states'[events'[i].actor].senders
        BY <1>1, <1>3, <1>9, <1>11, <2>1 DEF EventsInv, RegistersOk
  <2>4. ASSUME NEW i \in 1 .. Len(events'), NEW j \in 1 .. Len(events'), i < j,
               events'[i].kind = "register", events'[j].kind = "register",
               events'[i].actor = events'[j].actor
        PROVE  events'[i].rx # events'[j].rx
    <3>1. i \in 1 .. Len(events) /\ events'[i] = events[i]
          BY <1>10, <2>4
    <3>2. CASE j \in 1 .. Len(events) /\ events'[j] = events[j]
          BY <1>1, <2>4, <3>1, <3>2 DEF EventsInv, RegistersOk
    <3>3. CASE j = Len(events) + 1 /\ events'[j] = v
          BY <1>9, <2>2, <2>4, <3>1, <3>3
    <3> QED  BY <1>11, <3>2, <3>3
  <2> QED  BY <2>3, <2>4 DEF RegistersOk
<1>19. CollectsOk'
  <2>1. \A b, x : ~IsCollect(v, b, x)
        BY <1>9 DEF IsCollect
  <2>2. \A i \in 1 .. Len(events') : events'[i].kind = "collect" => i \in 1 .. Len(events) /\ events'[i] = events[i]
        BY <1>9, <1>11
  <2>3. \A b : Flying(b)' = Flying(b)
        BY <1>3 DEF Flying
  <2>4. \A i \in 1 .. Len(events') : events'[i].kind = "collect" =>
          /\ events'[i].epoch \in Range(states'[events'[i].actor].inflight)
          /\ events'[i].epoch <= passed'[events'[i].actor]
        BY <1>1, <1>3, <2>2 DEF EventsInv, CollectsOk, Flying
  <2>5. \A b \in Actors : \A x \in Flying(b)' : x <= passed'[b] =>
          \E i \in 1 .. Len(events') : IsCollect(events'[i], b, x)
        BY <1>1, <1>3, <1>12, <2>3 DEF EventsInv, CollectsOk
  <2>6. \A i, j \in 1 .. Len(events') :
          i < j /\ events'[i].kind = "collect" /\ events'[j].kind = "collect"
            /\ events'[i].actor = events'[j].actor => events'[i].epoch < events'[j].epoch
        BY <1>1, <2>2 DEF EventsInv, CollectsOk
  <2> QED  BY <2>4, <2>5, <2>6 DEF CollectsOk, Flying
<1>20. ReportsOk'
  <2> SUFFICES ASSUME NEW i \in 1 .. Len(events'), events'[i].kind = "report"
               PROVE  \E j \in 1 .. Len(events') :
                        i < j /\ IsCollect(events'[j], events'[i].actor, events'[i].epoch)
      BY DEF ReportsOk
  <2>1. i \in 1 .. Len(events) /\ events'[i] = events[i]
        BY <1>9, <1>11
  <2>2. PICK j \in 1 .. Len(events) : i < j /\ IsCollect(events[j], events'[i].actor, events'[i].epoch)
        BY <1>1, <2>1 DEF EventsInv, ReportsOk
  <2> QED  BY <1>12, <2>2
<1> QED  BY <1>1, <1>2, <1>13, <1>14, <1>15, <1>16, <1>17, <1>18, <1>19, <1>20 DEF MBInv, Running, EventsInv

\* The events an actor sends when it passes a barrier: a report (n = 1) or none,
\* and the collection.
LEMMA PassedEvents ==
  ASSUME TypeInv, NEW a \in Actors, NEW e \in Epochs, events' = events \o PassEvents(a, e)
  PROVE  /\ events' \in Seq(EventType) /\ Len(events) \in Nat
         /\ DOMAIN events = 1 .. Len(events) /\ DOMAIN events' = 1 .. Len(events')
         /\ \A i \in 1 .. Len(events) : i \in 1 .. Len(events') /\ events'[i] = events[i]
         /\ \E n \in {0, 1} :
              /\ n = 1 <=> a \in Reporters
              /\ Len(events') = Len(events) + n + 1
              /\ n = 1 => events'[Len(events) + 1] = [kind |-> "report", actor |-> a, epoch |-> e]
              /\ events'[Len(events) + n + 1] = [kind |-> "collect", actor |-> a, epoch |-> e]
<1> DEFINE rep == [kind |-> "report", actor |-> a, epoch |-> e]
           col == [kind |-> "collect", actor |-> a, epoch |-> e]
<1>1. rep \in EventType /\ col \in EventType /\ events \in Seq(EventType)
      BY DEF EventType, TypeInv
<1> HIDE DEF rep, col
<1>2. CASE a \in Reporters
  <2>1. events' = Append(Append(events, rep), col)
    <3>1. events' = events \o (<<rep>> \o <<col>>)
          BY <1>2 DEF PassEvents, rep, col
    <3> QED  BY <1>1, <3>1
  <2>2. /\ Append(events, rep) \in Seq(EventType) /\ Len(Append(events, rep)) = Len(events) + 1
        /\ \A i \in 1 .. Len(events) : Append(events, rep)[i] = events[i]
        /\ Append(events, rep)[Len(events) + 1] = rep /\ Len(events) \in Nat
        BY <1>1, AppendElements
  <2>3. /\ events' \in Seq(EventType) /\ Len(events') = Len(Append(events, rep)) + 1
        /\ \A i \in 1 .. Len(Append(events, rep)) : events'[i] = Append(events, rep)[i]
        /\ events'[Len(Append(events, rep)) + 1] = col
        BY <1>1, <2>1, <2>2, AppendElements
  <2>4. /\ Len(events') = Len(events) + 1 + 1 /\ events'[Len(events) + 1 + 1] = col
        /\ events'[Len(events) + 1] = rep
        /\ \A i \in 1 .. Len(events) : i \in 1 .. Len(events') /\ events'[i] = events[i]
        BY <2>2, <2>3
  <2>5. DOMAIN events = 1 .. Len(events) /\ DOMAIN events' = 1 .. Len(events')
        BY <1>1, <2>3
  <2> QED  BY <1>2, <2>2, <2>3, <2>4, <2>5 DEF rep, col
<1>3. CASE a \notin Reporters
  <2>1. events' = Append(events, col)
    <3>1. events' = events \o (<<>> \o <<col>>)
          BY <1>3 DEF PassEvents, col
    <3> QED  BY <1>1, <3>1
  <2>2. /\ events' \in Seq(EventType) /\ Len(events') = Len(events) + 1 /\ Len(events) \in Nat
        /\ \A i \in 1 .. Len(events) : events'[i] = events[i]
        /\ events'[Len(events) + 1] = col
        BY <1>1, <2>1, AppendElements
  <2>3. /\ Len(events') = Len(events) + 0 + 1 /\ events'[Len(events) + 0 + 1] = col
        /\ \A i \in 1 .. Len(events) : i \in 1 .. Len(events') /\ events'[i] = events[i]
        BY <2>2
  <2>4. DOMAIN events = 1 .. Len(events) /\ DOMAIN events' = 1 .. Len(events')
        BY <1>1, <2>2
  <2> QED  BY <1>3, <2>2, <2>3, <2>4 DEF rep, col
<1> QED  BY <1>2, <1>3

\* The barrier that all subscriptions of an actor have at their heads is the
\* first one in flight that the actor has not passed.
LEMMA NextToPass ==
  ASSUME TypeInv, NEW a \in Actors, StateOk(a), ActorOk(a), \A r \in Receivers : rx[a][r] # <<>>,
         NEW e, \A r \in Receivers : Head(rx[a][r]) = e
  PROVE  /\ states[a].senders = Receivers
         /\ e \in Epochs /\ e \in Flying(a) /\ e > passed[a]
         /\ \A x \in Flying(a) : x > passed[a] => e <= x
         /\ \A r \in Receivers :
              /\ Tail(rx[a][r]) \in Seq(Epochs) /\ Increasing(Tail(rx[a][r]))
              /\ \A x \in Epochs : x \in Range(Tail(rx[a][r])) <=> x \in Flying(a) /\ x > e
<1>1. states[a].senders = Receivers
      BY ActorFacts DEF ActorOk
<1>2. \A r \in Receivers :
        /\ rx[a][r] \in Seq(Epochs) /\ Increasing(rx[a][r])
        /\ \A x \in Epochs : x \in Range(rx[a][r]) <=> x \in Flying(a) /\ x > passed[a]
      BY <1>1, ActorFacts DEF ActorOk
<1>3. \A r \in Receivers :
        /\ Increasing(Tail(rx[a][r])) /\ Tail(rx[a][r]) \in Seq(Epochs) /\ e \in Epochs
        /\ \A x \in Range(Tail(rx[a][r])) : e < x
        /\ Range(rx[a][r]) = {e} \cup Range(Tail(rx[a][r]))
      BY <1>2, IncreasingTail
<1>4. 1 \in Receivers /\ passed[a] \in Nat /\ Flying(a) \subseteq Epochs
      BY ManagedAssumption, ActorFacts DEF Receivers
<1>5. e \in Epochs /\ e \in Range(rx[a][1])
      BY <1>3, <1>4
<1>6. e \in Flying(a) /\ e > passed[a]
      BY <1>2, <1>4, <1>5
<1>7. ASSUME NEW x \in Flying(a), x > passed[a] PROVE e <= x
  <2>1. x \in Epochs /\ x \in Range(rx[a][1])
        BY <1>2, <1>4, <1>7
  <2>2. x = e \/ e < x
        BY <1>3, <1>4, <2>1
  <2> QED  BY <1>5, <2>1, <2>2 DEF Epochs
<1>8. ASSUME NEW r \in Receivers, NEW x \in Epochs
      PROVE  x \in Range(Tail(rx[a][r])) <=> x \in Flying(a) /\ x > e
  <2>1. ASSUME x \in Range(Tail(rx[a][r])) PROVE x \in Flying(a) /\ x > e
    <3>1. e < x /\ x \in Range(rx[a][r])
          BY <1>3, <2>1
    <3> QED  BY <1>2, <1>5, <3>1 DEF Epochs
  <2>2. ASSUME x \in Flying(a), x > e PROVE x \in Range(Tail(rx[a][r]))
    <3>1. x > passed[a] /\ x # e
          BY <1>4, <1>5, <1>6, <2>2 DEF Epochs
    <3> QED  BY <1>2, <1>3, <2>2, <3>1
  <2> QED  BY <2>1, <2>2
<1> QED  BY <1>1, <1>3, <1>5, <1>6, <1>7, <1>8

\* A barrier passes an actor.
LEMMA PassStep ==
  ASSUME MBInv, NEW a \in Actors, Pass(a)
  PROVE  MBInv'
<1>1. /\ TypeInv /\ TablesInv /\ BarriersInv /\ MapOk(map, completing, reports, states, events)
      /\ (\A b \in Actors : StateOk(b) /\ ActorOk(b)) /\ EventsInv /\ graph = "running"
      BY DEF MBInv, Running, Pass
<1>2. PICK e : e = Head(rx[a][1])
      OBVIOUS
<1>3. /\ task[a] = "running"
      /\ \A r \in Receivers : rx[a][r] # <<>> /\ Head(rx[a][r]) = e
      /\ rx' = [rx EXCEPT ![a] = [r \in Receivers |-> Tail(@[r])]]
      /\ passed' = [passed EXCEPT ![a] = e]
      /\ events' = events \o PassEvents(a, e)
      /\ reported' = [reported EXCEPT ![e] = @ \cup ({a} \cap Reporters)]
      /\ task' = IF a \in BarrierOf(e).stop THEN [task EXCEPT ![a] = "exited"] ELSE task
      /\ UNCHANGED <<metaVars, graph, states, graphVars, completing, failures>>
      BY <1>2 DEF Pass
<1>4. UNCHANGED <<epoch, live, barriers, answered, states, map, reports, completing>>
      BY <1>3 DEF metaVars, graphVars
<1>5. /\ states[a].senders = Receivers
      /\ e \in Epochs /\ e \in Flying(a) /\ e > passed[a]
      /\ \A x \in Flying(a) : x > passed[a] => e <= x
      /\ \A r \in Receivers :
           /\ Tail(rx[a][r]) \in Seq(Epochs) /\ Increasing(Tail(rx[a][r]))
           /\ \A x \in Epochs : x \in Range(Tail(rx[a][r])) <=> x \in Flying(a) /\ x > e
      BY <1>1, <1>3, NextToPass
<1>6. PICK m \in 1 .. Len(map) : map[m].epoch = e
      BY <1>1, <1>5 DEF MapOk, Flying
<1>7. /\ Len(map) \in Nat /\ Len(completing) \in Nat /\ Len(completing) + Len(map) = Len(barriers)
      /\ \A i \in 1 .. Len(map) : map[i].epoch \in Epochs
      /\ e < epoch /\ \A i \in 1 .. Len(completing) : completing[i].epoch < e
      BY <1>1, <1>6, MapEpochs DEF TypeInv
<1>8. PICK l \in 1 .. Len(barriers) : barriers[l].epoch = e
  <2>1. Len(completing) + m \in 1 .. Len(barriers)
        BY <1>7
  <2> QED  BY <1>1, <1>6, <2>1 DEF MapOk
<1>9. /\ passed' \in [Actors -> 0 .. MaxEpoch] /\ passed'[a] = e
      /\ \A b \in Actors : b # a => passed'[b] = passed[b]
      /\ \A b \in Actors : passed'[b] \in Nat /\ passed[b] \in Nat /\ passed'[b] >= passed[b]
  <2>1. passed \in [Actors -> 0 .. MaxEpoch] /\ e \in 0 .. MaxEpoch
        BY <1>1, <1>5, ManagedAssumption DEF TypeInv, Epochs
  <2>2. /\ passed' \in [Actors -> 0 .. MaxEpoch] /\ passed'[a] = e
        /\ \A b \in Actors : b # a => passed'[b] = passed[b]
        BY <1>3, <2>1
  <2>3. ASSUME NEW b \in Actors PROVE passed'[b] \in Nat /\ passed[b] \in Nat /\ passed'[b] >= passed[b]
    <3>1. passed'[b] \in Nat /\ passed[b] \in Nat
          BY <2>1, <2>2, ManagedAssumption
    <3>2. b # a => passed'[b] = passed[b]
          BY <2>2
    <3> QED  BY <1>5, <2>1, <2>2, <3>1, <3>2
  <2> QED  BY <2>2, <2>3
<1>10. /\ rx' \in [Actors -> [Receivers -> Seq(Epochs)]]
       /\ \A r \in Receivers : rx'[a][r] = Tail(rx[a][r])
       /\ \A b \in Actors : b # a => rx'[b] = rx[b]
  <2>1. rx \in [Actors -> [Receivers -> Seq(Epochs)]]
        BY <1>1 DEF TypeInv
  <2>2. [r \in Receivers |-> Tail(rx[a][r])] \in [Receivers -> Seq(Epochs)]
        BY <1>5
  <2> QED  BY <1>3, <2>1, <2>2
<1>11. /\ reported' \in [Epochs -> SUBSET Actors]
       /\ \A x \in Epochs : x # e => reported'[x] = reported[x]
       /\ \A b : b \in reported'[e] <=> b \in reported[e] \/ (b = a /\ a \in Reporters)
      BY <1>1, <1>3, <1>5, ManagedAssumption DEF TypeInv
<1>12. /\ task' \in [Actors -> Tasks] /\ task'[a] \in {"running", "exited"}
       /\ a \in BarrierOf(e).stop => task'[a] = "exited"
       /\ \A b \in Actors : b # a => task'[b] = task[b]
      BY <1>1, <1>3 DEF TypeInv, Tasks
<1>13. /\ events' \in Seq(EventType) /\ Len(events) \in Nat
       /\ DOMAIN events = 1 .. Len(events) /\ DOMAIN events' = 1 .. Len(events')
       /\ \A i \in 1 .. Len(events) : i \in 1 .. Len(events') /\ events'[i] = events[i]
      BY <1>1, <1>3, <1>5, PassedEvents
<1>14. PICK n \in {0, 1} :
              /\ n = 1 <=> a \in Reporters
              /\ Len(events') = Len(events) + n + 1
              /\ n = 1 => events'[Len(events) + 1] = [kind |-> "report", actor |-> a, epoch |-> e]
              /\ events'[Len(events) + n + 1] = [kind |-> "collect", actor |-> a, epoch |-> e]
      BY <1>1, <1>3, <1>5, PassedEvents
<1>15. PICK top \in 1 .. Len(events') :
         /\ top = Len(events') /\ IsCollect(events'[top], a, e) /\ events'[top].kind = "collect"
         /\ \A i \in 1 .. Len(events) : i < top
  <2>1. Len(events) + n + 1 \in 1 .. Len(events') /\ Len(events) + n + 1 = Len(events')
        BY <1>13, <1>14
  <2>2. IsCollect(events'[Len(events) + n + 1], a, e)
        BY <1>14 DEF IsCollect
  <2>3. \A i \in 1 .. Len(events) : i < Len(events) + n + 1
        BY <1>13
  <2> QED  BY <2>1, <2>2, <2>3 DEF IsCollect
\* A position of the events is an old one, that of the report, or the last one.
<1>16. ASSUME NEW i \in 1 .. Len(events')
       PROVE  \/ i \in 1 .. Len(events) /\ events'[i] = events[i]
              \/ i < top /\ a \in Reporters /\ IsReport(events'[i], a, e) /\ events'[i].kind = "report"
              \/ i = top
  <2>1. i \in 1 .. Len(events) \/ (n = 1 /\ i = Len(events) + 1) \/ i = Len(events')
        BY <1>13, <1>14
  <2>2. CASE i \in 1 .. Len(events)
        BY <1>13, <2>2
  <2>3. CASE n = 1 /\ i = Len(events) + 1
    <3>1. IsReport(events'[i], a, e) /\ events'[i].kind = "report" /\ a \in Reporters
          BY <1>14, <2>3 DEF IsReport
    <3>2. i < top
          BY <1>13, <1>14, <1>15, <2>3
    <3> QED  BY <3>1, <3>2
  <2>4. CASE i = Len(events')
        BY <1>15, <2>4
  <2> QED  BY <2>1, <2>2, <2>3, <2>4
<1>17. a \in Reporters => \E i \in 1 .. Len(events') : IsReport(events'[i], a, e)
  <2> HAVE a \in Reporters
  <2>1. n = 1 /\ Len(events) + 1 \in 1 .. Len(events')
        BY <1>13, <1>14
  <2>2. IsReport(events'[Len(events) + 1], a, e)
        BY <1>14, <2>1 DEF IsReport
  <2> QED  BY <2>1, <2>2
<1>18. TypeInv'
      BY <1>1, <1>3, <1>9, <1>10, <1>11, <1>12, <1>13 DEF TypeInv, metaVars, graphVars
<1>19. TablesInv'
      BY <1>1, <1>3 DEF TablesInv, metaVars, graphVars
<1>20. BarriersInv'
      BY <1>1, <1>4, <1>8, <1>11 DEF BarriersInv
<1>21. MapOk(map, completing, reports, states, events)'
  <2>1. \A i \in 1 .. Len(completing) :
          /\ completing[i].epoch = barriers[i].epoch /\ completing[i].sync = barriers[i].due
          /\ \A b \in barriers[i].collect : passed'[b] >= barriers[i].epoch
          /\ completing[i].reports = reported'[completing[i].epoch]
    <3> TAKE i \in 1 .. Len(completing)
    <3>1. /\ completing[i].epoch = barriers[i].epoch /\ completing[i].sync = barriers[i].due
          /\ \A b \in barriers[i].collect : passed[b] >= barriers[i].epoch
          /\ completing[i].reports = reported[completing[i].epoch]
          BY <1>1 DEF MapOk
    <3>2. /\ i \in 1 .. Len(barriers) /\ barriers[i].collect \subseteq Actors
          /\ barriers[i].epoch \in Nat /\ completing[i].epoch \in Epochs
          BY <1>1, <1>7, BarrierFacts
    <3>3. \A b \in barriers[i].collect : passed'[b] >= barriers[i].epoch
          BY <1>9, <3>1, <3>2
    <3>4. completing[i].epoch # e
          BY <1>5, <1>7, <3>2 DEF Epochs
    <3> QED  BY <1>11, <3>1, <3>2, <3>3, <3>4
  <2>2. \A i \in 1 .. Len(map) :
          LET b == barriers[Len(completing) + i]
          IN  /\ map[i].epoch = b.epoch /\ map[i].sync = b.due
              /\ \A c \in b.collect : c \in map[i].remaining \/ passed'[c] >= b.epoch
    <3> TAKE i \in 1 .. Len(map)
    <3>1. PICK b : b = barriers[Len(completing) + i]
          OBVIOUS
    <3>2. /\ map[i].epoch = b.epoch /\ map[i].sync = b.due
          /\ \A c \in b.collect : c \in map[i].remaining \/ passed[c] >= b.epoch
          BY <1>1, <3>1 DEF MapOk
    <3>3. b.collect \subseteq Actors /\ b.epoch \in Nat
          BY <1>1, <1>7, <3>1, BarrierFacts
    <3>4. \A c \in b.collect : c \in map[i].remaining \/ passed'[c] >= b.epoch
          BY <1>9, <3>2, <3>3
    <3> QED  BY <3>1, <3>2, <3>4
  <2>3. \A i \in 1 .. Len(map), b \in Actors :
          b \in reported'[map[i].epoch] <=>
            \/ b \in reports[map[i].epoch]
            \/ \E k \in 1 .. Len(events') : IsReport(events'[k], b, map[i].epoch)
    <3> TAKE i \in 1 .. Len(map), b \in Actors
    <3>1. PICK x \in Epochs : x = map[i].epoch
          BY <1>7
    <3>2. b \in reported[x] <=> \/ b \in reports[x]
                                \/ \E k \in 1 .. Len(events) : IsReport(events[k], b, x)
          BY <1>1, <3>1 DEF MapOk
    <3>3. (\E k \in 1 .. Len(events') : IsReport(events'[k], b, x)) <=>
            \/ \E k \in 1 .. Len(events) : IsReport(events[k], b, x)
            \/ b = a /\ x = e /\ a \in Reporters
      <4>1. ASSUME NEW k \in 1 .. Len(events'), IsReport(events'[k], b, x)
            PROVE  \/ \E j \in 1 .. Len(events) : IsReport(events[j], b, x)
                   \/ b = a /\ x = e /\ a \in Reporters
        <5>1. k # top
              BY <1>15, <4>1 DEF IsReport
        <5> QED  BY <1>16, <4>1, <5>1 DEF IsReport
      <4>2. ASSUME NEW k \in 1 .. Len(events), IsReport(events[k], b, x)
            PROVE  \E j \in 1 .. Len(events') : IsReport(events'[j], b, x)
            BY <1>13, <4>2
      <4> QED  BY <1>17, <4>1, <4>2
    <3>4. b \in reported'[x] <=> b \in reported[x] \/ (b = a /\ x = e /\ a \in Reporters)
          BY <1>11
    <3> QED  BY <3>1, <3>2, <3>3, <3>4
  <2> QED  BY <1>1, <1>4, <2>1, <2>2, <2>3, SMTT(30) DEF MapOk
<1>22. \A b \in Actors : b # a => StateOk(b)'
      BY <1>1, <1>4, <1>9, <1>12 DEF StateOk
<1>23. StateOk(a)'
  <2>1. states[a].stopping /\ e >= states[a].max => task'[a] = "exited"
    <3> HAVE states[a].stopping /\ e >= states[a].max
    <3>1. e = states[a].max
      <4>1. /\ states[a].inflight \in Seq(Epochs) /\ Increasing(states[a].inflight)
            /\ states[a].inflight # <<>> /\ states[a].max = states[a].inflight[Len(states[a].inflight)]
            BY <1>1, ActorFacts DEF StateOk
      <4>2. PICK j \in DOMAIN states[a].inflight : states[a].inflight[j] = e
            BY <1>5 DEF Flying, Range
      <4>3. /\ DOMAIN states[a].inflight = 1 .. Len(states[a].inflight)
            /\ Len(states[a].inflight) \in DOMAIN states[a].inflight
            /\ states[a].max \in Epochs
            BY <4>1
      <4>4. j = Len(states[a].inflight) \/ j < Len(states[a].inflight)
            BY <4>2, <4>3
      <4>5. e = states[a].max \/ e < states[a].max
            BY <4>1, <4>2, <4>3, <4>4 DEF Increasing
      <4> QED  BY <1>5, <4>3, <4>5 DEF Epochs
    <3>2. \A i \in 1 .. Len(barriers) : barriers[i].epoch = e => a \in barriers[i].stop
          BY <1>1, <3>1 DEF StateOk
    <3>3. DOMAIN barriers = 1 .. Len(barriers)
          BY <1>1 DEF TypeInv
    <3>4. a \in BarrierOf(e).stop
          BY <1>8, <3>2, <3>3 DEF BarrierOf
    <3> QED  BY <1>12, <3>4
  <2> QED  BY <1>1, <1>4, <1>5, <1>9, <2>1 DEF StateOk
<1>24. ASSUME NEW b \in Actors, b # a PROVE ActorOk(b)'
  <2>1. passed'[b] = passed[b] /\ rx'[b] = rx[b] /\ task'[b] = task[b]
        BY <1>9, <1>10, <1>12, <1>24
  <2> QED  BY <1>1, <1>4, <2>1 DEF ActorOk, Flying
<1>25. ActorOk(a)'
      BY <1>1, <1>3, <1>4, <1>5, <1>7, <1>9, <1>10, <1>12 DEF ActorOk, Flying
<1>26. SubscriptionsOk'
  <2>1. ASSUME NEW b \in Actors, NEW x PROVE x \in SubscribedBy(b)' <=> x \in SubscribedBy(b)
    <3>1. x \in SubscribedBy(b) <=> \/ x \in states[b].senders
                                    \/ \E j \in 1 .. Len(events) : IsRegister(events[j], b, x)
          BY <1>13 DEF SubscribedBy, IsRegister
    <3>2. x \in SubscribedBy(b)' <=> \/ x \in states[b].senders
                                     \/ \E j \in 1 .. Len(events') : IsRegister(events'[j], b, x)
          BY <1>4, <1>13 DEF SubscribedBy, IsRegister
    <3>3. ASSUME NEW j \in 1 .. Len(events'), IsRegister(events'[j], b, x)
          PROVE  \E i \in 1 .. Len(events) : IsRegister(events[i], b, x)
          BY <1>15, <1>16, <3>3 DEF IsRegister
    <3>4. ASSUME NEW j \in 1 .. Len(events), IsRegister(events[j], b, x)
          PROVE  \E i \in 1 .. Len(events') : IsRegister(events'[i], b, x)
          BY <1>13, <3>4
    <3> QED  BY <3>1, <3>2, <3>3, <3>4
  <2> QED  BY <1>1, <2>1 DEF EventsInv, SubscriptionsOk
<1>27. RegistersOk'
  <2>1. \A i \in 1 .. Len(events') : events'[i].kind = "register" => i \in 1 .. Len(events) /\ events'[i] = events[i]
        BY <1>15, <1>16
  <2>2. \A i \in 1 .. Len(events') : events'[i].kind = "register" =>
          /\ states'[events'[i].actor].exists
          /\ events'[i].rx \notin states'[events'[i].actor].senders
        BY <1>1, <1>4, <2>1 DEF EventsInv, RegistersOk
  <2>3. \A i, j \in 1 .. Len(events') :
          i < j /\ events'[i].kind = "register" /\ events'[j].kind = "register"
            /\ events'[i].actor = events'[j].actor => events'[i].rx # events'[j].rx
        BY <1>1, <2>1, SMTT(30) DEF EventsInv, RegistersOk
  <2> QED  BY <2>2, <2>3 DEF RegistersOk
<1>28. CollectsOk'
  <2>1. \A i \in 1 .. Len(events') : events'[i].kind = "collect" =>
          (i \in 1 .. Len(events) /\ events'[i] = events[i]) \/ i = top
        BY <1>16
  <2>2. ASSUME NEW i \in 1 .. Len(events'), events'[i].kind = "collect"
        PROVE  /\ events'[i].epoch \in Range(states'[events'[i].actor].inflight)
               /\ events'[i].epoch <= passed'[events'[i].actor]
    <3>1. CASE i = top
      <4>1. events'[i].actor = a /\ events'[i].epoch = e
            BY <1>15, <3>1 DEF IsCollect
      <4> QED  BY <1>4, <1>5, <1>9, <4>1 DEF Flying, Epochs
    <3>2. CASE i \in 1 .. Len(events) /\ events'[i] = events[i]
      <4>1. events[i].actor \in Actors /\ events[i].epoch \in Epochs
            BY <1>1, <2>2, <3>2, EventFacts
      <4>2. events[i].epoch \in Flying(events[i].actor) /\ events[i].epoch <= passed[events[i].actor]
            BY <1>1, <2>2, <3>2 DEF EventsInv, CollectsOk
      <4>3. events[i].epoch <= passed'[events[i].actor]
            BY <1>9, <4>1, <4>2 DEF Epochs
      <4> QED  BY <1>4, <3>2, <4>2, <4>3 DEF Flying
    <3> QED  BY <2>1, <2>2, <3>1, <3>2
  <2>3. ASSUME NEW b \in Actors, NEW x \in Flying(b), x <= passed'[b]
        PROVE  \E i \in 1 .. Len(events') : IsCollect(events'[i], b, x)
    <3>1. x \in Epochs
          BY <1>1, ActorFacts
    <3>2. CASE x <= passed[b]
      <4>1. PICK i \in 1 .. Len(events) : IsCollect(events[i], b, x)
            BY <1>1, <3>2 DEF EventsInv, CollectsOk
      <4> QED  BY <1>13, <4>1
    <3>3. CASE ~(x <= passed[b])
      <4>1. b = a
            BY <1>9, <2>3, <3>3
      <4>2. x = e
            BY <1>5, <1>9, <2>3, <3>1, <3>3, <4>1 DEF Epochs
      <4> QED  BY <1>15, <4>1, <4>2
    <3> QED  BY <3>2, <3>3
  <2>4. ASSUME NEW i \in 1 .. Len(events'), NEW j \in 1 .. Len(events'), i < j,
               events'[i].kind = "collect", events'[j].kind = "collect",
               events'[i].actor = events'[j].actor
        PROVE  events'[i].epoch < events'[j].epoch
    <3>1. i \in 1 .. Len(events) /\ events'[i] = events[i]
      <4>1. i # top
            BY <1>15, <2>4
      <4> QED  BY <2>1, <2>4, <4>1
    <3>2. CASE j \in 1 .. Len(events) /\ events'[j] = events[j]
          BY <1>1, <2>4, <3>1, <3>2 DEF EventsInv, CollectsOk
    <3>3. CASE j = top
      <4>1. events[i].actor = a /\ events'[j].epoch = e
            BY <1>15, <2>4, <3>1, <3>3 DEF IsCollect
      <4>2. events[i].epoch <= passed[a] /\ events[i].epoch \in Epochs
            BY <1>1, <2>4, <3>1, <4>1, EventFacts DEF EventsInv, CollectsOk
      <4> QED  BY <1>5, <1>9, <3>1, <4>1, <4>2 DEF Epochs
    <3> QED  BY <2>1, <2>4, <3>2, <3>3
  <2> QED  BY <1>4, <2>2, <2>3, <2>4 DEF CollectsOk, Flying
<1>29. ReportsOk'
  <2> SUFFICES ASSUME NEW i \in 1 .. Len(events'), events'[i].kind = "report"
               PROVE  \E j \in 1 .. Len(events') :
                        i < j /\ IsCollect(events'[j], events'[i].actor, events'[i].epoch)
      BY DEF ReportsOk
  <2>1. CASE i \in 1 .. Len(events) /\ events'[i] = events[i]
    <3>1. PICK j \in 1 .. Len(events) : i < j /\ IsCollect(events[j], events'[i].actor, events'[i].epoch)
          BY <1>1, <2>1 DEF EventsInv, ReportsOk
    <3> QED  BY <1>13, <3>1
  <2>2. CASE i < top /\ IsReport(events'[i], a, e)
        BY <1>15, <2>2 DEF IsReport
  <2>3. i # top
        BY <1>15
  <2> QED  BY <1>16, <2>1, <2>2, <2>3
<1> QED  BY <1>1, <1>3, <1>18, <1>19, <1>20, <1>21, <1>22, <1>23, <1>24, <1>25, <1>26, <1>27, <1>28, <1>29
         DEF MBInv, Running, EventsInv

------------------------------------------------------------------------------
(* Issuing a barrier. *)

\* A barrier the meta node may send: what the three kinds of injection have in
\* common.
Sendable(b, after) ==
  \E kind \in Kinds, build \in SUBSET NewActors, stop \in SUBSET live, T \in SUBSET Tables :
    /\ b = Barrier(kind, build, stop, T)
    /\ after = (live \cup build) \ stop
    /\ after = {} => T = {}
    /\ kind = "initial" => epoch = 1
    /\ kind = "barrier" => T = tables /\ build = {}

\* What follows of its fields.
LEMMA SendableFacts ==
  ASSUME TypeInv, TablesInv, \A a \in Actors : StateOk(a) /\ ActorOk(a),
         NEW b, NEW after, Sendable(b, after), epoch <= MaxEpoch, b.collect # {}
  PROVE  /\ b \in BarrierType /\ b.epoch = epoch /\ b.due = unsynced /\ b.collect = live \cup b.build
         /\ after = b.collect \ b.stop /\ after \subseteq Actors /\ b.stop \subseteq live
         /\ after = {} => b.tables = {}
         /\ b.kind = "initial" => epoch = 1 /\ live = {}
         /\ b.kind = "barrier" => b.tables = tables /\ live # {}
         /\ b.kind \in Kinds
         /\ \A a \in b.build : /\ a \in Actors /\ a \notin live /\ states[a] = NoState
                               /\ task[a] = "none" /\ passed[a] = 0
         /\ \A a \in live : a \in Actors /\ states[a].exists /\ ~states[a].stopping
<1>1. PICK kind \in Kinds, build \in SUBSET NewActors, stop \in SUBSET live, T \in SUBSET Tables :
        /\ b = Barrier(kind, build, stop, T)
        /\ after = (live \cup build) \ stop
        /\ after = {} => T = {}
        /\ kind = "initial" => epoch = 1
        /\ kind = "barrier" => T = tables /\ build = {}
      BY DEF Sendable
<1>2. /\ b.epoch = epoch /\ b.kind = kind /\ b.collect = live \cup build /\ b.build = build
      /\ b.stop = stop /\ b.tables = T /\ b.due = unsynced
      BY <1>1 DEF Barrier
<1>3. build \subseteq Actors /\ live \subseteq Actors /\ unsynced \subseteq Tables /\ epoch \in Epochs
      BY DEF NewActors, TypeInv, Epochs
<1>4. b \in BarrierType
      BY <1>1, <1>3 DEF Barrier, BarrierType
<1>5. \A a \in live : a \in Actors /\ states[a].exists /\ ~states[a].stopping
      BY <1>3 DEF StateOk
<1>6. \A a \in build : a \in Actors /\ states[a] = NoState /\ task[a] = "none" /\ passed[a] = 0
      BY <1>3 DEF NewActors, StateOk, ActorOk
<1>7. \A a \in build : a \notin live
      BY <1>5, <1>6 DEF NoState
<1>8. epoch = 1 => live = {}
      BY DEF TablesInv
<1> QED  BY <1>1, <1>2, <1>3, <1>4, <1>5, <1>6, <1>7, <1>8

\* No assertion about it fails.
LEMMA NoAssertionFails ==
  ASSUME MBInv, graph = "running", NEW b, NEW after, Sendable(b, after), epoch <= MaxEpoch,
         b.collect # {}
  PROVE  AssertsHold(b)
<1>1. /\ TypeInv /\ TablesInv /\ BarriersInv /\ MapOk(map, completing, reports, states, events)
      /\ (\A a \in Actors : StateOk(a) /\ ActorOk(a))
      BY DEF MBInv, Running
<1>2. /\ b.epoch = epoch /\ b.collect = live \cup b.build /\ b.stop \subseteq live
      /\ b.kind = "initial" => epoch = 1 /\ live = {}
      /\ b.kind = "barrier" => b.tables = tables /\ live # {}
      /\ b.kind \in Kinds
      /\ \A a \in b.build : a \in Actors /\ a \notin live /\ states[a] = NoState
      /\ \A a \in live : a \in Actors /\ states[a].exists /\ ~states[a].stopping
      BY <1>1, SendableFacts
<1>3. FollowsPrevious(b)
  <2>1. prevTables = [curr |-> prevTables.curr, tables |-> prevTables.tables]
        BY <1>1 DEF TypeInv
  <2>2. CASE b.kind = "initial"
    <3>1. prevTables.curr = 0 /\ prevTables.tables = {}
          BY <1>1, <1>2, <2>2 DEF TablesInv
    <3> QED  BY <2>1, <2>2, <3>1 DEF FollowsPrevious, NoTables
  <2>3. CASE b.kind = "barrier"
    <3>1. prevTables.curr = b.epoch /\ prevTables.tables = b.tables
          BY <1>1, <1>2, <2>3 DEF TablesInv
    <3> QED  BY <2>1, <2>3, <3>1 DEF FollowsPrevious
  <2>4. CASE b.kind = "checkpoint"
        BY <2>4 DEF FollowsPrevious
  <2> QED  BY <1>2, <2>2, <2>3, <2>4 DEF Kinds
<1>4. \A i \in DOMAIN map : map[i].epoch # b.epoch
  <2>1. map \in Seq(PendingType) /\ DOMAIN map = 1 .. Len(map) /\ epoch \in Nat
        BY <1>1, BarrierFacts DEF TypeInv
  <2>2. \A i \in 1 .. Len(map) : map[i].epoch < epoch /\ map[i].epoch \in Epochs
        BY <1>1, <2>1, MapEpochs
  <2> QED  BY <1>2, <2>1, <2>2 DEF Epochs
<1>5. \A a \in b.build : ~states[a].exists /\ a \in b.collect \ b.stop
      BY <1>2 DEF NoState
<1>6. \A a \in b.collect \ b.build : MayIssue(states[a], b.epoch, a \in b.stop)
  <2> TAKE a \in b.collect \ b.build
  <2>1. a \in Actors /\ states[a].exists /\ ~states[a].stopping
        BY <1>2
  <2>2. states[a].max < epoch /\ states[a].max \in Nat /\ epoch \in Nat
        BY <1>1, <2>1, ActorFacts, BarrierFacts DEF StateOk
  <2> QED  BY <1>2, <2>1, <2>2 DEF MayIssue
<1> QED  BY <1>3, <1>4, <1>5, <1>6 DEF AssertsHold

\* The state of a new actor.
LEMMA StartedFacts ==
  ASSUME NEW e \in Epochs
  PROVE  /\ Started(e) \in StateType
         /\ Started(e).inflight = <<e>> /\ Started(e).first = <<e>> /\ Started(e).max = e
         /\ Started(e).stopping = FALSE /\ Started(e).senders = {} /\ Started(e).exists = TRUE
         /\ NoState.inflight = <<>> /\ NoState.senders = {} /\ NoState.exists = FALSE
<1>1. NoState \in StateType
      BY ManagedAssumption DEF NoState, StateType
<1>2. PICK q \in Seq(Epochs) : q = <<e>>
  <2>1. <<e>> \in Seq(Epochs)
        OBVIOUS
  <2> QED  BY <2>1, Zenon
<1>3. Started(e) = [NoState EXCEPT !.inflight = q, !.first = q, !.max = e, !.exists = TRUE]
      BY <1>2 DEF Started
<1>4. e \in 0 .. MaxEpoch
      BY ManagedAssumption DEF Epochs
<1>5. /\ Started(e) \in StateType
      /\ Started(e).inflight = q /\ Started(e).first = q /\ Started(e).max = e
      /\ Started(e).stopping = NoState.stopping /\ Started(e).senders = NoState.senders
      /\ Started(e).exists = TRUE
      BY <1>1, <1>3, <1>4 DEF StateType
<1>6. /\ NoState.inflight = <<>> /\ NoState.senders = {} /\ NoState.exists = FALSE
      /\ NoState.stopping = FALSE
      BY DEF NoState
<1> QED  BY <1>2, <1>5, <1>6

\* The worker's states of the actors once a barrier is issued.
LEMMA IssuedStates ==
  ASSUME TypeInv, NEW a \in Actors, NEW b \in BarrierType,
         NEW s, s = (CASE a \in b.build -> Started(b.epoch)
                       [] a \in b.collect \ b.build -> Issued(states[a], b.epoch, a \in b.stop)
                       [] OTHER -> states[a])
  PROVE  /\ s \in StateType
         /\ a \in b.build => s = Started(b.epoch)
         /\ a \in b.collect \ b.build =>
              /\ s.inflight = Append(states[a].inflight, b.epoch)
              /\ s.first = IF states[a].first = <<>> THEN states[a].first ELSE Append(states[a].first, b.epoch)
              /\ s.max = b.epoch /\ s.stopping = (states[a].stopping \/ a \in b.stop)
              /\ s.senders = states[a].senders /\ s.exists = states[a].exists
         /\ a \notin b.build /\ a \notin b.collect => s = states[a]
<1>1. /\ states[a] \in StateType /\ b.epoch \in Epochs /\ b.epoch \in 0 .. MaxEpoch
      /\ states[a].inflight \in Seq(Epochs) /\ states[a].first \in Seq(Epochs)
      BY ActorFacts, ManagedAssumption DEF BarrierType, Epochs
<1>2. CASE a \in b.build
  <2>1. s = Started(b.epoch)
        BY <1>2
  <2>4. s \in StateType
        BY <1>1, <2>1, StartedFacts
  <2> QED  BY <1>2, <2>1, <2>4
<1>3. CASE a \in b.collect \ b.build
  <2>1. s = Issued(states[a], b.epoch, a \in b.stop)
        BY <1>3
  <2>2. PICK f \in Seq(Epochs) :
          f = IF states[a].first = <<>> THEN states[a].first ELSE Append(states[a].first, b.epoch)
        BY <1>1, AppendElements
  <2>3. PICK q \in Seq(Epochs) : q = Append(states[a].inflight, b.epoch)
        BY <1>1, AppendElements
  <2>4. PICK st \in BOOLEAN : st = (states[a].stopping \/ a \in b.stop)
        OBVIOUS
  <2>5. s = [states[a] EXCEPT !.inflight = q, !.first = f, !.max = b.epoch, !.stopping = st]
        BY <2>1, <2>2, <2>3, <2>4 DEF Issued
  <2>6. /\ s \in StateType /\ s.inflight = q /\ s.first = f /\ s.max = b.epoch /\ s.stopping = st
        /\ s.senders = states[a].senders /\ s.exists = states[a].exists
        BY <1>1, <2>5 DEF StateType
  <2> QED  BY <1>3, <2>2, <2>3, <2>4, <2>6
<1>4. CASE a \notin b.build /\ a \notin b.collect
  <2>1. s = states[a]
        BY <1>4
  <2> QED  BY <1>1, <1>4, <2>1
<1> QED  BY <1>2, <1>3, <1>4

\* A barrier is issued to the actors, or one cannot be reached and the graph is
\* suspended.
LEMMA InjectStep ==
  ASSUME MBInv, NEW b, NEW after, Sendable(b, after), Inject(b, after)
  PROVE  MBInv'
<1>1. /\ TypeInv /\ TablesInv /\ BarriersInv /\ MapOk(map, completing, reports, states, events)
      /\ (\A a \in Actors : StateOk(a) /\ ActorOk(a)) /\ EventsInv /\ graph = "running"
      BY DEF MBInv, Running, Inject
<1>2. /\ epoch <= MaxEpoch /\ b.collect # {} /\ TransformToIssued(b)
      /\ epoch' = epoch + 1 /\ live' = after /\ tables' = b.tables
      /\ barriers' = Append(barriers, b)
      /\ unsynced' = IF b.kind = "checkpoint" THEN b.tables ELSE unsynced \cup b.tables
      /\ UNCHANGED <<answered, events, failures, passed, reported>>
      BY DEF Inject
<1>3. /\ b \in BarrierType /\ b.epoch = epoch /\ b.due = unsynced /\ b.collect = live \cup b.build
      /\ after = b.collect \ b.stop /\ after \subseteq Actors /\ b.stop \subseteq live
      /\ after = {} => b.tables = {}
      /\ b.kind = "initial" => epoch = 1 /\ live = {}
      /\ b.kind = "barrier" => b.tables = tables /\ live # {}
      /\ b.kind \in Kinds
      /\ \A a \in b.build : /\ a \in Actors /\ a \notin live /\ states[a] = NoState
                            /\ task[a] = "none" /\ passed[a] = 0
      /\ \A a \in live : a \in Actors /\ states[a].exists /\ ~states[a].stopping
      BY <1>1, <1>2, SendableFacts
<1>4. AssertsHold(b)
      BY <1>1, <1>2, NoAssertionFails
<1>5. /\ epoch \in Nat /\ epoch \in Epochs /\ epoch + 1 \in 1 .. MaxEpoch + 1 /\ epoch + 1 # 1
      /\ epoch < epoch + 1
      BY <1>1, <1>2, ManagedAssumption DEF TypeInv, Epochs
<1>6. b.tables \subseteq Tables /\ b.collect \subseteq Actors /\ b.kind \in Kinds /\ b.due \subseteq Tables
      BY <1>3 DEF BarrierType
<1>7. /\ barriers' \in Seq(BarrierType) /\ Len(barriers') = Len(barriers) + 1 /\ Len(barriers) \in Nat
      /\ \A i \in 1 .. Len(barriers) : barriers'[i] = barriers[i]
      /\ barriers'[Len(barriers) + 1] = b
      BY <1>1, <1>2, <1>3, AppendElements DEF TypeInv
<1>8. unsynced' = b.tables
  <2>1. b.kind = "initial" => unsynced = {}
        BY <1>1, <1>3 DEF TablesInv
  <2>2. b.kind = "barrier" => unsynced = b.tables
        BY <1>1, <1>3 DEF TablesInv
  <2> QED  BY <1>2, <1>3, <2>1, <2>2 DEF Kinds
<1>9. CASE Unreachable(b) # {}
  <2>1. graph' = "suspended" /\ completing' = <<>> /\ UNCHANGED <<states, graphVars, task, rx>>
        BY <1>2, <1>4, <1>9 DEF TransformToIssued
  <2>2. TypeInv'
        BY <1>1, <1>2, <1>3, <1>5, <1>6, <1>7, <1>8, <2>1 DEF TypeInv, graphVars
  <2> QED  BY <1>1, <1>2, <2>1, <2>2, SuspendStep DEF graphVars
<1>10. CASE Unreachable(b) = {}
  <2>1. PICK p : p = [epoch |-> b.epoch, remaining |-> b.collect, kind |-> b.kind, sync |-> TablesToSync(b)]
        OBVIOUS
  <2>2. /\ map' = Append(map, p)
        /\ prevTables' = [curr |-> b.epoch + 1, tables |-> b.tables]
        /\ states' = [a \in Actors |->
                       CASE a \in b.build -> Started(b.epoch)
                         [] a \in b.collect \ b.build ->
                              Issued(states[a], b.epoch, a \in b.stop)
                         [] OTHER -> states[a]]
        /\ task' = [a \in Actors |-> IF a \in b.build THEN "building" ELSE task[a]]
        /\ rx' = [a \in Actors |-> [r \in Receivers |->
                   IF a \in b.collect \ b.build /\ r \in states[a].senders
                   THEN Append(rx[a][r], b.epoch) ELSE rx[a][r]]]
        /\ UNCHANGED <<graph, reports, completing>>
        BY <1>2, <1>4, <1>10, <2>1 DEF TransformToIssued
  <2>3. UNCHANGED <<answered, events, failures, passed, reported, graph, reports, completing>>
        BY <1>2, <2>2
\* What is synced.
  <2>4. TablesToSync(b) = unsynced
        BY <1>1, <1>3 DEF TablesToSync, TablesInv
  <2>5. /\ p \in PendingType /\ p.epoch = epoch /\ p.remaining = b.collect /\ p.sync = b.due
        BY <1>3, <1>5, <1>6, <2>1, <2>4 DEF PendingType
  <2>6. /\ map' \in Seq(PendingType) /\ Len(map') = Len(map) + 1 /\ Len(map) \in Nat
        /\ \A i \in 1 .. Len(map) : map'[i] = map[i]
        /\ map'[Len(map) + 1] = p
        BY <1>1, <2>2, <2>5, AppendElements DEF TypeInv
\* The worker's states.
  <2>7. \A a \in Actors :
          /\ states'[a] \in StateType
          /\ a \in b.build => states'[a] = Started(epoch)
          /\ a \in b.collect \ b.build =>
               /\ states'[a].inflight = Append(states[a].inflight, epoch)
               /\ states'[a].first = IF states[a].first = <<>> THEN states[a].first
                                     ELSE Append(states[a].first, epoch)
               /\ states'[a].max = epoch /\ states'[a].stopping = (states[a].stopping \/ a \in b.stop)
               /\ states'[a].senders = states[a].senders /\ states'[a].exists = states[a].exists
          /\ a \notin b.build /\ a \notin b.collect => states'[a] = states[a]
    <3> TAKE a \in Actors
    <3>1. states'[a] = CASE a \in b.build -> Started(b.epoch)
                         [] a \in b.collect \ b.build ->
                              Issued(states[a], b.epoch, a \in b.stop)
                         [] OTHER -> states[a]
          BY <2>2
    <3> QED  BY <1>1, <1>3, <3>1, IssuedStates
  <2>8. states' \in [Actors -> StateType]
        BY <2>2, <2>7
  <2>9. /\ \A i \in 1 .. Len(map) : map[i].epoch \in Epochs /\ map[i].epoch < epoch /\ map[i].epoch # epoch
        /\ Len(completing) + Len(map) = Len(barriers) /\ Len(completing) \in Nat
    <3>1. /\ \A i \in 1 .. Len(map) : map[i].epoch \in Epochs /\ map[i].epoch < epoch
          /\ Len(completing) + Len(map) = Len(barriers) /\ Len(completing) \in Nat
          BY <1>1, MapEpochs DEF TypeInv
    <3> QED  BY <1>5, <3>1 DEF Epochs
  <2>10. \A a \in Actors : /\ Increasing(states[a].inflight) /\ states[a].inflight \in Seq(Epochs)
                           /\ \A x \in Flying(a) : x < epoch /\ x # epoch
    <3> TAKE a \in Actors
    <3>1. Increasing(states[a].inflight) /\ states[a].inflight \in Seq(Epochs)
          BY <1>1, ActorFacts DEF StateOk
    <3>2. \A x \in Flying(a) : \E i \in 1 .. Len(map) : map[i].epoch = x
          BY <1>1 DEF MapOk, Flying
    <3> QED  BY <2>9, <3>1, <3>2
  <2>11. \A a \in b.collect \ b.build :
           /\ Append(states[a].inflight, epoch) \in Seq(Epochs)
           /\ Increasing(Append(states[a].inflight, epoch))
           /\ Range(Append(states[a].inflight, epoch)) = Flying(a) \cup {epoch}
           /\ Append(states[a].inflight, epoch)[Len(Append(states[a].inflight, epoch))] = epoch
           /\ Append(states[a].inflight, epoch) # <<>>
    <3> TAKE a \in b.collect \ b.build
    <3>1. a \in Actors
          BY <1>6
    <3> QED  BY <1>5, <2>10, <3>1, IncreasingAppend DEF Flying
  <2>12. \A a \in Actors, x \in Epochs :
           x \in Range(states'[a].inflight) <=> x \in Flying(a) \/ (a \in b.collect /\ x = epoch)
    <3> TAKE a \in Actors, x \in Epochs
    <3>1. CASE a \in b.build
      <4>1. Range(<<epoch>>) = {epoch} /\ Range(<<>>) = {}
            BY DEF Range
      <4>2. states'[a].inflight = <<epoch>> /\ states[a].inflight = <<>>
        <5>1. states'[a] = Started(epoch) /\ states[a] = NoState
              BY <1>3, <2>7, <3>1
        <5> QED  BY <1>5, <5>1, StartedFacts
      <4> QED  BY <1>3, <3>1, <4>1, <4>2 DEF Flying
    <3>2. CASE a \in b.collect \ b.build
      <4>1. Range(states'[a].inflight) = Flying(a) \cup {epoch}
            BY <2>7, <2>11, <3>2
      <4> QED  BY <3>2, <4>1
    <3>3. CASE a \notin b.build /\ a \notin b.collect
          BY <2>7, <3>3 DEF Flying
    <3> QED  BY <3>1, <3>2, <3>3
\* The subscriptions.
  <2>13. /\ rx' \in [Actors -> [Receivers -> Seq(Epochs)]]
         /\ \A a \in Actors, r \in Receivers :
              rx'[a][r] = IF a \in b.collect \ b.build /\ r \in states[a].senders
                          THEN Append(rx[a][r], epoch) ELSE rx[a][r]
    <3>1. rx \in [Actors -> [Receivers -> Seq(Epochs)]]
          BY <1>1 DEF TypeInv
    <3>2. \A a \in Actors, r \in Receivers :
              rx'[a][r] = IF a \in b.collect \ b.build /\ r \in states[a].senders
                          THEN Append(rx[a][r], epoch) ELSE rx[a][r]
          BY <1>3, <2>2
    <3>3. \A a \in Actors, r \in Receivers : rx'[a][r] \in Seq(Epochs)
      <4> TAKE a \in Actors, r \in Receivers
      <4>1. rx[a][r] \in Seq(Epochs)
            BY <3>1
      <4>2. Append(rx[a][r], epoch) \in Seq(Epochs)
            BY <1>5, <4>1, AppendElements
      <4> QED  BY <3>2, <4>1, <4>2
    <3> QED  BY <2>2, <3>2, <3>3
  <2>14. /\ task' \in [Actors -> Tasks]
         /\ \A a \in Actors : task'[a] = IF a \in b.build THEN "building" ELSE task[a]
        BY <1>1, <2>2 DEF TypeInv, Tasks
  <2>15. TypeInv'
    <3>1. prevTables' \in [curr : 0 .. MaxEpoch + 1, tables : SUBSET Tables]
          BY <1>3, <1>5, <1>6, <2>2
    <3> QED  BY <1>1, <1>2, <1>3, <1>5, <1>6, <1>7, <1>8, <2>3, <2>6, <2>8, <2>13, <2>14, <3>1, SMTT(30) DEF TypeInv
  <2>16. TablesInv'
    <3>1. prevTables'.curr = epoch + 1 /\ prevTables'.tables = b.tables
          BY <1>3, <2>2
    <3> QED  BY <1>2, <1>3, <1>5, <1>8, <3>1 DEF TablesInv
  <2>17. \A i \in 1 .. Len(barriers') : (i \in 1 .. Len(barriers) /\ barriers'[i] = barriers[i])
                                        \/ (i = Len(barriers) + 1 /\ barriers'[i] = b)
    <3> TAKE i \in 1 .. Len(barriers')
    <3>1. i \in 1 .. Len(barriers) \/ i = Len(barriers) + 1
          BY <1>7
    <3> QED  BY <1>7, <3>1
  <2>18. BarriersInv'
    <3>1. answered \in Nat /\ \A i \in 1 .. Len(barriers) : barriers[i].epoch \in Nat
          BY <1>1, BarrierFacts
    <3>2. answered' < epoch'
          BY <1>1, <1>2, <1>5, <3>1 DEF BarriersInv
    <3>3. ASSUME NEW i \in 1 .. Len(barriers')
          PROVE  answered' < barriers'[i].epoch /\ barriers'[i].epoch < epoch'
      <4>1. CASE i \in 1 .. Len(barriers) /\ barriers'[i] = barriers[i]
            BY <1>1, <1>2, <1>5, <3>1, <4>1 DEF BarriersInv
      <4>2. CASE i = Len(barriers) + 1 /\ barriers'[i] = b
            BY <1>1, <1>2, <1>3, <1>5, <4>2 DEF BarriersInv
      <4> QED  BY <2>17, <4>1, <4>2
    <3>4. ASSUME NEW i \in 1 .. Len(barriers'), NEW j \in 1 .. Len(barriers'), i < j
          PROVE  barriers'[i].epoch < barriers'[j].epoch
      <4>1. i \in 1 .. Len(barriers) /\ barriers'[i] = barriers[i]
            BY <1>7, <3>4
      <4>2. CASE j \in 1 .. Len(barriers) /\ barriers'[j] = barriers[j]
            BY <1>1, <3>4, <4>1, <4>2 DEF BarriersInv
      <4>3. CASE j = Len(barriers) + 1 /\ barriers'[j] = b
            BY <1>1, <1>3, <4>1, <4>3 DEF BarriersInv
      <4> QED  BY <2>17, <4>2, <4>3
    <3>5. ASSUME NEW x \in Epochs, reported'[x] # {}
          PROVE  \E i \in 1 .. Len(barriers') : barriers'[i].epoch = x
      <4>1. PICK i \in 1 .. Len(barriers) : barriers[i].epoch = x
            BY <1>1, <2>3, <3>5 DEF BarriersInv
      <4> QED  BY <1>7, <4>1
    <3> QED  BY <3>2, <3>3, <3>4, <3>5 DEF BarriersInv
  <2>19. MapOk(map, completing, reports, states, events)'
    <3>1. \A i \in 1 .. Len(map') : (i \in 1 .. Len(map) /\ map'[i] = map[i])
                                     \/ (i = Len(map) + 1 /\ map'[i] = p)
      <4> TAKE i \in 1 .. Len(map')
      <4>1. i \in 1 .. Len(map) \/ i = Len(map) + 1
            BY <2>6
      <4> QED  BY <2>6, <4>1
    <3>2. \A i \in 1 .. Len(completing) :
            /\ completing[i].epoch = barriers'[i].epoch /\ completing[i].sync = barriers'[i].due
            /\ \A a \in barriers'[i].collect : passed[a] >= barriers'[i].epoch
            /\ completing[i].reports = reported[completing[i].epoch]
      <4> TAKE i \in 1 .. Len(completing)
      <4>1. barriers'[i] = barriers[i]
            BY <1>7, <2>6, <2>9
      <4> QED  BY <1>1, <4>1 DEF MapOk
    <3>3. \A i \in 1 .. Len(map') :
            LET c == barriers'[Len(completing) + i]
            IN  /\ map'[i].epoch = c.epoch /\ map'[i].sync = c.due
                /\ \A a \in c.collect : a \in map'[i].remaining \/ passed[a] >= c.epoch
      <4> TAKE i \in 1 .. Len(map')
      <4>1. CASE i \in 1 .. Len(map) /\ map'[i] = map[i]
        <5>1. barriers'[Len(completing) + i] = barriers[Len(completing) + i]
              BY <1>7, <2>6, <2>9, <4>1
        <5> QED  BY <1>1, <4>1, <5>1 DEF MapOk
      <4>2. CASE i = Len(map) + 1 /\ map'[i] = p
        <5>1. barriers'[Len(completing) + i] = b
              BY <1>7, <2>6, <2>9, <4>2
        <5> QED  BY <1>3, <2>5, <4>2, <5>1
      <4> QED  BY <3>1, <4>1, <4>2
    <3>4. \A a \in Actors : a \notin reported[epoch] /\ a \notin reports[epoch]
      <4>1. reported[epoch] = {}
        <5>1. \A i \in 1 .. Len(barriers) : barriers[i].epoch # epoch
              BY <1>1, <1>5, BarrierFacts DEF BarriersInv
        <5> QED  BY <1>1, <1>5, <5>1 DEF BarriersInv
      <4>2. reports[epoch] = {}
            BY <1>1, <1>5, <2>9 DEF MapOk
      <4> QED  BY <4>1, <4>2
    <3>5. \A k \in 1 .. Len(events), a \in Actors : ~IsReport(events[k], a, epoch)
      <4> SUFFICES ASSUME NEW k \in 1 .. Len(events), NEW a \in Actors, IsReport(events[k], a, epoch)
                   PROVE  FALSE
          OBVIOUS
      <4>1. events[k].kind = "report" /\ events[k].actor = a /\ events[k].epoch = epoch
            BY DEF IsReport
      <4>2. epoch \in Flying(a)
            BY <1>1, <4>1, ReportInFlight DEF EventsInv
      <4> QED  BY <2>10, <4>2
    <3>6. \A i \in 1 .. Len(map'), a \in Actors :
            /\ a \in map'[i].remaining <=> map'[i].epoch \in Range(states'[a].inflight)
            /\ a \in reported[map'[i].epoch] <=>
                 \/ a \in reports[map'[i].epoch]
                 \/ \E k \in 1 .. Len(events) : IsReport(events[k], a, map'[i].epoch)
      <4> TAKE i \in 1 .. Len(map'), a \in Actors
      <4>1. CASE i \in 1 .. Len(map) /\ map'[i] = map[i]
        <5>1. /\ a \in map[i].remaining <=> map[i].epoch \in Flying(a)
              /\ a \in reported[map[i].epoch] <=>
                   \/ a \in reports[map[i].epoch]
                   \/ \E k \in 1 .. Len(events) : IsReport(events[k], a, map[i].epoch)
              BY <1>1, <4>1 DEF MapOk, Flying
        <5>2. map[i].epoch \in Range(states'[a].inflight) <=> map[i].epoch \in Flying(a)
              BY <2>9, <2>12, <4>1
        <5> QED  BY <4>1, <5>1, <5>2
      <4>2. CASE i = Len(map) + 1 /\ map'[i] = p
        <5>1. epoch \in Range(states'[a].inflight) <=> a \in b.collect
              BY <1>5, <2>10, <2>12
        <5> QED  BY <2>5, <3>4, <3>5, <4>2, <5>1
      <4> QED  BY <3>1, <4>1, <4>2
    <3>7. \A a \in Actors : \A x \in Range(states'[a].inflight) : \E i \in 1 .. Len(map') : map'[i].epoch = x
      <4> TAKE a \in Actors
      <4> TAKE x \in Range(states'[a].inflight)
      <4>1. x \in Epochs
        <5>1. states'[a] \in StateType
              BY <2>7
        <5>2. states'[a].inflight \in Seq(Epochs)
              BY <5>1 DEF StateType
        <5> QED  BY <5>2 DEF Range
      <4>2. x \in Flying(a) \/ x = epoch
            BY <2>12, <4>1
      <4>3. CASE x \in Flying(a)
        <5>1. PICK i \in 1 .. Len(map) : map[i].epoch = x
              BY <1>1, <4>3 DEF MapOk, Flying
        <5> QED  BY <2>6, <5>1
      <4>4. CASE x = epoch
        <5>1. Len(map) + 1 \in 1 .. Len(map') /\ map'[Len(map) + 1].epoch = x
              BY <2>5, <2>6, <4>4
        <5> QED  BY <5>1
      <4> QED  BY <4>2, <4>3, <4>4
    <3>8. \A x \in Epochs : reports[x] # {} => \E i \in 1 .. Len(map') : map'[i].epoch = x
      <4> TAKE x \in Epochs
      <4> HAVE reports[x] # {}
      <4>1. PICK i \in 1 .. Len(map) : map[i].epoch = x
            BY <1>1 DEF MapOk
      <4> QED  BY <2>6, <4>1
    <3>9. Len(completing) + Len(map') = Len(barriers')
          BY <1>7, <2>6, <2>9
    <3> QED  BY <2>3, <3>2, <3>3, <3>6, <3>7, <3>8, <3>9 DEF MapOk
\* The actors.
  <2>20. \A a \in Actors : passed[a] < epoch /\ passed[a] \in Nat
        BY <1>1, ActorFacts DEF ActorOk
  <2>21. ASSUME NEW a \in Actors PROVE StateOk(a)'
    <3>1. CASE a \in b.build
      <4>1. /\ states'[a].inflight = <<epoch>> /\ states'[a].first = <<epoch>> /\ states'[a].max = epoch
            /\ ~states'[a].stopping /\ states'[a].exists
        <5>1. states'[a] = Started(epoch)
              BY <2>7, <3>1
        <5> QED  BY <1>5, <5>1, StartedFacts
      <4>2. Increasing(<<epoch>>) /\ <<epoch>> # <<>> /\ <<epoch>>[Len(<<epoch>>)] = epoch
            BY DEF Increasing
      <4> QED  BY <1>2, <1>3, <1>5, <2>3, <3>1, <4>1, <4>2 DEF StateOk
    <3>2. CASE a \in b.collect \ b.build
      <4>1. /\ states'[a].inflight = Append(states[a].inflight, epoch)
            /\ states'[a].first = IF states[a].first = <<>> THEN states[a].first
                                  ELSE Append(states[a].first, epoch)
            /\ states'[a].max = epoch /\ states'[a].stopping = (states[a].stopping \/ a \in b.stop)
            /\ states'[a].senders = states[a].senders /\ states'[a].exists = states[a].exists
            BY <2>7, <3>2
      <4>2. a \in live /\ states[a].exists /\ ~states[a].stopping
            BY <1>3, <3>2
      <4>3. /\ Increasing(states'[a].inflight) /\ states'[a].inflight # <<>>
            /\ states'[a].inflight[Len(states'[a].inflight)] = epoch
            BY <2>11, <3>2, <4>1
      <4>4. states'[a].first # <<>> => states'[a].first = states'[a].inflight
            BY <1>1, <4>1 DEF StateOk
      <4>5. states[a].first # <<>> => states'[a].first # <<>>
        <5> HAVE states[a].first # <<>>
        <5>1. states'[a].first = states'[a].inflight
              BY <1>1, <4>1 DEF StateOk
        <5> QED  BY <4>3, <5>1
      <4>6. states[a].senders # Receivers => passed[a] = 0 /\ states[a].first # <<>>
            BY <1>1, <4>2 DEF StateOk
      <4>7. states'[a].stopping => a \in b.stop
            BY <4>1, <4>2
      <4>8. ASSUME NEW i \in 1 .. Len(barriers'), barriers'[i].epoch = epoch, states'[a].stopping
            PROVE  a \in barriers'[i].stop
        <5>1. \A j \in 1 .. Len(barriers) : barriers[j].epoch # epoch
              BY <1>1, <1>5, BarrierFacts DEF BarriersInv
        <5>2. barriers'[i] = b
              BY <2>17, <4>8, <5>1
        <5> QED  BY <4>7, <4>8, <5>2
      <4>9. a \in after => ~states'[a].stopping
            BY <1>3, <4>7
      <4>10. ~(passed'[a] >= epoch)
            BY <1>5, <2>3, <2>20
      <4> QED  BY <1>2, <1>5, <2>3, <4>1, <4>2, <4>3, <4>4, <4>5, <4>6, <4>8, <4>9, <4>10 DEF StateOk
    <3>3. CASE a \notin b.build /\ a \notin b.collect
      <4>1. states'[a] = states[a] /\ task'[a] = task[a] /\ a \notin after /\ passed'[a] = passed[a]
            BY <1>3, <2>3, <2>7, <2>14, <3>3
      <4>2. states[a].max < epoch /\ states[a].max \in Nat
            BY <1>1, ActorFacts DEF StateOk
      <4>3. ASSUME NEW i \in 1 .. Len(barriers'), barriers'[i].epoch = states[a].max, states[a].stopping
            PROVE  a \in barriers'[i].stop
        <5>1. i \in 1 .. Len(barriers) /\ barriers'[i] = barriers[i]
              BY <1>3, <1>5, <2>17, <4>2, <4>3
        <5> QED  BY <1>1, <4>3, <5>1 DEF StateOk
      <4> QED  BY <1>1, <1>2, <1>5, <4>1, <4>2, <4>3 DEF StateOk
    <3> QED  BY <3>1, <3>2, <3>3
  <2>22. ASSUME NEW a \in Actors PROVE ActorOk(a)'
    <3>1. passed'[a] = passed[a] /\ passed[a] < epoch' /\ epoch > passed[a]
          BY <1>2, <1>5, <2>3, <2>20
    <3>2. CASE a \in b.build
      <4>1. states'[a].senders = {} /\ states'[a].exists /\ states[a].senders = {} /\ task'[a] = "building"
        <5>1. states'[a] = Started(epoch) /\ states[a] = NoState /\ task'[a] = "building"
              BY <1>3, <2>7, <2>14, <3>2
        <5> QED  BY <1>5, <5>1, StartedFacts
      <4>2. \A r \in Receivers : rx'[a][r] = <<>>
            BY <1>1, <2>13, <3>2, <4>1 DEF ActorOk
      <4> QED  BY <3>1, <4>1, <4>2 DEF ActorOk
    <3>3. CASE a \in b.collect \ b.build
      <4>1. /\ states'[a].senders = states[a].senders /\ states'[a].exists /\ states[a].exists
            /\ task'[a] = task[a]
            BY <1>3, <2>7, <2>14, <3>3
      <4>2. ASSUME NEW r \in Receivers, r \in states[a].senders
            PROVE  /\ Increasing(rx'[a][r])
                   /\ \A x \in Epochs : x \in Range(rx'[a][r]) <=>
                        x \in Range(states'[a].inflight) /\ x > passed[a]
        <5>1. /\ rx[a][r] \in Seq(Epochs) /\ Increasing(rx[a][r])
              /\ \A x \in Epochs : x \in Range(rx[a][r]) <=> x \in Flying(a) /\ x > passed[a]
              BY <1>1, <4>2, ActorFacts DEF ActorOk
        <5>2. \A x \in Range(rx[a][r]) : x < epoch
          <6>1. Range(rx[a][r]) \subseteq Epochs
                BY <5>1 DEF Range
          <6> QED  BY <2>10, <5>1, <6>1
        <5>3. Increasing(rx'[a][r]) /\ Range(rx'[a][r]) = Range(rx[a][r]) \cup {epoch}
          <6>1. rx'[a][r] = Append(rx[a][r], epoch)
                BY <2>13, <3>3, <4>2
          <6> QED  BY <1>5, <5>1, <5>2, <6>1, IncreasingAppend
        <5>4. ASSUME NEW x \in Epochs
              PROVE  x \in Range(rx'[a][r]) <=> x \in Range(states'[a].inflight) /\ x > passed[a]
              BY <2>12, <3>1, <3>3, <5>1, <5>3
        <5> QED  BY <5>3, <5>4
      <4>3. ASSUME NEW r \in Receivers, r \notin states[a].senders PROVE rx'[a][r] = <<>>
            BY <1>1, <2>13, <4>3 DEF ActorOk
      <4> QED  BY <1>1, <3>1, <4>1, <4>2, <4>3 DEF ActorOk, Flying
    <3>4. CASE a \notin b.build /\ a \notin b.collect
      <4>1. states'[a] = states[a] /\ task'[a] = task[a] /\ \A r \in Receivers : rx'[a][r] = rx[a][r]
            BY <2>7, <2>13, <2>14, <3>4
      <4> QED  BY <1>1, <3>1, <4>1 DEF ActorOk, Flying
    <3> QED  BY <3>2, <3>3, <3>4
\* The events.
  <2>23. \A a \in Actors : /\ states'[a].senders = states[a].senders
                           /\ states[a].exists => states'[a].exists
    <3> TAKE a \in Actors
    <3>1. CASE a \in b.build
      <4>1. states'[a] = Started(epoch) /\ states[a] = NoState
            BY <1>3, <2>7, <3>1
      <4> QED  BY <1>5, <4>1, StartedFacts
    <3>2. CASE a \notin b.build
          BY <2>7, <3>2
    <3> QED  BY <3>1, <3>2
  <2>24. SubscriptionsOk' /\ RegistersOk'
    <3>1. \A a \in Actors : SubscribedBy(a)' = SubscribedBy(a)
          BY <2>3, <2>23 DEF SubscribedBy
    <3>2. SubscriptionsOk'
          BY <1>1, <3>1 DEF EventsInv, SubscriptionsOk
    <3>3. \A i \in 1 .. Len(events) : events[i].actor \in Actors
          BY <1>1, EventFacts
    <3>4. RegistersOk'
          BY <1>1, <2>3, <2>23, <3>3 DEF EventsInv, RegistersOk
    <3> QED  BY <3>2, <3>4
  <2>25. CollectsOk'
    <3>1. ASSUME NEW i \in 1 .. Len(events), events[i].kind = "collect"
          PROVE  /\ events[i].epoch \in Range(states'[events[i].actor].inflight)
                 /\ events[i].epoch <= passed[events[i].actor]
      <4>1. events[i].actor \in Actors /\ events[i].epoch \in Epochs
            BY <1>1, <3>1, EventFacts
      <4>2. events[i].epoch \in Flying(events[i].actor) /\ events[i].epoch <= passed[events[i].actor]
            BY <1>1, <3>1 DEF EventsInv, CollectsOk
      <4> QED  BY <2>12, <4>1, <4>2
    <3>2. ASSUME NEW a \in Actors, NEW x \in Range(states'[a].inflight), x <= passed[a]
          PROVE  \E i \in 1 .. Len(events) : IsCollect(events[i], a, x)
      <4>1. states'[a].inflight \in Seq(Epochs)
        <5>1. states'[a] \in StateType
              BY <2>7
        <5> QED  BY <5>1 DEF StateType
      <4>2. x \in Epochs
            BY <4>1 DEF Range
      <4>3. x \in Flying(a)
            BY <1>5, <2>12, <2>20, <3>2, <4>2
      <4> QED  BY <1>1, <3>2, <4>3 DEF EventsInv, CollectsOk
    <3>3. \A i, j \in 1 .. Len(events) :
            i < j /\ events[i].kind = "collect" /\ events[j].kind = "collect"
              /\ events[i].actor = events[j].actor => events[i].epoch < events[j].epoch
          BY <1>1 DEF EventsInv, CollectsOk
    <3> QED  BY <2>3, <3>1, <3>2, <3>3 DEF CollectsOk, Flying
  <2>26. ReportsOk'
        BY <1>1, <2>3 DEF EventsInv, ReportsOk, IsCollect
  <2> QED  BY <1>1, <2>3, <2>15, <2>16, <2>18, <2>19, <2>21, <2>22, <2>24, <2>25, <2>26
           DEF MBInv, Running, EventsInv
<1> QED  BY <1>9, <1>10

\* The first barrier, one without and one with a command.
LEMMA InjectSteps ==
  ASSUME MBInv, InjectInitial \/ InjectPlain \/ InjectCommand
  PROVE  MBInv'
<1>1. CASE InjectInitial
  <2>1. PICK A \in SUBSET NewActors, T \in SUBSET Tables : Inject(Barrier("initial", A, {}, T), A)
        BY <1>1 DEF InjectInitial
  <2>2. live \cup A # {}
        BY <2>1 DEF Inject, Barrier
  <2>3. live = {} /\ epoch = 1 /\ A # {}
    <3>1. TablesInv /\ epoch = 1
          BY <1>1, <2>1 DEF MBInv, Running, Inject, InjectInitial
    <3> QED  BY <2>2, <3>1 DEF TablesInv
  <2>4. Sendable(Barrier("initial", A, {}, T), A)
    <3>1. A = (live \cup A) \ {} /\ {} \in SUBSET live /\ "initial" \in Kinds
          BY <2>3 DEF Kinds
    <3> QED  BY <2>3, <3>1 DEF Sendable
  <2> QED  BY <2>1, <2>4, InjectStep
<1>2. CASE InjectPlain
  <2>1. PICK kind \in {"barrier", "checkpoint"} : Inject(Barrier(kind, {}, {}, tables), live)
        BY <1>2 DEF InjectPlain
  <2>2. live # {}
        BY <2>1 DEF Inject, Barrier
  <2>3. tables \in SUBSET Tables
        BY DEF MBInv, TypeInv
  <2>4. Sendable(Barrier(kind, {}, {}, tables), live)
    <3>1. live = (live \cup {}) \ {} /\ {} \in SUBSET live /\ {} \in SUBSET NewActors /\ kind \in Kinds
          BY DEF Kinds
    <3> QED  BY <2>2, <2>3, <3>1 DEF Sendable
  <2> QED  BY <2>1, <2>4, InjectStep
<1>3. CASE InjectCommand
  <2>1. PICK A \in SUBSET NewActors, S \in SUBSET live, T \in SUBSET Tables :
          Inject(Barrier("checkpoint", A, S, IF (live \cup A) \ S = {} THEN {} ELSE T), (live \cup A) \ S)
        BY <1>3 DEF InjectCommand
  <2>2. PICK U \in SUBSET Tables : U = IF (live \cup A) \ S = {} THEN {} ELSE T
        OBVIOUS
  <2>3. Sendable(Barrier("checkpoint", A, S, U), (live \cup A) \ S)
    <3>1. "checkpoint" \in Kinds /\ ((live \cup A) \ S = {} => U = {})
          BY <2>2 DEF Kinds
    <3> QED  BY <3>1 DEF Sendable
  <2> QED  BY <2>1, <2>2, <2>3, InjectStep
<1> QED  BY <1>1, <1>2, <1>3

\* At the start no barrier was sent.
LEMMA InitInv == Init => MBInv
<1> SUFFICES ASSUME Init PROVE MBInv
    OBVIOUS
<1> USE ManagedAssumption
<1>1. TypeInv
  <2>1. NoState \in StateType
        BY DEF NoState, StateType
  <2>2. NoTables \in [curr : 0 .. MaxEpoch + 1, tables : SUBSET Tables]
        BY DEF NoTables
  <2> QED  BY <2>1, <2>2 DEF Init, TypeInv, Tasks
<1>2. TablesInv
      BY DEF Init, TablesInv, NoTables
<1>3. BarriersInv
      BY DEF Init, BarriersInv
<1>4. \A a \in Actors : states[a] = NoState /\ Flying(a) = {}
  <2>1. Range(<<>>) = {} /\ NoState.inflight = <<>>
        BY DEF Range, NoState
  <2> QED  BY <2>1 DEF Init, Flying
<1>5. MapOk(map, completing, reports, states, events)
  <2>1. Len(map) = 0 /\ Len(completing) = 0 /\ Len(barriers) = 0
        BY DEF Init
  <2>2. \A e \in Epochs : reports[e] = {}
        BY DEF Init
  <2> QED  BY <1>4, <2>1, <2>2 DEF MapOk, Flying
<1>6. \A a \in Actors : StateOk(a)
  <2>1. Increasing(<<>>)
        BY DEF Increasing
  <2> QED  BY <1>4, <2>1 DEF Init, StateOk, NoState
<1>7. \A a \in Actors : ActorOk(a)
  <2>1. \A a \in Actors : states[a].senders = {} /\ ~states[a].exists
        BY <1>4 DEF NoState
  <2>2. \A a \in Actors : passed[a] = 0 /\ task[a] = "none" /\ \A r \in Receivers : rx[a][r] = <<>>
        BY DEF Init
  <2>3. epoch = 1
        BY DEF Init
  <2> QED  BY <2>1, <2>2, <2>3 DEF ActorOk
<1>8. EventsInv
  <2>1. Len(events) = 0 /\ DOMAIN events = {} /\ 1 .. Len(events) = {}
        BY DEF Init
  <2>2. ASSUME NEW a \in Actors PROVE SubscribedBy(a) = 1 .. 0 /\ 0 \in 0 .. NumReceivers
        BY <1>4, <2>1 DEF SubscribedBy, NoState
  <2>3. SubscriptionsOk
        BY <2>2 DEF SubscriptionsOk
  <2> QED  BY <1>4, <2>1, <2>3 DEF EventsInv, RegistersOk, CollectsOk, ReportsOk
<1> QED  BY <1>1, <1>2, <1>3, <1>5, <1>6, <1>7, <1>8 DEF MBInv, Running, Init

------------------------------------------------------------------------------
(* The theorems. *)

\* The inductive invariant: what the worker has of every barrier and actor fits
\* what the meta node sent and what the actors did.
THEOREM ManagedInvariant == Spec => []MBInv
<1>1. Init => MBInv
      BY InitInv
<1>2. MBInv /\ [Next]_vars => MBInv'
  <2> SUFFICES ASSUME MBInv, [Next]_vars PROVE MBInv'
      OBVIOUS
  <2>1. CASE InjectInitial \/ InjectPlain \/ InjectCommand
        BY <2>1, InjectSteps
  <2>2. CASE InjectElsewhere
        BY <2>2, InjectElsewhereStep
  <2>3. CASE PollCollected
        BY <2>3, PollCollectedStep
  <2>4. CASE PollFailure
        BY <2>4, PollFailureStep
  <2>5. CASE PollRegister
        BY <2>5, PollRegisterStep
  <2>6. CASE PollReport
        BY <2>6, PollReportStep
  <2>7. CASE PollCollect
        BY <2>7, PollCollectStep
  <2>8. CASE SyncDone
        BY <2>8, SyncDoneStep
  <2>9. CASE OnEpochCompleted
        BY <2>9, OnEpochCompletedStep
  <2>10. ASSUME NEW a \in Actors, Subscribe(a) PROVE MBInv'
        BY <2>10, SubscribeStep
  <2>11. ASSUME NEW a \in Actors, Pass(a) PROVE MBInv'
        BY <2>11, PassStep
  <2>12. ASSUME NEW a \in Actors, Run(a) \/ Fail(a) \/ NotifyFailure(a) PROVE MBInv'
        BY <2>12, TaskSteps
  <2>13. CASE UNCHANGED vars
    <3>1. /\ UNCHANGED <<epoch, live, tables, barriers, answered, unsynced, graph, states, map, prevTables,
                         reports, completing, events, task, rx, passed, reported>>
          BY <2>13 DEF vars, metaVars, graphVars, actorVars
    <3>2. TypeInv'
          BY <3>1 DEF MBInv, TypeInv
    <3>3. CASE graph = "running"
      <4>1. TablesInv' /\ BarriersInv'
            BY <3>1, <3>3 DEF MBInv, Running, TablesInv, BarriersInv
      <4>4. MapOk(map, completing, reports, states, events)'
            BY <3>1, <3>3, MapUntouched DEF MBInv, Running
      <4>2. \A a \in Actors : StateOk(a)' /\ ActorOk(a)'
            BY <3>1, <3>3 DEF MBInv, Running, StateOk, ActorOk, Flying
      <4>3. EventsInv'
            BY <3>1, <3>3, EventsUntouched DEF MBInv, Running
      <4> QED  BY <3>1, <3>2, <3>3, <4>1, <4>2, <4>3, <4>4 DEF MBInv, Running
    <3>4. CASE graph # "running"
          BY <3>1, <3>2, <3>4 DEF MBInv
    <3> QED  BY <3>3, <3>4
  <2> QED  BY <2>1, <2>2, <2>3, <2>4, <2>5, <2>6, <2>7, <2>8, <2>9, <2>10, <2>11, <2>12, <2>13 DEF Next
<1> QED  BY <1>1, <1>2, PTL DEF Spec

\* No assertion of the barrier state fails (issue_barrier, collect,
\* register_barrier_sender, transform_to_issued), however the building of
\* actors, their barriers and failures interleave.
THEOREM NoPanicTheorem == Spec => []NoPanic
<1>1. MBInv => NoPanic
      BY DEF MBInv, TypeInv, NoPanic
<1> QED  BY <1>1, ManagedInvariant, PTL

\* Every subscription of an actor holds exactly the barriers in flight that the
\* actor has not passed, in order, and the events its collections of the others.
THEOREM SubscribersInStepTheorem == Spec => []SubscribersInStep
<1>1. ASSUME MBInv PROVE SubscribersInStep
  <2>1. TypeInv /\ (graph = "running" => Running)
        BY <1>1 DEF MBInv
  <2>2. MBTypeOK
    <3>1. \A a \in Actors : states[a].senders \subseteq Receivers
          BY <2>1, ActorFacts
    <3>2. \A i \in DOMAIN map : map[i].remaining \subseteq Actors
      <4>1. DOMAIN map = 1 .. Len(map)
            BY <2>1 DEF TypeInv
      <4> QED  BY <2>1, <4>1, BarrierFacts
    <3>3. \A e \in Epochs : reports[e] \subseteq Actors
          BY <2>1 DEF TypeInv
    <3>4. prevTables.curr \in 0 .. MaxEpoch + 1
          BY <2>1 DEF TypeInv
    <3>5. graph = "running" => Len(map) + Len(completing) = Len(barriers)
          BY <2>1, BarrierFacts DEF Running, MapOk
    <3> QED  BY <2>1, <3>1, <3>2, <3>3, <3>4, <3>5 DEF MBTypeOK, TypeInv
  <2>3. ASSUME graph = "running", NEW a \in Actors
        PROVE  /\ Increasing(states[a].inflight)
               /\ {events[i].epoch : i \in CollectEvents(a)} = {e \in Flying(a) : e <= passed[a]}
               /\ \A i, j \in CollectEvents(a) : i < j => events[i].epoch < events[j].epoch
               /\ \A r \in states[a].senders : ~Closed(a) =>
                    /\ Increasing(rx[a][r])
                    /\ Range(rx[a][r]) = {e \in Flying(a) : e > passed[a]}
    <3>1. StateOk(a) /\ ActorOk(a) /\ CollectsOk
          BY <2>1, <2>3 DEF Running, EventsInv
    <3>2. \A i : i \in CollectEvents(a) <=> /\ i \in 1 .. Len(events) /\ events[i].kind = "collect"
                                            /\ events[i].actor = a
      <4>1. DOMAIN events = 1 .. Len(events)
            BY <2>1 DEF TypeInv
      <4> QED  BY <4>1 DEF CollectEvents
    <3>3. {events[i].epoch : i \in CollectEvents(a)} = {e \in Flying(a) : e <= passed[a]}
      <4>1. ASSUME NEW i \in CollectEvents(a) PROVE events[i].epoch \in Flying(a) /\ events[i].epoch <= passed[a]
            BY <3>1, <3>2 DEF CollectsOk
      <4>2. ASSUME NEW e \in Flying(a), e <= passed[a] PROVE \E i \in CollectEvents(a) : events[i].epoch = e
        <5>1. PICK i \in 1 .. Len(events) : IsCollect(events[i], a, e)
              BY <3>1, <4>2 DEF CollectsOk
        <5> QED  BY <3>2, <5>1 DEF IsCollect
      <4> QED  BY <4>1, <4>2
    <3>4. \A i, j \in CollectEvents(a) : i < j => events[i].epoch < events[j].epoch
          BY <3>1, <3>2 DEF CollectsOk
    <3>5. ASSUME NEW r \in states[a].senders
          PROVE  Increasing(rx[a][r]) /\ Range(rx[a][r]) = {e \in Flying(a) : e > passed[a]}
      <4>1. r \in Receivers /\ rx[a][r] \in Seq(Epochs) /\ Flying(a) \subseteq Epochs
            BY <2>1, <3>5, ActorFacts
      <4>2. Range(rx[a][r]) \subseteq Epochs
            BY <4>1 DEF Range
      <4>3. Increasing(rx[a][r]) /\ \A e \in Epochs : e \in Range(rx[a][r]) <=> e \in Flying(a) /\ e > passed[a]
            BY <3>1, <3>5, <4>1 DEF ActorOk
      <4> QED  BY <4>1, <4>2, <4>3
    <3> QED  BY <3>1, <3>3, <3>4, <3>5 DEF StateOk
  <2> QED  BY <2>2, <2>3 DEF SubscribersInStep, Flying
<1> QED  BY <1>1, ManagedInvariant, PTL

\* A barrier is completed only when all its actors have passed it, and barriers
\* are answered in the order they were sent.
THEOREM AnsweredWhenPassedTheorem == Spec => []AnsweredWhenPassed
<1>1. ASSUME MBInv PROVE AnsweredWhenPassed
  <2> SUFFICES ASSUME graph = "running"
               PROVE  /\ \A i \in DOMAIN barriers : barriers[i].epoch > answered
                      /\ \A i \in DOMAIN completing :
                           /\ i \in DOMAIN barriers /\ completing[i].epoch = barriers[i].epoch
                           /\ \A a \in barriers[i].collect : passed[a] >= barriers[i].epoch
      BY DEF AnsweredWhenPassed
  <2>1. TypeInv /\ BarriersInv /\ MapOk(map, completing, reports, states, events)
        BY <1>1 DEF MBInv, Running
  <2>2. DOMAIN barriers = 1 .. Len(barriers) /\ DOMAIN completing = 1 .. Len(completing)
        BY <2>1 DEF TypeInv
  <2>3. 1 .. Len(completing) \subseteq 1 .. Len(barriers)
        BY <2>1, BarrierFacts DEF MapOk
  <2>4. \A i \in DOMAIN barriers : barriers[i].epoch > answered
        BY <2>1, <2>2, BarrierFacts DEF BarriersInv
  <2>5. \A i \in DOMAIN completing :
          /\ completing[i].epoch = barriers[i].epoch
          /\ \A a \in barriers[i].collect : passed[a] >= barriers[i].epoch
        BY <2>1, <2>2 DEF MapOk
  <2> QED  BY <2>2, <2>3, <2>4, <2>5
<1> QED  BY <1>1, ManagedInvariant, PTL

\* An answer has all reports of its barrier, the maps keep nothing of it, and a
\* checkpoint syncs the tables with an epoch since the checkpoint before.
THEOREM AnswersCompleteTheorem == Spec => []AnswersComplete
<1>1. ASSUME MBInv PROVE AnswersComplete
  <2>1. CASE graph = "running"
    <3>1. TypeInv /\ BarriersInv /\ MapOk(map, completing, reports, states, events)
          BY <1>1, <2>1 DEF MBInv, Running
    <3>2. /\ Len(map) \in Nat /\ Len(completing) \in Nat /\ Len(completing) + Len(map) = Len(barriers)
          /\ \A i \in 1 .. Len(completing), j \in 1 .. Len(map) : completing[i].epoch < map[j].epoch
          BY <3>1, MapEpochs DEF TypeInv
    <3>3. DOMAIN barriers = 1 .. Len(barriers) /\ DOMAIN completing = 1 .. Len(completing)
          BY <3>1 DEF TypeInv
    <3>4. ASSUME NEW i \in 1 .. Len(completing)
          PROVE  /\ completing[i].reports = reported[completing[i].epoch]
                 /\ reports[completing[i].epoch] = {}
                 /\ completing[i].sync = BarrierOf(completing[i].epoch).due
      <4>1. /\ i \in 1 .. Len(barriers) /\ completing[i].epoch = barriers[i].epoch
            /\ completing[i].sync = barriers[i].due
            /\ completing[i].reports = reported[completing[i].epoch]
            BY <3>1, <3>2 DEF MapOk
      <4>2. completing[i].epoch \in Epochs /\ \A j \in 1 .. Len(map) : map[j].epoch # completing[i].epoch
            BY <3>1, <3>2, BarrierFacts DEF Epochs
      <4>3. reports[completing[i].epoch] = {}
            BY <3>1, <4>2 DEF MapOk
      <4>4. ASSUME NEW k \in 1 .. Len(barriers), barriers[k].epoch = barriers[i].epoch PROVE k = i
        <5>1. barriers[k].epoch \in Nat
              BY <3>1, BarrierFacts
        <5> QED  BY <3>1, <4>1, <4>4, <5>1 DEF BarriersInv
      <4>5. BarrierOf(completing[i].epoch) = barriers[i]
        <5>1. PICK k : k = CHOOSE j \in DOMAIN barriers : barriers[j].epoch = completing[i].epoch
              OBVIOUS
        <5>2. k \in DOMAIN barriers /\ barriers[k].epoch = completing[i].epoch
              BY <3>3, <4>1, <5>1
        <5> QED  BY <3>3, <4>1, <4>4, <5>1, <5>2 DEF BarrierOf
      <4> QED  BY <4>1, <4>3, <4>5
    <3> QED  BY <1>1, <2>1, <3>3, <3>4, NothingLeftBehind DEF AnswersComplete
  <2>2. CASE graph # "running"
    <3>1. completing = <<>> /\ \A e \in Epochs : e <= answered => reports[e] = {}
          BY <1>1, <2>2 DEF MBInv, TypeInv
    <3> QED  BY <3>1 DEF AnswersComplete
  <2> QED  BY <2>1, <2>2
<1> QED  BY <1>1, ManagedInvariant, PTL

=============================================================================
