---------------------------- MODULE MergeExecutor ----------------------------
(***************************************************************************)
(* The head of an actor that reads from several upstream actors:           *)
(* MergeExecutor (stream/src/executor/merge.rs) on top of DynamicReceivers *)
(* and DispatchBarrierBuffer (stream/src/executor/mod.rs) and of           *)
(* BufferedWatermarks (stream/src/executor/watermark/mod.rs).              *)
(*                                                                         *)
(* A barrier reaches the actor twice: from its worker's barrier manager,   *)
(* with its mutation, and through each upstream, without.  An upstream     *)
(* that delivered it is blocked until all have.  A mutation that adds      *)
(* upstreams is applied in two steps: the new inputs are connected as soon *)
(* as the barrier manager's copy is seen, ahead of the old upstreams, and  *)
(* join the set when the aligned barrier arrives.                          *)
(***************************************************************************)
EXTENDS Integers, Sequences, SequencesExt, FiniteSets

CONSTANTS
  Actors,       \* upstream actors that may ever be connected
  InitialActors,\* those the executor starts with
  Fragments,    \* upstream fragments
  FirstFragment,
  NoFragment,   \* an update that keeps the upstream fragment, or no update
  MaxEpoch,     \* bound: barriers injected
  MaxWatermark, \* bound: watermarks of an upstream
  StagedCap,    \* MAX_STAGED_WATERMARKS_PER_INPUT
  ChunkSize,    \* rows after which the chunk builder emits a chunk
  ChanCap       \* bound: messages in a channel

ASSUME MergeAssumption ==
  /\ InitialActors \subseteq Actors
  /\ FirstFragment \in Fragments /\ NoFragment \notin Fragments
  /\ MaxEpoch \in Nat /\ MaxWatermark \in Nat
  /\ StagedCap \in Nat \ {0} /\ ChunkSize \in Nat \ {0}
  /\ ChanCap \in Nat \ {0}

VARIABLES
  injected,     \* barriers sent to this actor by its barrier manager
  plan,         \* plan[e]: upstreams the meta node wants after barrier e - 1
  metaFragment, \* the upstream fragment as the meta node knows it
  (* the upstream actors *)
  chan,         \* per upstream: the exchange channel
  upNext,       \* per upstream: the barrier it sends next, 0 before it exists
  wmSent,       \* per upstream: its last watermark
  connected,    \* upstreams an input was created for
  (* DispatchBarrierBuffer *)
  fetched,      \* barriers taken from barrier_rx
  creating,     \* recv_state: the barrier whose inputs are being created, or 0
  buffer,       \* barriers with the inputs created for them
  bufFragment,  \* curr_upstream_fragment_id
  (* DynamicReceivers *)
  active, blocked,
  aligning,     \* the barrier being aligned to, or 0
  first,        \* per upstream: its watermark in the heap, or 0
  staged,       \* per upstream: its further watermarks
  (* BufferChunks and the executor *)
  builder,      \* rows in the chunk builder
  item,         \* a message that came out of the upstreams and is not handled
  fragment,     \* upstream_fragment_id
  emitted,      \* barriers handed to the next operator
  inEpoch,      \* history: every row was handed on in the epoch it was sent in
  wmRead,       \* history, per upstream: last watermark since it was flushed
  status        \* "running", "stopped", or "failed" on misaligned barriers

metaVars == <<injected, plan, metaFragment>>
upVars   == <<upNext, wmSent>>
bufVars  == <<fetched, creating, buffer, bufFragment>>
execVars == <<builder, item, inEpoch>>
vars == <<metaVars, upVars, bufVars, execVars, chan, connected, active, blocked,
          aligning, first, staged, fragment, emitted, wmRead, status>>

NoItem == [kind |-> "none"]
Row(u) == [kind |-> "row", epoch |-> upNext[u]]
Watermark(v) == [kind |-> "watermark", val |-> v]
BarrierOf(e) == [kind |-> "barrier", epoch |-> e]

NoUpdate == [from |-> NoFragment, to |-> NoFragment, add |-> {}, remove |-> {}]

Upstreams == active \cup blocked

Init ==
  /\ injected = <<>>
  /\ plan = <<InitialActors>>
  /\ metaFragment = FirstFragment
  /\ chan = [u \in Actors |-> <<>>]
  /\ upNext = [u \in Actors |-> IF u \in InitialActors THEN 1 ELSE 0]
  /\ wmSent = [u \in Actors |-> 0]
  /\ connected = InitialActors
  /\ fetched = 0 /\ creating = 0 /\ buffer = <<>>
  /\ bufFragment = FirstFragment
  /\ active = InitialActors /\ blocked = {} /\ aligning = 0
  /\ first = [u \in Actors |-> 0]
  /\ staged = [u \in Actors |-> <<>>]
  /\ builder = <<>> /\ item = NoItem
  /\ fragment = FirstFragment
  /\ emitted = 0
  /\ inEpoch = TRUE
  /\ wmRead = [u \in Actors |-> 0]
  /\ status = "running"

------------------------------------------------------------------------------
(* The meta node and the upstream actors. *)

\* Upstreams wanted after barrier e.
PlanAfter(e) == plan[e + 1]

\* A barrier is injected, with an update of this merge or without; it may also
\* stop this actor, or change dispatchers of the upstreams (disp), whose
\* watermarks so far then say nothing of the rows they send next.
InjectUpdate(upd, wanted) ==
  /\ status = "running"
  /\ Len(injected) < MaxEpoch
  /\ Len(injected) > 0 => ~injected[Len(injected)].stop
  /\ \E stop \in BOOLEAN, disp \in {{}, Last(plan)} :
       /\ stop => upd = NoUpdate /\ disp = {}
       /\ MaxWatermark = 0 => disp = {}    \* disp is about watermarks only
       /\ injected' = Append(injected, [upd |-> upd, stop |-> stop, disp |-> disp])
  /\ plan' = Append(plan, wanted)
  /\ metaFragment' = IF upd.to = NoFragment THEN metaFragment ELSE upd.to
  /\ upNext' = [u \in Actors |->
                  IF u \in upd.add THEN Len(injected) + 1 ELSE upNext[u]]
  /\ UNCHANGED <<bufVars, execVars, wmSent, chan, connected, active, blocked,
                 aligning, first, staged, fragment, emitted, wmRead, status>>

\* A new upstream actor never had this actor as its downstream before.
Fresh == {u \in Actors : upNext[u] = 0}

InjectPlain == InjectUpdate(NoUpdate, Last(plan))

\* The upstream fragment is scaled.
InjectScale ==
  \E A \in SUBSET Fresh, R \in SUBSET Last(plan) :
    /\ A \cup R # {}
    /\ InjectUpdate([from |-> metaFragment, to |-> NoFragment,
                     add |-> A, remove |-> R], (Last(plan) \cup A) \ R)

\* It is replaced by another one, which may have no actor for this merge.
InjectReplace ==
  \E A \in SUBSET Fresh, f \in Fragments \ {metaFragment} :
    InjectUpdate([from |-> metaFragment, to |-> f, add |-> A, remove |-> {}], A)

\* An upstream has data to send in the epoch that ends with its next barrier.
CanSendData(u) ==
  /\ u \in connected
  /\ upNext[u] > 0 /\ upNext[u] <= Len(plan)
  /\ u \in PlanAfter(upNext[u] - 1)
  /\ Len(chan[u]) < ChanCap

UpRow(u) ==
  /\ CanSendData(u)
  /\ chan' = [chan EXCEPT ![u] = Append(@, Row(u))]
  /\ UNCHANGED <<metaVars, upVars, bufVars, execVars, connected, active,
                 blocked, aligning, first, staged, fragment, emitted, wmRead,
                 status>>

UpWatermark(u) ==
  /\ CanSendData(u)
  /\ wmSent[u] < MaxWatermark
  /\ \E v \in wmSent[u] + 1 .. MaxWatermark :
       /\ wmSent' = [wmSent EXCEPT ![u] = v]
       /\ chan' = [chan EXCEPT ![u] = Append(@, Watermark(v))]
  /\ UNCHANGED <<metaVars, upNext, bufVars, execVars, connected, active,
                 blocked, aligning, first, staged, fragment, emitted, wmRead,
                 status>>

\* The barrier changes which rows an upstream sends here: its watermarks start
\* again from below.
Rescales(b) == b.upd # NoUpdate \/ b.disp # {}

\* An upstream forwards the next barrier, from the one that adds it to the
\* one that removes it.
UpBarrier(u) ==
  /\ u \in connected
  /\ upNext[u] \in 1 .. Len(injected)
  /\ u \in PlanAfter(upNext[u] - 1) \cup injected[upNext[u]].upd.add
  /\ Len(chan[u]) < ChanCap
  /\ chan' = [chan EXCEPT ![u] = Append(@, BarrierOf(upNext[u]))]
  /\ upNext' = [upNext EXCEPT ![u] = @ + 1]
  /\ wmSent' = IF Rescales(injected[upNext[u]])
               THEN [wmSent EXCEPT ![u] = 0] ELSE wmSent
  /\ UNCHANGED <<metaVars, bufVars, execVars, connected, active,
                 blocked, aligning, first, staged, fragment, emitted, wmRead,
                 status>>

------------------------------------------------------------------------------
(* DispatchBarrierBuffer. *)

\* as_update_merge: the update of this actor for upstream fragment f.
AsUpdateMerge(b, f) ==
  IF b.upd # NoUpdate /\ b.upd.from = f THEN b.upd ELSE NoUpdate

\* (Mistake) The fragment is only followed when inputs are added.
PreApplyBarrierAddsOnly(b) ==
  LET upd == AsUpdateMerge(b, bufFragment)
  IN  [fragment |-> IF upd.to = NoFragment \/ upd.add = {} THEN bufFragment
                    ELSE upd.to,
       inputs |-> upd.add]

\* pre_apply_barrier: the fragment followed from here on, and the inputs to
\* create.
PreApplyBarrier(b) ==
  LET upd == AsUpdateMerge(b, bufFragment)
  IN  [fragment |-> IF upd.to = NoFragment THEN bufFragment ELSE upd.to,
       inputs |-> upd.add]

\* try_fetch_barrier_rx while receiving.
FetchBarrier ==
  /\ status = "running"
  /\ creating = 0
  /\ fetched < Len(injected)
  /\ LET pre == PreApplyBarrier(injected[fetched + 1])
     IN /\ bufFragment' = pre.fragment
        /\ connected' = connected \cup pre.inputs
        /\ IF pre.inputs # {}
           THEN creating' = fetched + 1 /\ buffer' = buffer
           ELSE /\ creating' = 0
                /\ buffer' = Append(buffer, [epoch |-> fetched + 1, inputs |-> {}])
  /\ fetched' = fetched + 1
  /\ UNCHANGED <<metaVars, upVars, execVars, chan, active, blocked, aligning,
                 first, staged, fragment, emitted, wmRead, status>>

\* The new inputs delivered their first message, which must be the barrier.
CreateInputs ==
  /\ status = "running"
  /\ creating # 0
  /\ LET new == injected[creating].upd.add
     IN /\ \A u \in new : chan[u] # <<>>
        /\ chan' = [u \in Actors |-> IF u \in new THEN Tail(chan[u]) ELSE chan[u]]
        /\ status' = IF \A u \in new : Head(chan[u]) = BarrierOf(creating)
                     THEN status ELSE "failed"
        /\ buffer' = Append(buffer, [epoch |-> creating, inputs |-> new])
  /\ creating' = 0
  /\ UNCHANGED <<metaVars, upVars, fetched, bufFragment, execVars, connected,
                 active, blocked, aligning, first, staged, fragment, emitted,
                 wmRead>>

------------------------------------------------------------------------------
(* BufferedWatermarks. *)

\* check_watermark_heap is running: val is the watermark popped last, or 0.
HeapCheck(v) == [kind |-> "heap", val |-> v]

InHeap == {u \in Upstreams : first[u] # 0}
SmallestInHeap == CHOOSE u \in InHeap : \A w \in InHeap : first[u] <= first[w]

\* (Mistake) The heap may be one short.
HeapMayPopEarly ==
  /\ InHeap # {}
  /\ \/ Cardinality(InHeap) + 1 >= Cardinality(Upstreams)
     \/ item.val # 0 /\ item.val = first[SmallestInHeap]

\* The loop's condition: every upstream is in the heap, or another one has
\* the watermark just popped.
HeapMayPop ==
  /\ InHeap # {}
  /\ \/ InHeap = Upstreams
     \/ item.val # 0 /\ item.val = first[SmallestInHeap]

\* push_with_cap: the oldest staged watermark makes room.
PushWithCap(s, v) ==
  Append(IF Len(s) >= StagedCap THEN Tail(s) ELSE s, v)

\* handle_watermark: behind the one in the heap, or into the heap, which is
\* then checked.
HandleWatermark(u, v) ==
  IF first[u] # 0
  THEN /\ staged' = [staged EXCEPT ![u] = PushWithCap(@, v)]
       /\ UNCHANGED <<first, item>>
  ELSE /\ first' = [first EXCEPT ![u] = v]
       /\ item' = HeapCheck(0)
       /\ staged' = staged

------------------------------------------------------------------------------
(* DynamicReceivers under BufferChunks. *)

\* The rows go to the next operator, in the epoch that is open there.
HandOn(rows) ==
  inEpoch' = (inEpoch /\ \A i \in DOMAIN rows : rows[i].epoch = emitted + 1)

\* (Mistake) The message overtakes the chunk builder.
ReturnAhead(m) ==
  /\ item' = m
  /\ UNCHANGED <<builder, inEpoch>>

\* The inner stream returned message m: rows in the chunk builder go first.
Return(m) ==
  /\ item' = m
  /\ builder' = <<>>
  /\ HandOn(builder)

Polls(u) ==
  /\ status = "running"
  /\ item = NoItem
  /\ u \in active
  /\ chan[u] # <<>>

PollRow(u) ==
  /\ Polls(u) /\ Head(chan[u]).kind = "row"
  /\ chan' = [chan EXCEPT ![u] = Tail(@)]
  /\ LET rows == Append(builder, Head(chan[u]))
     IN IF Len(rows) >= ChunkSize
        THEN /\ builder' = <<>>
             /\ HandOn(rows)
        ELSE builder' = rows /\ inEpoch' = inEpoch
  /\ UNCHANGED <<metaVars, upVars, bufVars, connected, item, active, blocked,
                 aligning, first, staged, fragment, emitted, wmRead, status>>

PollWatermark(u) ==
  /\ Polls(u) /\ Head(chan[u]).kind = "watermark"
  /\ chan' = [chan EXCEPT ![u] = Tail(@)]
  /\ HandleWatermark(u, Head(chan[u]).val)
  /\ wmRead' = [wmRead EXCEPT ![u] = Head(chan[u]).val]
  /\ UNCHANGED <<metaVars, upVars, bufVars, builder, inEpoch, connected, active,
                 blocked, aligning, fragment, emitted, status>>

\* The loop of check_watermark_heap, one turn at a time; what it reads does not
\* change in between.
HeapPop ==
  /\ status = "running"
  /\ item.kind = "heap" /\ HeapMayPop
  /\ LET u == SmallestInHeap
     IN /\ item' = HeapCheck(first[u])
        /\ first' = [first EXCEPT ![u] =
                       IF staged[u] = <<>> THEN 0 ELSE Head(staged[u])]
        /\ staged' = [staged EXCEPT ![u] = IF @ = <<>> THEN @ ELSE Tail(@)]
  /\ UNCHANGED <<metaVars, upVars, bufVars, builder, inEpoch, chan, connected,
                 active, blocked, aligning, fragment, emitted, wmRead, status>>

\* The watermark popped last is returned, if there is one.
HeapChecked ==
  /\ status = "running"
  /\ item.kind = "heap" /\ ~HeapMayPop
  /\ IF item.val = 0 THEN item' = NoItem /\ UNCHANGED <<builder, inEpoch>>
     ELSE Return(Watermark(item.val))
  /\ UNCHANGED <<metaVars, upVars, bufVars, chan, connected, active, blocked,
                 aligning, first, staged, fragment, emitted, wmRead, status>>

\* (Mistake) The upstream that delivered the barrier stays active.
PollBarrierUnblocked(u) ==
  /\ Polls(u) /\ Head(chan[u]).kind = "barrier"
  /\ chan' = [chan EXCEPT ![u] = Tail(@)]
  /\ LET e == Head(chan[u]).epoch
     IN /\ status' = IF aligning \in {0, e} THEN status ELSE "failed"
        /\ IF blocked \cup {u} = active
           THEN blocked' = {} /\ aligning' = 0 /\ Return(BarrierOf(e))
           ELSE blocked' = blocked \cup {u} /\ aligning' = e /\ UNCHANGED execVars
  /\ UNCHANGED <<metaVars, upVars, bufVars, connected, active, first, staged,
                 fragment, emitted, wmRead>>

\* A barrier blocks its upstream; the last one completes the alignment and
\* frees them all.
PollBarrier(u) ==
  /\ Polls(u) /\ Head(chan[u]).kind = "barrier"
  /\ chan' = [chan EXCEPT ![u] = Tail(@)]
  /\ LET e == Head(chan[u]).epoch
     IN IF aligning # 0 /\ aligning # e
        THEN /\ status' = "failed"
             /\ UNCHANGED <<execVars, active, blocked, aligning>>
        ELSE /\ status' = status
             /\ IF active = {u}
                THEN /\ active' = blocked \cup {u}
                     /\ blocked' = {}
                     /\ aligning' = 0
                     /\ Return(BarrierOf(e))
                ELSE /\ active' = active \ {u}
                     /\ blocked' = blocked \cup {u}
                     /\ aligning' = e
                     /\ UNCHANGED execVars
  /\ UNCHANGED <<metaVars, upVars, bufVars, connected, first, staged, fragment,
                 emitted, wmRead>>

\* No upstream has anything ready: the builder's rows are handed on.
PollPending ==
  /\ status = "running"
  /\ item = NoItem
  /\ builder # <<>>
  /\ builder' = <<>>
  /\ HandOn(builder)
  /\ UNCHANGED <<metaVars, upVars, bufVars, item, chan, connected, active,
                 blocked, aligning, first, staged, fragment, emitted, wmRead,
                 status>>

------------------------------------------------------------------------------
(* The executor. *)

EmitWatermark ==
  /\ status = "running"
  /\ item.kind = "watermark"
  /\ item' = NoItem
  /\ UNCHANGED <<metaVars, upVars, bufVars, builder, inEpoch, chan, connected,
                 active, blocked, aligning, first, staged, fragment, emitted, wmRead,
                 status>>

\* (Mistake) Only an update of the dispatchers flushes the watermarks.
FlushesOnDispatchUpdate(b, upd) == b.disp \cap Upstreams # {}

\* flush_buffered_watermarks: after an update of the upstream set or of an
\* upstream's dispatchers, the watermarks read so far are stale.
FlushesWatermarks(b, upd) ==
  \/ upd # NoUpdate
  \/ b.disp \cap Upstreams # {}

\* (Mistake) Without upstreams the executor waits for an aligned barrier.
BarrierDueAligned == item.kind = "barrier"

\* await_next_message: the barrier aligned by the upstreams or, without any,
\* the barrier manager's own.
BarrierDue == item.kind = "barrier" \/ (item = NoItem /\ Upstreams = {})

\* The barrier takes its mutation and new inputs from the buffer, where
\* pop_barrier_with_inputs waits for them.
EmitBarrier ==
  /\ status = "running"
  /\ BarrierDue
  /\ buffer # <<>>
  /\ LET b     == Head(buffer)
         upd   == AsUpdateMerge(injected[b.epoch], fragment)
         gone  == IF upd.to # NoFragment THEN Upstreams ELSE upd.remove
         flush == FlushesWatermarks(injected[b.epoch], upd)
     IN /\ status' = CASE item # NoItem /\ item.epoch # b.epoch -> "failed"
                       [] injected[b.epoch].stop -> "stopped"
                       [] OTHER -> status
        /\ active' = IF upd = NoUpdate THEN active
                     ELSE (active \cup b.inputs) \ gone
        /\ fragment' = IF upd.to = NoFragment THEN fragment ELSE upd.to
        /\ first' = IF flush THEN [u \in Actors |-> 0] ELSE first
        /\ staged' = IF flush THEN [u \in Actors |-> <<>>] ELSE staged
        /\ wmRead' = IF Rescales(injected[b.epoch])
                     THEN [u \in Actors |-> 0] ELSE wmRead
        /\ emitted' = b.epoch
  /\ buffer' = Tail(buffer)
  /\ item' = NoItem
  /\ UNCHANGED <<metaVars, upVars, fetched, creating, bufFragment, builder,
                 inEpoch, chan, connected, blocked, aligning>>

Next ==
  \/ InjectPlain \/ InjectScale \/ InjectReplace
  \/ \E u \in Actors :
       \/ UpRow(u) \/ UpWatermark(u) \/ UpBarrier(u)
       \/ PollRow(u) \/ PollWatermark(u) \/ PollBarrier(u)
  \/ FetchBarrier \/ CreateInputs
  \/ HeapPop \/ HeapChecked
  \/ PollPending \/ EmitWatermark \/ EmitBarrier

Spec == Init /\ [][Next]_vars

\* The executor is polled again whenever it can go on.  Its select prefers the
\* upstreams to the barrier manager's channel, but an upstream has finitely many
\* messages before the barrier that blocks it, so neither the others nor that
\* channel wait for ever.  For the same reason an upstream forwards its next
\* barrier although the channel is full again and again: strong fairness.
Fairness ==
  /\ WF_vars(FetchBarrier) /\ WF_vars(CreateInputs)
  /\ WF_vars(HeapPop) /\ WF_vars(HeapChecked)
  /\ WF_vars(PollPending) /\ WF_vars(EmitWatermark) /\ WF_vars(EmitBarrier)
  /\ \A u \in Actors :
       /\ SF_vars(UpBarrier(u))
       /\ WF_vars(PollRow(u) \/ PollWatermark(u) \/ PollBarrier(u))

FairSpec == Spec /\ Fairness

------------------------------------------------------------------------------
(* Properties. *)

\* Type correctness of the executor's own state.
MTypeOK ==
  /\ active \subseteq Actors /\ blocked \subseteq Actors
  /\ active \cap blocked = {}
  /\ aligning \in 0 .. MaxEpoch
  /\ first \in [Actors -> 0 .. MaxWatermark]
  /\ \A u \in Actors : Len(staged[u]) <= StagedCap
  /\ fragment \in Fragments /\ bufFragment \in Fragments
  /\ emitted \in 0 .. MaxEpoch /\ fetched \in 0 .. MaxEpoch
  /\ creating \in 0 .. MaxEpoch
  /\ status \in {"running", "stopped", "failed"}

\* The epochs of the executor and of the barrier manager never disagree: the
\* alignment error and the assertion of assert_equal_dispatcher_barrier are
\* never reached, however far the barrier manager's copies run ahead.
NeverMisaligned == status # "failed"

\* A barrier is a consistent cut: rows come out in the epoch their upstream
\* sent them in, before the barrier that ends it and after the one before, and
\* no row of a closed epoch is left behind in the executor or in the channel of
\* an upstream it reads.
ConsistentCut ==
  /\ inEpoch
  /\ \A i \in DOMAIN builder : builder[i].epoch > emitted
  /\ \A u \in Upstreams : \A i \in DOMAIN chan[u] :
       chan[u][i].kind = "row" => chan[u][i].epoch > emitted

\* The upstream set follows the updates of the barriers handed on, no matter
\* how many of them were pre-applied.
UpstreamsFollowUpdates ==
  status = "running" => Upstreams = PlanAfter(emitted)

\* A watermark is handed on only when every upstream promised as much since
\* the heap was flushed.
WatermarkPromised ==
  item.kind = "watermark" => \A u \in Upstreams : wmRead[u] >= item.val

\* No watermark is held back: once checked, the heap never holds one of every
\* upstream, also when the upstream it was waiting for is removed.  The state is
\* well typed.
NoWatermarkHeldBack ==
  /\ MTypeOK
  /\ item.kind # "heap" /\ Upstreams # {} => \E u \in Upstreams : first[u] = 0

\* Every barrier injected to the actor is handed on.
BarriersComeOut ==
  \A e \in 1 .. MaxEpoch : (Len(injected) >= e) ~> (emitted >= e)

=============================================================================
