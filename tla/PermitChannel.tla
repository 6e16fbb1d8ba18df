---------------------------- MODULE PermitChannel ----------------------------
(***************************************************************************)
(* One exchange channel between an upstream and a downstream actor:        *)
(* stream/src/executor/exchange/permit.rs, its use by LocalInput and       *)
(* RemoteInput in stream/src/executor/exchange/input.rs, and the service   *)
(* that forwards it to another worker,                                     *)
(* compute/src/rpc/service/stream_exchange_service.rs.                     *)
(*                                                                         *)
(* A send waits until the semaphore of its kind has enough permits.  A     *)
(* local receiver puts the permits of a message back as it takes it.  A    *)
(* remote one sends them back over the request stream of the call, record  *)
(* permits only once InputBatched of them have accumulated.  The channel   *)
(* is created from the worker's own configuration; the batch size of the   *)
(* input comes from the configuration of the downstream job, which may     *)
(* override it.                                                            *)
(***************************************************************************)
EXTENDS Integers, Sequences

CONSTANTS
  InitialPermits,       \* exchange_initial_permits of the upstream worker
  ChannelBatched,       \* exchange_batched_permits of the upstream worker
  InputBatched,         \* exchange_batched_permits of the downstream actor
  ConcurrentBarriers,   \* exchange_concurrent_barriers of the upstream worker
  Cards,                \* cardinalities a chunk may have
  Placements,           \* which of local (FALSE) and remote (TRUE) happen
  MaxSend               \* bound: messages sent

ASSUME ChannelAssumption ==
  /\ InitialPermits \in Nat /\ ChannelBatched \in Nat
  /\ ChannelBatched < InitialPermits
  /\ InputBatched \in Nat \ {0}
  /\ ConcurrentBarriers \in Nat \ {0}
  /\ Cards \subseteq Nat
  /\ Placements \subseteq BOOLEAN
  /\ MaxSend \in Nat

\* The two semaphores of Permits.
PermitKinds == {"record", "barrier"}

CapacityOf(k) == IF k = "record" THEN InitialPermits ELSE ConcurrentBarriers

\* (Mistake) The batch is not left out.
MaxChunkPermitsWhole == InitialPermits

\* max_chunk_permits: the batch the receiver may hold back is left out.
MaxChunkPermits == InitialPermits - ChannelBatched

Clamp(n) ==
  IF n < 1 THEN 1 ELSE IF n > MaxChunkPermits THEN MaxChunkPermits ELSE n

\* What Sender::send asks of the semaphores, for a chunk of c rows, a batch
\* of barriers, and a watermark, which needs none.
ChunkPermits(c) == [kind |-> "record", permits |-> Clamp(c)]
BarrierPermits == [kind |-> "barrier", permits |-> 1]
NoPermits == [kind |-> "none", permits |-> 0]

Wanted == {ChunkPermits(c) : c \in Cards} \cup {BarrierPermits, NoPermits}

\* No send is waiting.
NoSend == [kind |-> "idle", permits |-> 0]

VARIABLES
  remote,       \* the two actors are on different workers
  sender,       \* "held" by the upstream actor, or "dropped"
  pending,      \* what a call of send waits for, or NoSend
  available,    \* per kind: permits in the semaphore
  queue,        \* the unbounded mpsc channel
  rx,           \* the Receiver: "open" or "dropped", which closes both
                \* semaphores
  conn,         \* the call of get_stream: "up" or "broken"
  wire,         \* responses on their way to the input
  acc,          \* batched_permits_accumulated
  back,         \* AddPermits on their way to the service
  input,        \* "polling", "error" after it failed, "dropped" by its actor
  sent,         \* messages sent
  received,     \* identity of the last message the downstream actor got
  total         \* history, per kind: permits acquired, and of these passed
                \* on by the channel, read by the input, sent back, put back

vars == <<remote, sender, pending, available, queue, rx, conn, wire, acc, back,
          input, sent, received, total>>

chanVars == <<pending, available, queue, wire, acc, back, sent, received, total>>

Stages == {"acquired", "served", "read", "sentBack", "putBack"}

Zero == [k \in PermitKinds |-> 0]

\* The permits of message or AddPermits m in the semaphore of kind k.
Share(m, k) == IF m.kind = k THEN m.permits ELSE 0

\* total after m passed the stages S.
Passed(S, m) ==
  [s \in Stages |-> [k \in PermitKinds |->
     IF s \in S THEN total[s][k] + Share(m, k) ELSE total[s][k]]]

Init ==
  /\ remote \in Placements
  /\ sender = "held"
  /\ pending = NoSend
  /\ available = [k \in PermitKinds |-> CapacityOf(k)]
  /\ queue = <<>>
  /\ rx = "open"
  /\ conn = "up"
  /\ wire = <<>>
  /\ acc = 0
  /\ back = <<>>
  /\ input = "polling"
  /\ sent = 0
  /\ received = 0
  /\ total = [s \in Stages |-> Zero]

------------------------------------------------------------------------------
(* The upstream actor. *)

\* Sender::send is called and computes the permits it needs.
Send ==
  /\ sender = "held"
  /\ pending = NoSend
  /\ sent < MaxSend
  /\ pending' \in Wanted
  /\ UNCHANGED <<remote, sender, available, queue, rx, conn, wire, acc, back,
                 input, sent, received, total>>

CanAcquire(m) == \A k \in PermitKinds : Share(m, k) <= available[k]

\* The permits are acquired (and forgotten) and the message is queued.
SendSucceeds ==
  /\ pending # NoSend
  /\ rx = "open"
  /\ CanAcquire(pending)
  /\ available' = [k \in PermitKinds |-> available[k] - Share(pending, k)]
  /\ total' = Passed({"acquired"}, pending)
  /\ queue' = Append(queue, [id |-> sent + 1, kind |-> pending.kind,
                             permits |-> pending.permits,
                             upto |-> total'["acquired"]])
  /\ sent' = sent + 1
  /\ pending' = NoSend
  /\ UNCHANGED <<remote, sender, rx, conn, wire, acc, back, input, received>>

\* The semaphores are closed, or the receiving half is: the output reports
\* the error and its dispatcher is dropped with the sender.
SendFails ==
  /\ pending # NoSend
  /\ rx = "dropped"
  /\ pending' = NoSend
  /\ sender' = "dropped"
  /\ UNCHANGED <<remote, available, queue, rx, conn, wire, acc, back, input,
                 sent, received, total>>

\* The upstream actor ends, or its dispatcher is removed.
DropSender ==
  /\ sender = "held"
  /\ sender' = "dropped"
  /\ pending' = NoSend
  /\ UNCHANGED <<remote, available, queue, rx, conn, wire, acc, back, input,
                 sent, received, total>>

------------------------------------------------------------------------------
(* A local input. *)

\* Receiver::recv: the permits of the message are added back at once.
LocalRecv ==
  /\ ~remote
  /\ input = "polling" /\ rx = "open"
  /\ queue # <<>>
  /\ LET m == Head(queue) IN
       /\ available' = [k \in PermitKinds |-> available[k] + Share(m, k)]
       /\ total' = Passed(Stages \ {"acquired"}, m)
       /\ received' = m.id
  /\ queue' = Tail(queue)
  /\ UNCHANGED <<remote, sender, pending, rx, conn, wire, acc, back, input,
                 sent>>

\* (Mistake) The input polls an ended channel again.
LocalPollsOn ==
  /\ ~remote
  /\ input = "polling" /\ rx = "open"
  /\ queue = <<>> /\ sender = "dropped"
  /\ UNCHANGED vars

\* recv returns None: the input ends with ExchangeChannelClosed.
LocalEnded ==
  /\ ~remote
  /\ input = "polling" /\ rx = "open"
  /\ queue = <<>> /\ sender = "dropped"
  /\ input' = "error"
  /\ rx' = "dropped"
  /\ UNCHANGED <<remote, sender, conn, chanVars>>

------------------------------------------------------------------------------
(* The exchange service of the upstream worker: get_stream_impl. *)

\* recv_raw: the message leaves with its permits, which are not added back.
ServeMessage ==
  /\ remote
  /\ rx = "open" /\ conn = "up"
  /\ queue # <<>>
  /\ wire' = Append(wire, Head(queue))
  /\ queue' = Tail(queue)
  /\ total' = Passed({"served"}, Head(queue))
  /\ UNCHANGED <<remote, sender, pending, available, rx, conn, acc, back, input,
                 sent, received>>

ServeAddPermits ==
  /\ remote
  /\ conn = "up"
  /\ back # <<>>
  /\ LET p == Head(back) IN
       /\ available' = [k \in PermitKinds |-> available[k] + Share(p, k)]
       /\ total' = Passed({"putBack"}, p)
  /\ back' = Tail(back)
  /\ UNCHANGED <<remote, sender, pending, queue, rx, conn, wire, acc, input,
                 sent, received>>

\* recv_raw returns None: the receiver is dropped.  The selected stream goes
\* on with the requests, so the response stream stays open.
ServeEnded ==
  /\ remote
  /\ rx = "open" /\ conn = "up"
  /\ queue = <<>> /\ sender = "dropped"
  /\ rx' = "dropped"
  /\ UNCHANGED <<remote, sender, conn, input, chanVars>>

\* The requests fail, or the response stream is cancelled.
ServeCancelled ==
  /\ remote
  /\ rx = "open" /\ conn = "broken"
  /\ rx' = "dropped"
  /\ UNCHANGED <<remote, sender, conn, input, chanVars>>

------------------------------------------------------------------------------
(* A remote input. *)

\* The AddPermits that answers m: barrier permits at once, record permits
\* when enough have accumulated.
AddBack(m) ==
  CASE m.kind = "record" /\ acc + m.permits >= InputBatched ->
         [kind |-> "record", permits |-> acc + m.permits]
    [] m.kind = "barrier" -> [kind |-> "barrier", permits |-> m.permits]
    [] OTHER -> NoPermits

\* (Mistake) What was sent back stays in the accumulator.
AccAfterKept(m) == IF m.kind = "record" THEN acc + m.permits ELSE acc

AccAfter(m) ==
  IF m.kind = "record"
  THEN IF acc + m.permits >= InputBatched THEN 0 ELSE acc + m.permits
  ELSE acc

RemoteRecv ==
  /\ remote
  /\ input = "polling"
  /\ wire # <<>>
  /\ LET m == Head(wire)
         a == AddBack(m)
     IN /\ acc' = AccAfter(m)
        /\ total' = [Passed({"read"}, m) EXCEPT !["sentBack"] =
                       [k \in PermitKinds |-> @[k] + Share(a, k)]]
        /\ back' = IF conn = "up" /\ a # NoPermits
                   THEN Append(back, [kind |-> a.kind, permits |-> a.permits,
                                      upto |-> total'["sentBack"]])
                   ELSE back
        /\ received' = m.id
  /\ wire' = Tail(wire)
  /\ UNCHANGED <<remote, sender, pending, available, queue, rx, conn, input,
                 sent>>

\* (Mistake) The failure to send permits back is ignored and the message
\* with it.
RemotePermitsIgnored ==
  /\ remote
  /\ input = "polling" /\ conn = "broken"
  /\ wire # <<>>
  /\ AddBack(Head(wire)) # NoPermits
  /\ wire' = Tail(wire)
  /\ UNCHANGED <<remote, sender, rx, conn, input, pending, available,
                 queue, acc, back, sent, received, total>>

\* On a broken call the permits cannot be sent back: the message just taken
\* is not handed on.
RemotePermitsRefused ==
  /\ remote
  /\ input = "polling" /\ conn = "broken"
  /\ wire # <<>>
  /\ AddBack(Head(wire)) # NoPermits
  /\ input' = "error"
  /\ UNCHANGED <<remote, sender, rx, conn, chanVars>>

\* The response stream fails.
RemoteError ==
  /\ remote
  /\ input = "polling" /\ conn = "broken"
  /\ wire = <<>>
  /\ input' = "error"
  /\ UNCHANGED <<remote, sender, rx, conn, chanVars>>

------------------------------------------------------------------------------
(* Failures. *)

\* (Mistake) A dropped receiver leaves the semaphores open.
DropInputSilently ==
  /\ input = "polling"
  /\ input' = "dropped"
  /\ UNCHANGED <<remote, sender, rx, conn, chanVars>>

\* The downstream actor ends or removes the input.
DropInput ==
  /\ input = "polling"
  /\ input' = "dropped"
  /\ rx' = IF remote THEN rx ELSE "dropped"
  /\ conn' = IF remote THEN "broken" ELSE conn
  /\ UNCHANGED <<remote, sender, chanVars>>

\* The connection is lost, with some of the responses under way.
Disconnect ==
  /\ remote
  /\ conn = "up"
  /\ conn' = "broken"
  /\ \E n \in 0 .. Len(wire) : wire' = SubSeq(wire, 1, n)
  /\ back' = <<>>
  /\ UNCHANGED <<remote, sender, pending, available, queue, rx, acc, input,
                 sent, received, total>>

Next ==
  \/ Send \/ SendSucceeds \/ SendFails \/ DropSender
  \/ LocalRecv \/ LocalEnded
  \/ ServeMessage \/ ServeAddPermits \/ ServeEnded \/ ServeCancelled
  \/ RemoteRecv \/ RemotePermitsRefused \/ RemoteError
  \/ DropInput \/ Disconnect

Spec == Init /\ [][Next]_vars

\* Every future that can make progress is polled again, and the downstream
\* actor keeps taking messages.  Nothing makes an actor send, end or fail.
Fairness ==
  /\ WF_vars(SendSucceeds) /\ WF_vars(SendFails)
  /\ WF_vars(LocalRecv) /\ WF_vars(LocalEnded)
  /\ WF_vars(ServeMessage) /\ WF_vars(ServeAddPermits)
  /\ WF_vars(ServeEnded) /\ WF_vars(ServeCancelled)
  /\ WF_vars(RemoteRecv \/ RemotePermitsRefused) /\ WF_vars(RemoteError)

FairSpec == Spec /\ Fairness

------------------------------------------------------------------------------
(* Properties. *)

Messages == [id : Nat, kind : PermitKinds \cup {"none"}, permits : Nat,
             upto : [PermitKinds -> Nat]]
Returns == [kind : PermitKinds, permits : Nat, upto : [PermitKinds -> Nat]]

\* Type correctness.
PCTypeOK ==
  /\ remote \in BOOLEAN
  /\ sender \in {"held", "dropped"}
  /\ pending \in Wanted \cup {NoSend}
  /\ available \in [PermitKinds -> Nat]
  /\ queue \in Seq(Messages)
  /\ rx \in {"open", "dropped"}
  /\ conn \in {"up", "broken"}
  /\ wire \in Seq(Messages)
  /\ acc \in Nat
  /\ back \in Seq(Returns)
  /\ input \in {"polling", "error", "dropped"}
  /\ sent \in Nat
  /\ received \in Nat
  /\ total \in [Stages -> [PermitKinds -> Nat]]

\* The permits of kind k of the entries of q lead from the total lo to the
\* total hi.
Chain(q, lo, hi, k) ==
  /\ q = <<>> => lo = hi
  /\ q # <<>> => /\ q[1].upto[k] = lo + Share(q[1], k)
                 /\ q[Len(q)].upto[k] = hi
  /\ \A i \in 1 .. Len(q) - 1 :
       q[i + 1].upto[k] = q[i].upto[k] + Share(q[i + 1], k)

\* No permit is lost or made: each is in its semaphore, with a message in the
\* channel or on the wire, held back by the input (less than a batch, and
\* only record permits), or on its way back.
PermitsAccounted ==
  /\ acc < InputBatched
  /\ \A k \in PermitKinds :
       /\ available[k] =
            CapacityOf(k) - total["acquired"][k] + total["putBack"][k]
       /\ total["read"][k] =
            total["sentBack"][k] + (IF k = "record" THEN acc ELSE 0)
       /\ conn = "up" =>
            /\ Chain(queue, total["served"][k], total["acquired"][k], k)
            /\ Chain(wire, total["read"][k], total["served"][k], k)
            /\ Chain(back, total["putBack"][k], total["sentBack"][k], k)

\* Between local actors nothing is on a wire or held back.
LocalIdle == ~remote => wire = <<>> /\ back = <<>> /\ acc = 0

\* The inductive invariant: no permit is lost or made, whichever of the
\* semaphore, the messages, the accumulator and the way back holds it.
ChannelInv == PCTypeOK /\ PermitsAccounted /\ LocalIdle

\* A send waits although every message was read and every AddPermits applied:
\* nothing under way brings it more permits.
WaitsInVain ==
  /\ rx = "open" /\ conn = "up" /\ pending # NoSend
  /\ queue = <<>> /\ wire = <<>> /\ back = <<>>
  /\ ~CanAcquire(pending)

\* Sender::max_chunk_permits leaves out the batch "to avoid deadlock with
\* batching": no send waits in vain, although the input may still hold back
\* part of a batch.
NoPermitDeadlock == ~WaitsInVain

\* Whatever the two batch sizes are, a send waits in vain only for record
\* permits that a remote input holds back beyond the batch the channel left
\* out: never for a barrier, never in a local channel, never for permits lost on
\* the way.
StarvedOnlyByBatch ==
  WaitsInVain => /\ remote
                 /\ pending.kind = "record"
                 /\ ChannelBatched < acc /\ acc < InputBatched

\* A send that waits for permits ends: it gets them, or learns that the
\* receiver is gone.
SendResolves == (pending # NoSend) ~> (pending = NoSend)

\* The end of a channel reaches its input: a local input whose sender is
\* gone, and a remote one whose call broke, stop polling.
EndReachesInput ==
  (\/ ~remote /\ sender = "dropped"
   \/ remote /\ conn = "broken") ~> (input # "polling")

Carried ==
  CASE input # "polling" -> <<>>
    [] conn = "broken" -> wire
    [] OTHER -> wire \o (IF rx = "open" THEN queue ELSE <<>>)

Fifo == INSTANCE ExchangeFifo WITH
  Kinds    <- PermitKinds,
  Capacity <- [k \in PermitKinds |-> CapacityOf(k)],
  buf      <- Carried,
  last     <- received,
  broken   <- rx = "dropped" \/ conn = "broken" \/ input # "polling"

\* The channel is a FIFO of bounded size: nothing is lost, repeated or
\* reordered before it breaks, and what arrives afterwards is a prefix.
CarriesInOrder == Fifo!FSpec

=============================================================================
