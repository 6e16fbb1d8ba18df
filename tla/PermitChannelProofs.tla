------------------------- MODULE PermitChannelProofs -------------------------
(***************************************************************************)
(* Permits are conserved, and a waiting send is never stuck behind a batch *)
(* that the input holds back, for every size of the channel.  A message    *)
(* and an AddPermits carry the totals they lead to, so that the sum of a   *)
(* queue is the difference of two totals and no induction over queues is   *)
(* needed.                                                                 *)
(***************************************************************************)
EXTENDS PermitChannel, TLAPS

\* An entry whose stamp continues the chain may be appended.
LEMMA ChainAppend ==
  ASSUME NEW S, NEW q \in Seq(S), NEW m \in S, NEW lo \in Nat, NEW hi \in Nat,
         NEW k \in PermitKinds, Chain(q, lo, hi, k),
         m.upto[k] = hi + Share(m, k)
  PROVE  Chain(Append(q, m), lo, m.upto[k], k)
<1> DEFINE r == Append(q, m)
<1>1. r \in Seq(S) /\ Len(r) = Len(q) + 1 /\ r[Len(r)] = m
      /\ \A i \in 1 .. Len(q) : r[i] = q[i]
      OBVIOUS
<1>2. r # <<>> /\ Len(q) \in Nat
      BY <1>1
<1>3. CASE q = <<>>
  <2>1. Len(q) = 0 /\ Len(r) = 1 /\ r[1] = m /\ lo = hi
        BY <1>1, <1>3 DEF Chain
  <2> QED  BY <1>2, <2>1 DEF Chain
<1>4. CASE q # <<>>
  <2>1. Len(q) >= 1 /\ r[1] = q[1]
        BY <1>1, <1>4
  <2>2. ASSUME NEW i \in 1 .. Len(r) - 1
        PROVE  r[i + 1].upto[k] = r[i].upto[k] + Share(r[i + 1], k)
    <3>1. CASE i = Len(q)
          BY <3>1, <1>1, <1>4, <2>1 DEF Chain
    <3>2. CASE i # Len(q)
      <4>1. i \in 1 .. Len(q) - 1 /\ r[i] = q[i] /\ r[i + 1] = q[i + 1]
            BY <3>2, <1>1, <2>1
      <4> QED  BY <4>1, <1>4 DEF Chain
    <3> QED  BY <3>1, <3>2
  <2> HIDE DEF r
  <2> QED  BY <1>1, <1>2, <1>4, <2>1, <2>2 DEF Chain
<1> QED  BY <1>3, <1>4

\* Taking the head moves the chain's start by the head's share.
LEMMA ChainTail ==
  ASSUME NEW S, NEW q \in Seq(S), q # <<>>, NEW lo \in Nat, NEW hi \in Nat,
         NEW k \in PermitKinds, Chain(q, lo, hi, k)
  PROVE  Chain(Tail(q), lo + Share(Head(q), k), hi, k)
<1> DEFINE r == Tail(q)
<1>1. r \in Seq(S) /\ Len(r) = Len(q) - 1 /\ Len(q) \in Nat /\ Len(q) >= 1
      /\ \A i \in 1 .. Len(r) : r[i] = q[i + 1]
      OBVIOUS
<1>2. q[1].upto[k] = lo + Share(q[1], k) /\ q[Len(q)].upto[k] = hi
      BY DEF Chain
<1>3. Head(q) = q[1]
      OBVIOUS
<1> HIDE DEF r
<1>4. ASSUME Len(q) = 1
      PROVE  Chain(r, lo + Share(Head(q), k), hi, k)
  <2>1. Len(r) = 0 /\ r = <<>>
        BY <1>1, <1>4
  <2>2. \A i \in 1 .. Len(r) - 1 : FALSE
        BY <2>1
  <2> QED  BY <1>2, <1>3, <1>4, <2>1, <2>2 DEF Chain
<1>5. ASSUME Len(q) # 1
      PROVE  Chain(r, lo + Share(Head(q), k), hi, k)
  <2>1. Len(r) >= 1 /\ r # <<>>
        BY <1>1, <1>5
  <2>2. r[1] = q[2] /\ r[Len(r)] = q[Len(q)] /\ 1 \in 1 .. Len(q) - 1
        BY <1>1, <2>1
  <2>3. q[1 + 1].upto[k] = q[1].upto[k] + Share(q[1 + 1], k)
        BY <2>2 DEF Chain
  <2>4. r[1].upto[k] = lo + Share(Head(q), k) + Share(r[1], k)
        BY <1>2, <1>3, <2>2, <2>3
  <2>5. ASSUME NEW i \in 1 .. Len(r) - 1
        PROVE  r[i + 1].upto[k] = r[i].upto[k] + Share(r[i + 1], k)
    <3>1. i \in 1 .. Len(r) /\ i + 1 \in 1 .. Len(r) /\ i + 1 \in 1 .. Len(q) - 1
          BY <1>1
    <3>2. r[i] = q[i + 1] /\ r[i + 1] = q[(i + 1) + 1]
          BY <1>1, <3>1
    <3> QED  BY <3>1, <3>2 DEF Chain
  <2>6. r[Len(r)].upto[k] = hi
        BY <1>2, <2>2
  <2> QED  BY <2>1, <2>4, <2>5, <2>6 DEF Chain
<1> QED  BY <1>4, <1>5 DEF r

\* What a send may ask for: at most the chunk limit, or one barrier permit.
LEMMA WantedBounds ==
  \A w \in Wanted \cup {NoSend} :
    /\ w = [kind |-> w.kind, permits |-> w.permits]
    /\ w.kind \in {"record", "barrier", "none", "idle"}
    /\ w.permits \in Nat
    /\ w # NoSend => w.kind \in PermitKinds \cup {"none"}
    /\ Share(w, "record") \in 0 .. MaxChunkPermits
    /\ Share(w, "barrier") \in 0 .. 1
<1>1. MaxChunkPermits \in Nat /\ MaxChunkPermits >= 1
      BY ChannelAssumption DEF MaxChunkPermits
<1>2. \A c \in Cards : Clamp(c) \in Nat /\ Clamp(c) <= MaxChunkPermits
      BY <1>1, ChannelAssumption DEF Clamp
<1> QED  BY <1>1, <1>2 DEF Wanted, ChunkPermits, BarrierPermits, NoPermits,
             NoSend, Share, PermitKinds

\* A share is a number, whatever the entry.
LEMMA ShareNat ==
  ASSUME NEW m, m.permits \in Nat, NEW k \in PermitKinds
  PROVE  Share(m, k) \in Nat
BY DEF Share

\* The totals after a message passed some stages.
LEMMA PassedTotals ==
  ASSUME total \in [Stages -> [PermitKinds -> Nat]], NEW S, NEW m,
         m.permits \in Nat
  PROVE  /\ Passed(S, m) \in [Stages -> [PermitKinds -> Nat]]
         /\ \A s \in Stages, k \in PermitKinds :
              Passed(S, m)[s][k] =
                IF s \in S THEN total[s][k] + Share(m, k) ELSE total[s][k]
<1>1. \A k \in PermitKinds : Share(m, k) \in Nat
      BY ShareNat
<1> QED  BY <1>1 DEF Passed

\* What the input sends back and keeps: the two add up, and less than a
\* batch is kept.
LEMMA AddBackSplits ==
  ASSUME acc \in Nat, acc < InputBatched, NEW m \in Messages
  PROVE  /\ AccAfter(m) \in Nat /\ AccAfter(m) < InputBatched
         /\ AddBack(m) = [kind |-> AddBack(m).kind, permits |-> AddBack(m).permits]
         /\ AddBack(m).permits \in Nat
         /\ AddBack(m) # NoPermits => AddBack(m).kind \in PermitKinds
         /\ acc + Share(m, "record") =
              AccAfter(m) + Share(AddBack(m), "record")
         /\ Share(m, "barrier") = Share(AddBack(m), "barrier")
<1>1. InputBatched \in Nat /\ InputBatched > 0
      BY ChannelAssumption
<1>2. m.kind \in PermitKinds \cup {"none"} /\ m.permits \in Nat
      BY DEF Messages
<1>3. CASE m.kind = "record" /\ acc + m.permits >= InputBatched
  <2>1. AddBack(m) = [kind |-> "record", permits |-> acc + m.permits]
        BY <1>3 DEF AddBack
  <2>2. AccAfter(m) = 0
        BY <1>3 DEF AccAfter
  <2> QED  BY <1>1, <1>2, <1>3, <2>1, <2>2 DEF Share, PermitKinds
<1>4. CASE m.kind = "record" /\ ~(acc + m.permits >= InputBatched)
  <2>1. AddBack(m) = NoPermits /\ AccAfter(m) = acc + m.permits
        BY <1>4 DEF AddBack, AccAfter
  <2> QED  BY <1>1, <1>2, <1>4, <2>1 DEF Share, NoPermits, PermitKinds
<1>5. CASE m.kind = "barrier"
  <2>1. AddBack(m) = [kind |-> "barrier", permits |-> m.permits] /\ AccAfter(m) = acc
        BY <1>5 DEF AddBack, AccAfter
  <2> QED  BY <1>1, <1>2, <1>5, <2>1 DEF Share, PermitKinds
<1>6. CASE m.kind = "none"
  <2>1. AddBack(m) = NoPermits /\ AccAfter(m) = acc
        BY <1>6 DEF AddBack, AccAfter
  <2> QED  BY <1>1, <1>2, <1>6, <2>1 DEF Share, NoPermits, PermitKinds
<1> QED  BY <1>2, <1>3, <1>4, <1>5, <1>6 DEF PermitKinds

\* The channel starts with every permit in its semaphore.
LEMMA ChannelInit == Init => ChannelInv
<1> SUFFICES ASSUME Init PROVE ChannelInv
    OBVIOUS
<1>1. \A k \in PermitKinds : CapacityOf(k) \in Nat
      BY ChannelAssumption DEF CapacityOf
<1>2. total \in [Stages -> [PermitKinds -> Nat]]
      /\ \A s \in Stages, k \in PermitKinds : total[s][k] = 0
      BY DEF Init, Zero
<1>3. PCTypeOK
      BY <1>1, <1>2, ChannelAssumption DEF Init, PCTypeOK
<1>4. \A k \in PermitKinds : Chain(<<>>, 0, 0, k)
      BY DEF Chain
<1>5. {"acquired", "served", "read", "sentBack", "putBack"} = Stages
      BY DEF Stages
<1>6. PermitsAccounted
      BY <1>1, <1>2, <1>4, <1>5, ChannelAssumption DEF Init, PermitsAccounted
<1>7. LocalIdle
      BY DEF Init, LocalIdle
<1> QED  BY <1>3, <1>6, <1>7 DEF ChannelInv

\* A step that touches neither permits nor queues keeps the invariant; a
\* lost connection ends what is known about the queues.
LEMMA EndpointStep ==
  ASSUME ChannelInv,
         UNCHANGED <<remote, available, acc, total, sent, received>>,
         pending' \in Wanted \cup {NoSend},
         sender' \in {"held", "dropped"}, rx' \in {"open", "dropped"},
         input' \in {"polling", "error", "dropped"}, queue' = queue,
         conn' \in {"up", "broken"},
         \/ wire' = wire /\ back' = back /\ (conn' = "up" => conn = "up")
         \/ /\ conn' = "broken" /\ back' = <<>>
            /\ remote /\ \E n \in 0 .. Len(wire) : wire' = SubSeq(wire, 1, n)
  PROVE  ChannelInv'
<1>1. wire' \in Seq(Messages) /\ back' \in Seq(Returns)
  <2>1. wire \in Seq(Messages) /\ back \in Seq(Returns)
        BY DEF ChannelInv, PCTypeOK
  <2>2. \A n \in 0 .. Len(wire) : SubSeq(wire, 1, n) \in Seq(Messages)
        BY <2>1
  <2>3. CASE wire' = wire /\ back' = back
        BY <2>1, <2>3
  <2>4. CASE back' = <<>> /\ \E n \in 0 .. Len(wire) : wire' = SubSeq(wire, 1, n)
        BY <2>2, <2>4
  <2> QED  BY <2>3, <2>4
<1>2. PCTypeOK'
      BY <1>1 DEF ChannelInv, PCTypeOK
<1>3. PermitsAccounted'
  <2>1. CASE conn' = "up"
    <3>1. conn = "up" /\ wire' = wire /\ back' = back
          BY <2>1
    <3> QED  BY <3>1 DEF ChannelInv, PermitsAccounted, Chain, Share, CapacityOf
  <2>2. CASE conn' # "up"
        BY <2>2 DEF ChannelInv, PermitsAccounted
  <2> QED  BY <2>1, <2>2
<1>4. LocalIdle'
      BY DEF ChannelInv, LocalIdle, PCTypeOK
<1> QED  BY <1>2, <1>3, <1>4 DEF ChannelInv

\* A queued message takes its permits from the semaphore into the queue.
LEMMA SendStep == ChannelInv /\ SendSucceeds => ChannelInv'
<1> SUFFICES ASSUME ChannelInv, SendSucceeds PROVE ChannelInv'
    OBVIOUS
<1>0. PCTypeOK /\ PermitsAccounted /\ total \in [Stages -> [PermitKinds -> Nat]]
      BY DEF ChannelInv, PCTypeOK
<1>1. /\ pending.permits \in Nat /\ pending.kind \in PermitKinds \cup {"none"}
      /\ pending # NoSend
      BY <1>0, WantedBounds DEF PCTypeOK, SendSucceeds
<1>2. /\ total' \in [Stages -> [PermitKinds -> Nat]]
      /\ \A s \in Stages, k \in PermitKinds :
           total'[s][k] = IF s = "acquired" THEN total[s][k] + Share(pending, k)
                                            ELSE total[s][k]
  <2>1. {"acquired"} \in SUBSET Stages /\ total' = Passed({"acquired"}, pending)
        BY DEF Stages, SendSucceeds
  <2>2. /\ Passed({"acquired"}, pending) \in [Stages -> [PermitKinds -> Nat]]
        /\ \A s \in Stages, k \in PermitKinds :
             Passed({"acquired"}, pending)[s][k] =
               IF s \in {"acquired"} THEN total[s][k] + Share(pending, k)
                                     ELSE total[s][k]
        BY <2>1, <1>0, <1>1, PassedTotals
  <2> QED  BY <2>1, <2>2
<1>3. \A k \in PermitKinds : Share(pending, k) \in Nat
      BY <1>1, ShareNat
<1>4. /\ available' \in [PermitKinds -> Nat]
      /\ \A k \in PermitKinds : available'[k] = available[k] - Share(pending, k)
      BY <1>0, <1>3 DEF SendSucceeds, CanAcquire, PCTypeOK
<1> DEFINE m == [id |-> sent + 1, kind |-> pending.kind,
                 permits |-> pending.permits, upto |-> total'["acquired"]]
<1>5. m \in Messages /\ queue' = Append(queue, m) /\ queue \in Seq(Messages)
  <2>1. total'["acquired"] \in [PermitKinds -> Nat] /\ sent + 1 \in Nat
        BY <1>0, <1>2 DEF Stages, PCTypeOK
  <2> QED  BY <1>0, <1>1, <2>1 DEF Messages, SendSucceeds, PCTypeOK
<1>6. \A k \in PermitKinds : m.upto[k] = total["acquired"][k] + Share(m, k)
      BY <1>2 DEF Stages, Share
<1>7. PCTypeOK'
  <2>1. sent' \in Nat /\ pending' \in Wanted \cup {NoSend} /\ queue' \in Seq(Messages)
        BY <1>0, <1>5 DEF SendSucceeds, PCTypeOK
  <2> QED  BY <1>0, <1>2, <1>4, <2>1 DEF SendSucceeds, PCTypeOK
<1>8. ASSUME NEW k \in PermitKinds, conn = "up"
      PROVE  Chain(queue', total'["served"][k], total'["acquired"][k], k)
  <2>1. /\ total["served"][k] \in Nat /\ total["acquired"][k] \in Nat
        /\ Chain(queue, total["served"][k], total["acquired"][k], k)
        BY <1>0, <1>8 DEF PermitsAccounted, Stages
  <2>2. m.upto[k] = total["acquired"][k] + Share(m, k)
        BY <1>6
  <2> HIDE DEF m
  <2>3. Chain(queue', total["served"][k], m.upto[k], k)
        BY <1>5, <2>1, <2>2, ChainAppend
  <2>4. m.upto[k] = total'["acquired"][k] /\ total'["served"][k] = total["served"][k]
        BY <1>2 DEF m, Stages
  <2> QED  BY <2>3, <2>4
<1>9. \A s \in Stages \ {"acquired"}, k \in PermitKinds : total'[s][k] = total[s][k]
      BY <1>2
<1>10. PermitsAccounted'
  <2>1. acc' = acc /\ conn' = conn /\ wire' = wire /\ back' = back
        BY DEF SendSucceeds
  <2>2. ASSUME NEW k \in PermitKinds
        PROVE  /\ available'[k] =
                    CapacityOf(k) - total'["acquired"][k] + total'["putBack"][k]
               /\ total'["read"][k] =
                    total'["sentBack"][k] + (IF k = "record" THEN acc ELSE 0)
               /\ conn = "up" =>
                    /\ Chain(wire, total'["read"][k], total'["served"][k], k)
                    /\ Chain(back, total'["putBack"][k], total'["sentBack"][k], k)
    <3>1. /\ total["acquired"][k] \in Nat /\ total["putBack"][k] \in Nat
          /\ available[k] \in Nat /\ CapacityOf(k) \in Nat
          BY <1>0, ChannelAssumption DEF Stages, PCTypeOK, CapacityOf
    <3>2. total'["acquired"][k] = total["acquired"][k] + Share(pending, k)
          BY <1>2 DEF Stages
    <3>3. /\ total'["served"][k] = total["served"][k]
          /\ total'["read"][k] = total["read"][k]
          /\ total'["sentBack"][k] = total["sentBack"][k]
          /\ total'["putBack"][k] = total["putBack"][k]
          BY <1>9 DEF Stages
    <3> QED  BY <1>0, <1>3, <1>4, <3>1, <3>2, <3>3 DEF PermitsAccounted
  <2> QED  BY <1>0, <1>8, <2>1, <2>2 DEF PermitsAccounted, Chain
<1>11. LocalIdle'
      BY DEF ChannelInv, LocalIdle, SendSucceeds
<1> QED  BY <1>7, <1>10, <1>11 DEF ChannelInv

\* A local receiver puts the permits of a message straight back.
LEMMA LocalRecvStep == ChannelInv /\ LocalRecv => ChannelInv'
<1> SUFFICES ASSUME ChannelInv, LocalRecv PROVE ChannelInv'
    OBVIOUS
<1> DEFINE m == Head(queue)
<1>0. PCTypeOK /\ PermitsAccounted /\ total \in [Stages -> [PermitKinds -> Nat]]
      BY DEF ChannelInv, PCTypeOK
<1>1. /\ queue \in Seq(Messages) /\ queue # <<>> /\ queue' = Tail(queue)
      /\ m \in Messages /\ m.permits \in Nat /\ m.id \in Nat
      /\ queue' \in Seq(Messages)
  <2>1. queue \in Seq(Messages) /\ queue # <<>> /\ queue' = Tail(queue)
        BY <1>0 DEF PCTypeOK, LocalRecv
  <2>2. m \in Messages /\ Tail(queue) \in Seq(Messages)
        BY <2>1
  <2> QED  BY <2>1, <2>2 DEF Messages
<1> HIDE DEF m
<1>2. /\ total' \in [Stages -> [PermitKinds -> Nat]]
      /\ \A k \in PermitKinds :
           /\ total'["acquired"][k] = total["acquired"][k]
           /\ total'["served"][k] = total["served"][k] + Share(m, k)
           /\ total'["read"][k] = total["read"][k] + Share(m, k)
           /\ total'["sentBack"][k] = total["sentBack"][k] + Share(m, k)
           /\ total'["putBack"][k] = total["putBack"][k] + Share(m, k)
  <2>1. total' = Passed(Stages \ {"acquired"}, m)
        BY DEF LocalRecv, m
  <2>2. /\ Passed(Stages \ {"acquired"}, m) \in [Stages -> [PermitKinds -> Nat]]
        /\ \A s \in Stages, k \in PermitKinds :
             Passed(Stages \ {"acquired"}, m)[s][k] =
               IF s \in Stages \ {"acquired"} THEN total[s][k] + Share(m, k)
                            ELSE total[s][k]
        BY <1>0, <1>1, PassedTotals
  <2> QED  BY <2>1, <2>2 DEF Stages
<1>3. \A k \in PermitKinds : Share(m, k) \in Nat
      BY <1>1, ShareNat
<1>4. /\ available' \in [PermitKinds -> Nat]
      /\ \A k \in PermitKinds : available'[k] = available[k] + Share(m, k)
      BY <1>0, <1>3 DEF LocalRecv, PCTypeOK, m
<1>5. PCTypeOK'
  <2>1. received' \in Nat
        BY <1>1 DEF LocalRecv, m
  <2> QED  BY <1>0, <1>1, <1>2, <1>4, <2>1 DEF LocalRecv, PCTypeOK
<1>6. acc' = acc /\ conn' = conn /\ wire' = wire /\ back' = back
      BY DEF LocalRecv
<1>7. ASSUME NEW k \in PermitKinds
      PROVE  /\ available'[k] =
                  CapacityOf(k) - total'["acquired"][k] + total'["putBack"][k]
             /\ total'["read"][k] =
                  total'["sentBack"][k] + (IF k = "record" THEN acc ELSE 0)
             /\ conn = "up" =>
                  /\ Chain(queue', total'["served"][k], total'["acquired"][k], k)
                  /\ Chain(wire, total'["read"][k], total'["served"][k], k)
                  /\ Chain(back, total'["putBack"][k], total'["sentBack"][k], k)
  <2>1. /\ \A s \in Stages : total[s][k] \in Nat
        /\ available[k] \in Nat /\ CapacityOf(k) \in Nat /\ acc \in Nat
        /\ Share(m, k) \in Nat
        BY <1>0, <1>3, ChannelAssumption DEF PCTypeOK, CapacityOf
  <2>2. /\ available'[k] =
             CapacityOf(k) - total'["acquired"][k] + total'["putBack"][k]
        /\ total'["read"][k] =
             total'["sentBack"][k] + (IF k = "record" THEN acc ELSE 0)
        BY <1>0, <1>2, <1>4, <2>1 DEF PermitsAccounted, Stages
  <2>3. ASSUME conn = "up"
        PROVE  Chain(queue', total["served"][k] + Share(m, k),
                     total["acquired"][k], k)
    <3>1. Chain(queue, total["served"][k], total["acquired"][k], k)
          BY <1>0, <2>3 DEF PermitsAccounted
    <3>2. total["served"][k] \in Nat /\ total["acquired"][k] \in Nat
          BY <2>1 DEF Stages
    <3> QED  BY <1>1, <3>1, <3>2, ChainTail DEF m
  <2>4. ASSUME conn = "up"
        PROVE  /\ Chain(wire, total["read"][k] + Share(m, k),
                        total["served"][k] + Share(m, k), k)
               /\ Chain(back, total["putBack"][k] + Share(m, k),
                        total["sentBack"][k] + Share(m, k), k)
    <3>1. wire = <<>> /\ back = <<>>
          BY <1>0 DEF LocalIdle, ChannelInv, LocalRecv
    <3>2. /\ Chain(wire, total["read"][k], total["served"][k], k)
          /\ Chain(back, total["putBack"][k], total["sentBack"][k], k)
          BY <1>0, <2>4 DEF PermitsAccounted
    <3>3. total["read"][k] = total["served"][k] /\ total["putBack"][k] = total["sentBack"][k]
          BY <3>1, <3>2 DEF Chain
    <3>4. \A n : Chain(<<>>, n, n, k)
          BY DEF Chain
    <3> QED  BY <3>1, <3>3, <3>4
  <2> QED  BY <1>2, <2>2, <2>3, <2>4
<1>8. PermitsAccounted'
      BY <1>0, <1>6, <1>7 DEF PermitsAccounted, Chain
<1>9. LocalIdle'
      BY DEF ChannelInv, LocalIdle, LocalRecv
<1> QED  BY <1>5, <1>8, <1>9 DEF ChannelInv

\* The service moves a message from the channel to the wire.
LEMMA ServeMessageStep == ChannelInv /\ ServeMessage => ChannelInv'
<1> SUFFICES ASSUME ChannelInv, ServeMessage PROVE ChannelInv'
    OBVIOUS
<1> DEFINE m == Head(queue)
<1>0. PCTypeOK /\ PermitsAccounted /\ total \in [Stages -> [PermitKinds -> Nat]]
      BY DEF ChannelInv, PCTypeOK
<1>1. /\ queue \in Seq(Messages) /\ queue # <<>> /\ queue' = Tail(queue)
      /\ m \in Messages /\ m.permits \in Nat
      /\ queue' \in Seq(Messages)
      /\ wire \in Seq(Messages) /\ wire' = Append(wire, m) /\ wire' \in Seq(Messages)
  <2>1. /\ queue \in Seq(Messages) /\ queue # <<>> /\ queue' = Tail(queue)
        /\ wire \in Seq(Messages) /\ wire' = Append(wire, m)
        BY <1>0 DEF PCTypeOK, ServeMessage
  <2>2. m \in Messages /\ Tail(queue) \in Seq(Messages)
        BY <2>1
  <2>3. Append(wire, m) \in Seq(Messages)
        BY <2>1, <2>2
  <2> QED  BY <2>1, <2>2, <2>3 DEF Messages
<1> HIDE DEF m
<1>2. /\ total' \in [Stages -> [PermitKinds -> Nat]]
      /\ \A k \in PermitKinds :
           /\ total'["acquired"][k] = total["acquired"][k]
           /\ total'["served"][k] = total["served"][k] + Share(m, k)
           /\ total'["read"][k] = total["read"][k]
           /\ total'["sentBack"][k] = total["sentBack"][k]
           /\ total'["putBack"][k] = total["putBack"][k]
  <2>1. total' = Passed({"served"}, m)
        BY DEF ServeMessage, m
  <2>2. /\ Passed({"served"}, m) \in [Stages -> [PermitKinds -> Nat]]
        /\ \A s \in Stages, k \in PermitKinds :
             Passed({"served"}, m)[s][k] =
               IF s \in {"served"} THEN total[s][k] + Share(m, k)
                            ELSE total[s][k]
        BY <1>0, <1>1, PassedTotals
  <2> QED  BY <2>1, <2>2 DEF Stages
<1>3. \A k \in PermitKinds : Share(m, k) \in Nat
      BY <1>1, ShareNat
<1>5. PCTypeOK'
      BY <1>0, <1>1, <1>2 DEF ServeMessage, PCTypeOK
<1>6. acc' = acc /\ conn' = conn /\ available' = available /\ back' = back
      BY DEF ServeMessage
<1>7. ASSUME NEW k \in PermitKinds
      PROVE  /\ available'[k] =
                  CapacityOf(k) - total'["acquired"][k] + total'["putBack"][k]
             /\ total'["read"][k] =
                  total'["sentBack"][k] + (IF k = "record" THEN acc' ELSE 0)
             /\ conn = "up" =>
                  /\ Chain(queue', total'["served"][k], total'["acquired"][k], k)
                  /\ Chain(wire', total'["read"][k], total'["served"][k], k)
                  /\ Chain(back', total'["putBack"][k], total'["sentBack"][k], k)
  <2>1. /\ \A s \in Stages : total[s][k] \in Nat
        /\ available[k] \in Nat /\ CapacityOf(k) \in Nat /\ acc \in Nat
        /\ Share(m, k) \in Nat
        BY <1>0, <1>3, ChannelAssumption DEF PCTypeOK, CapacityOf
  <2>2. /\ available'[k] =
             CapacityOf(k) - total'["acquired"][k] + total'["putBack"][k]
        /\ total'["read"][k] =
             total'["sentBack"][k] + (IF k = "record" THEN acc' ELSE 0)
        BY <1>0, <1>2, <1>6, <2>1 DEF PermitsAccounted, Stages
  <2>3. ASSUME conn = "up"
        PROVE  /\ Chain(queue', total["served"][k] + Share(m, k),
                        total["acquired"][k], k)
               /\ Chain(wire', total["read"][k], total["served"][k] + Share(m, k), k)
               /\ Chain(back, total["putBack"][k], total["sentBack"][k], k)
    <3>1. /\ Chain(queue, total["served"][k], total["acquired"][k], k)
          /\ Chain(wire, total["read"][k], total["served"][k], k)
          /\ Chain(back, total["putBack"][k], total["sentBack"][k], k)
          BY <1>0, <2>3 DEF PermitsAccounted
    <3>2. /\ total["served"][k] \in Nat /\ total["acquired"][k] \in Nat
          /\ total["read"][k] \in Nat
          BY <2>1 DEF Stages
    <3>3. Chain(queue', total["served"][k] + Share(m, k), total["acquired"][k], k)
          BY <1>1, <3>1, <3>2, ChainTail DEF m
    <3>4. m.upto[k] = total["served"][k] + Share(m, k)
          BY <1>1, <3>1 DEF Chain, m
    <3>5. Chain(Append(wire, m), total["read"][k], m.upto[k], k)
          BY <1>1, <3>1, <3>2, <3>4, ChainAppend
    <3> QED  BY <1>1, <3>1, <3>3, <3>4, <3>5
  <2> QED  BY <1>2, <1>6, <2>2, <2>3
<1>8. PermitsAccounted'
      BY <1>0, <1>6, <1>7 DEF PermitsAccounted, Chain
<1>9. LocalIdle'
      BY DEF ChannelInv, LocalIdle, ServeMessage
<1> QED  BY <1>5, <1>8, <1>9 DEF ChannelInv

\* The service adds returned permits to their semaphore.
LEMMA AddPermitsStep == ChannelInv /\ ServeAddPermits => ChannelInv'
<1> SUFFICES ASSUME ChannelInv, ServeAddPermits PROVE ChannelInv'
    OBVIOUS
<1> DEFINE m == Head(back)
<1>0. PCTypeOK /\ PermitsAccounted /\ total \in [Stages -> [PermitKinds -> Nat]]
      BY DEF ChannelInv, PCTypeOK
<1>1. /\ back \in Seq(Returns) /\ back # <<>> /\ back' = Tail(back)
      /\ m \in Returns /\ m.permits \in Nat
      /\ back' \in Seq(Returns)
  <2>1. back \in Seq(Returns) /\ back # <<>> /\ back' = Tail(back)
        BY <1>0 DEF PCTypeOK, ServeAddPermits
  <2>2. m \in Returns /\ Tail(back) \in Seq(Returns)
        BY <2>1
  <2> QED  BY <2>1, <2>2 DEF Returns
<1> HIDE DEF m
<1>2. /\ total' \in [Stages -> [PermitKinds -> Nat]]
      /\ \A k \in PermitKinds :
           /\ total'["acquired"][k] = total["acquired"][k]
           /\ total'["served"][k] = total["served"][k]
           /\ total'["read"][k] = total["read"][k]
           /\ total'["sentBack"][k] = total["sentBack"][k]
           /\ total'["putBack"][k] = total["putBack"][k] + Share(m, k)
  <2>1. total' = Passed({"putBack"}, m)
        BY DEF ServeAddPermits, m
  <2>2. /\ Passed({"putBack"}, m) \in [Stages -> [PermitKinds -> Nat]]
        /\ \A s \in Stages, k \in PermitKinds :
             Passed({"putBack"}, m)[s][k] =
               IF s \in {"putBack"} THEN total[s][k] + Share(m, k)
                            ELSE total[s][k]
        BY <1>0, <1>1, PassedTotals
  <2> QED  BY <2>1, <2>2 DEF Stages
<1>3. \A k \in PermitKinds : Share(m, k) \in Nat
      BY <1>1, ShareNat
<1>4. /\ available' \in [PermitKinds -> Nat]
      /\ \A k \in PermitKinds : available'[k] = available[k] + Share(m, k)
      BY <1>0, <1>3 DEF ServeAddPermits, PCTypeOK, m
<1>5. PCTypeOK'
      BY <1>0, <1>1, <1>2, <1>4 DEF ServeAddPermits, PCTypeOK
<1>6. acc' = acc /\ conn' = conn /\ queue' = queue /\ wire' = wire
      BY DEF ServeAddPermits
<1>7. ASSUME NEW k \in PermitKinds
      PROVE  /\ available'[k] =
                  CapacityOf(k) - total'["acquired"][k] + total'["putBack"][k]
             /\ total'["read"][k] =
                  total'["sentBack"][k] + (IF k = "record" THEN acc' ELSE 0)
             /\ conn = "up" =>
                  /\ Chain(queue', total'["served"][k], total'["acquired"][k], k)
                  /\ Chain(wire', total'["read"][k], total'["served"][k], k)
                  /\ Chain(back', total'["putBack"][k], total'["sentBack"][k], k)
  <2>1. /\ \A s \in Stages : total[s][k] \in Nat
        /\ available[k] \in Nat /\ CapacityOf(k) \in Nat /\ acc \in Nat
        /\ Share(m, k) \in Nat
        BY <1>0, <1>3, ChannelAssumption DEF PCTypeOK, CapacityOf
  <2>2. /\ available'[k] =
             CapacityOf(k) - total'["acquired"][k] + total'["putBack"][k]
        /\ total'["read"][k] =
             total'["sentBack"][k] + (IF k = "record" THEN acc' ELSE 0)
        BY <1>0, <1>2, <1>4, <1>6, <2>1 DEF PermitsAccounted, Stages
  <2>3. ASSUME conn = "up"
        PROVE  /\ Chain(queue, total["served"][k], total["acquired"][k], k)
               /\ Chain(wire, total["read"][k], total["served"][k], k)
               /\ Chain(back', total["putBack"][k] + Share(m, k),
                        total["sentBack"][k], k)
    <3>1. /\ Chain(queue, total["served"][k], total["acquired"][k], k)
          /\ Chain(wire, total["read"][k], total["served"][k], k)
          /\ Chain(back, total["putBack"][k], total["sentBack"][k], k)
          BY <1>0, <2>3 DEF PermitsAccounted
    <3>2. total["putBack"][k] \in Nat /\ total["sentBack"][k] \in Nat
          BY <2>1 DEF Stages
    <3>3. Chain(back', total["putBack"][k] + Share(m, k), total["sentBack"][k], k)
          BY <1>1, <3>1, <3>2, ChainTail DEF m
    <3> QED  BY <3>1, <3>3
  <2> QED  BY <1>2, <1>6, <2>2, <2>3
<1>8. PermitsAccounted'
      BY <1>0, <1>6, <1>7 DEF PermitsAccounted, Chain
<1>9. LocalIdle'
      BY DEF ChannelInv, LocalIdle, ServeAddPermits
<1> QED  BY <1>5, <1>8, <1>9 DEF ChannelInv

\* The input reads a message and sends its permits back, or holds them back
\* with the batch.
LEMMA RemoteRecvStep == ChannelInv /\ RemoteRecv => ChannelInv'
<1> SUFFICES ASSUME ChannelInv, RemoteRecv PROVE ChannelInv'
    OBVIOUS
<1> DEFINE m == Head(wire)
           a == AddBack(m)
           e == [kind |-> a.kind, permits |-> a.permits,
                 upto |-> total'["sentBack"]]
<1>0. PCTypeOK /\ PermitsAccounted /\ total \in [Stages -> [PermitKinds -> Nat]]
      /\ acc \in Nat /\ acc < InputBatched
      BY DEF ChannelInv, PCTypeOK, PermitsAccounted
<1>1. /\ wire \in Seq(Messages) /\ wire # <<>> /\ wire' = Tail(wire)
      /\ m \in Messages /\ m.permits \in Nat /\ m.id \in Nat
      /\ wire' \in Seq(Messages)
  <2>1. wire \in Seq(Messages) /\ wire # <<>> /\ wire' = Tail(wire)
        BY <1>0 DEF PCTypeOK, RemoteRecv
  <2>2. m \in Messages /\ Tail(wire) \in Seq(Messages)
        BY <2>1
  <2> QED  BY <2>1, <2>2 DEF Messages
<1> HIDE DEF m
<1>2. /\ acc' = AccAfter(m) /\ acc' \in Nat /\ acc' < InputBatched
      /\ a.permits \in Nat
      /\ a # NoPermits => a.kind \in PermitKinds
      /\ acc + Share(m, "record") = acc' + Share(a, "record")
      /\ Share(m, "barrier") = Share(a, "barrier")
  <2>1. acc' = AccAfter(m)
        BY DEF RemoteRecv, m
  <2> QED  BY <1>0, <1>1, <2>1, AddBackSplits
<1>3. /\ back' = IF conn = "up" /\ a # NoPermits THEN Append(back, e) ELSE back
      /\ received' = m.id
      /\ total' = [Passed({"read"}, m) EXCEPT !["sentBack"] =
                     [k \in PermitKinds |-> @[k] + Share(a, k)]]
      BY DEF RemoteRecv, m
<1> HIDE DEF a
<1>4. \A k \in PermitKinds : Share(m, k) \in Nat /\ Share(a, k) \in Nat
      BY <1>1, <1>2, ShareNat
<1>5. /\ total' \in [Stages -> [PermitKinds -> Nat]]
      /\ \A k \in PermitKinds :
           /\ total'["acquired"][k] = total["acquired"][k]
           /\ total'["served"][k] = total["served"][k]
           /\ total'["read"][k] = total["read"][k] + Share(m, k)
           /\ total'["sentBack"][k] = total["sentBack"][k] + Share(a, k)
           /\ total'["putBack"][k] = total["putBack"][k]
  <2>1. /\ Passed({"read"}, m) \in [Stages -> [PermitKinds -> Nat]]
        /\ \A s \in Stages, k \in PermitKinds :
             Passed({"read"}, m)[s][k] =
               IF s \in {"read"} THEN total[s][k] + Share(m, k) ELSE total[s][k]
        BY <1>0, <1>1, PassedTotals
  <2> QED  BY <1>3, <1>4, <2>1 DEF Stages
<1>6. back' \in Seq(Returns) /\ back \in Seq(Returns)
  <2>1. back \in Seq(Returns) /\ total'["sentBack"] \in [PermitKinds -> Nat]
        BY <1>0, <1>5 DEF PCTypeOK, Stages
  <2>2. ASSUME a # NoPermits PROVE e \in Returns
        BY <1>2, <2>1, <2>2 DEF Returns
  <2> HIDE DEF e
  <2>3. CASE a # NoPermits
        BY <1>3, <2>1, <2>2, <2>3
  <2>4. CASE a = NoPermits
        BY <1>3, <2>1, <2>4
  <2> QED  BY <2>3, <2>4
<1>7. PCTypeOK'
      BY <1>0, <1>1, <1>2, <1>3, <1>5, <1>6 DEF RemoteRecv, PCTypeOK
<1>8. available' = available /\ conn' = conn /\ queue' = queue
      BY DEF RemoteRecv
<1>9. ASSUME NEW k \in PermitKinds
      PROVE  /\ available'[k] =
                  CapacityOf(k) - total'["acquired"][k] + total'["putBack"][k]
             /\ total'["read"][k] =
                  total'["sentBack"][k] + (IF k = "record" THEN acc' ELSE 0)
             /\ conn = "up" =>
                  /\ Chain(queue, total'["served"][k], total'["acquired"][k], k)
                  /\ Chain(wire', total'["read"][k], total'["served"][k], k)
                  /\ Chain(back', total'["putBack"][k], total'["sentBack"][k], k)
  <2>1. /\ total["acquired"][k] \in Nat /\ total["served"][k] \in Nat
        /\ total["read"][k] \in Nat /\ total["sentBack"][k] \in Nat
        /\ total["putBack"][k] \in Nat
        /\ Share(m, k) \in Nat /\ Share(a, k) \in Nat
        BY <1>0, <1>4 DEF Stages
  <2>2. available'[k] =
          CapacityOf(k) - total'["acquired"][k] + total'["putBack"][k]
        BY <1>0, <1>5, <1>8 DEF PermitsAccounted
  <2>3. total'["read"][k] =
          total'["sentBack"][k] + (IF k = "record" THEN acc' ELSE 0)
    <3>1. total["read"][k] =
            total["sentBack"][k] + (IF k = "record" THEN acc ELSE 0)
          BY <1>0 DEF PermitsAccounted
    <3>2. CASE k = "record"
          BY <1>0, <1>2, <1>5, <2>1, <3>1, <3>2
    <3>3. CASE k = "barrier"
          BY <1>0, <1>2, <1>5, <2>1, <3>1, <3>3
    <3> QED  BY <3>2, <3>3 DEF PermitKinds
  <2>4. ASSUME conn = "up"
        PROVE  /\ Chain(queue, total["served"][k], total["acquired"][k], k)
               /\ Chain(wire', total["read"][k] + Share(m, k), total["served"][k], k)
               /\ Chain(back', total["putBack"][k],
                        total["sentBack"][k] + Share(a, k), k)
    <3>1. /\ Chain(queue, total["served"][k], total["acquired"][k], k)
          /\ Chain(wire, total["read"][k], total["served"][k], k)
          /\ Chain(back, total["putBack"][k], total["sentBack"][k], k)
          BY <1>0, <2>4 DEF PermitsAccounted
    <3>2. Chain(wire', total["read"][k] + Share(m, k), total["served"][k], k)
          BY <1>1, <2>1, <3>1, ChainTail DEF m
    <3>3. CASE a # NoPermits
      <4>1. /\ e.upto[k] = total["sentBack"][k] + Share(e, k)
            /\ Share(e, k) = Share(a, k)
            BY <1>5 DEF Share
      <4>2. e \in Returns
        <5>1. total'["sentBack"] \in [PermitKinds -> Nat]
              BY <1>5 DEF Stages
        <5> QED  BY <1>2, <3>3, <5>1 DEF Returns
      <4> HIDE DEF e
      <4>3. Chain(Append(back, e), total["putBack"][k], e.upto[k], k)
            BY <1>6, <2>1, <3>1, <4>1, <4>2, ChainAppend
      <4> QED  BY <1>3, <2>4, <3>1, <3>2, <3>3, <4>1, <4>3
    <3>4. CASE a = NoPermits
      <4>1. Share(a, k) = 0 /\ back' = back
            BY <1>3, <3>4 DEF Share, NoPermits, PermitKinds
      <4> QED  BY <2>1, <3>1, <3>2, <4>1
    <3> QED  BY <3>3, <3>4
  <2> QED  BY <1>5, <2>2, <2>3, <2>4
<1>10. PermitsAccounted'
      BY <1>2, <1>8, <1>9 DEF PermitsAccounted, Chain
<1>11. LocalIdle'
      BY DEF ChannelInv, LocalIdle, RemoteRecv
<1> QED  BY <1>7, <1>10, <1>11 DEF ChannelInv

\* Every step keeps the invariant.
LEMMA ChannelStep == ChannelInv /\ [Next]_vars => ChannelInv'
<1> SUFFICES ASSUME ChannelInv, [Next]_vars PROVE ChannelInv'
    OBVIOUS
<1>0. /\ pending \in Wanted \cup {NoSend} /\ sender \in {"held", "dropped"}
      /\ rx \in {"open", "dropped"} /\ conn \in {"up", "broken"}
      /\ input \in {"polling", "error", "dropped"}
      BY DEF ChannelInv, PCTypeOK
<1>1. CASE Send
      BY <1>0, <1>1, EndpointStep DEF Send
<1>2. CASE SendFails
      BY <1>0, <1>2, EndpointStep DEF SendFails
<1>3. CASE DropSender
      BY <1>0, <1>3, EndpointStep DEF DropSender
<1>4. CASE LocalEnded
      BY <1>0, <1>4, EndpointStep DEF LocalEnded, chanVars
<1>5. CASE ServeEnded
      BY <1>0, <1>5, EndpointStep DEF ServeEnded, chanVars
<1>6. CASE ServeCancelled
      BY <1>0, <1>6, EndpointStep DEF ServeCancelled, chanVars
<1>7. CASE RemotePermitsRefused
      BY <1>0, <1>7, EndpointStep DEF RemotePermitsRefused, chanVars
<1>8. CASE RemoteError
      BY <1>0, <1>8, EndpointStep DEF RemoteError, chanVars
<1>9. CASE DropInput
      BY <1>0, <1>9, EndpointStep DEF DropInput, chanVars
<1>10. CASE Disconnect
      BY <1>0, <1>10, EndpointStep DEF Disconnect
<1>11. CASE UNCHANGED vars
      BY <1>0, <1>11, EndpointStep DEF vars
<1> QED  BY <1>1, <1>2, <1>3, <1>4, <1>5, <1>6, <1>7, <1>8, <1>9, <1>10, <1>11,
           SendStep, LocalRecvStep, ServeMessageStep, AddPermitsStep,
           RemoteRecvStep DEF Next

\* In a drained channel all permits are in the semaphores but the ones the
\* input holds back, so only a chunk can be short of them, and only by more than
\* the channel left out.
LEMMA DrainedShort ==
  ASSUME ChannelInv
  PROVE  StarvedOnlyByBatch
<1> SUFFICES ASSUME WaitsInVain
             PROVE  /\ remote /\ pending.kind = "record"
                    /\ ChannelBatched < acc /\ acc < InputBatched
    BY DEF StarvedOnlyByBatch
<1>0. /\ InitialPermits \in Nat /\ ChannelBatched \in Nat /\ InputBatched \in Nat
      /\ ConcurrentBarriers \in Nat /\ ConcurrentBarriers >= 1
      BY ChannelAssumption
<1>1. /\ acc \in Nat /\ acc < InputBatched
      /\ total \in [Stages -> [PermitKinds -> Nat]]
      /\ pending \in Wanted \cup {NoSend}
      BY DEF ChannelInv, PCTypeOK, PermitsAccounted
<1>2. ASSUME NEW k \in PermitKinds
      PROVE  available[k] = CapacityOf(k) - (IF k = "record" THEN acc ELSE 0)
  <2>1. /\ total["acquired"][k] \in Nat /\ total["served"][k] \in Nat
        /\ total["read"][k] \in Nat /\ total["sentBack"][k] \in Nat
        /\ total["putBack"][k] \in Nat /\ CapacityOf(k) \in Nat
        BY <1>0, <1>1 DEF Stages, CapacityOf
  <2>2. /\ total["served"][k] = total["acquired"][k]
        /\ total["read"][k] = total["served"][k]
        /\ total["putBack"][k] = total["sentBack"][k]
        BY DEF ChannelInv, PermitsAccounted, Chain, WaitsInVain
  <2>3. /\ available[k] =
             CapacityOf(k) - total["acquired"][k] + total["putBack"][k]
        /\ total["read"][k] =
             total["sentBack"][k] + (IF k = "record" THEN acc ELSE 0)
        BY DEF ChannelInv, PermitsAccounted
  <2> QED  BY <1>1, <2>1, <2>2, <2>3
<1>3. Share(pending, "record") \in 0 .. MaxChunkPermits
      /\ Share(pending, "barrier") \in 0 .. 1
      BY <1>1, WantedBounds
<1>4. Share(pending, "barrier") <= available["barrier"]
  <2>1. available["barrier"] = ConcurrentBarriers
        BY <1>0, <1>2 DEF PermitKinds, CapacityOf
  <2> QED  BY <1>0, <1>3, <2>1
<1>5. ~(Share(pending, "record") <= available["record"])
      BY <1>4 DEF WaitsInVain, CanAcquire, PermitKinds
<1>6. available["record"] = InitialPermits - acc
      BY <1>2 DEF PermitKinds, CapacityOf
<1>7. ChannelBatched < acc
      BY <1>0, <1>1, <1>3, <1>5, <1>6 DEF MaxChunkPermits
<1>8. remote
      BY <1>0, <1>7 DEF ChannelInv, LocalIdle, PCTypeOK
<1>9. pending.kind = "record"
  <2>1. CASE pending.kind # "record"
    <3>1. Share(pending, "record") = 0
          BY <2>1 DEF Share
    <3>2. available["record"] \in Nat
          BY DEF ChannelInv, PCTypeOK, PermitKinds
    <3> QED  BY <1>5, <3>1, <3>2
  <2> QED  BY <2>1
<1> QED  BY <1>1, <1>7, <1>8, <1>9

\* Permits are conserved between the semaphores, the messages, the batch held
\* back and the AddPermits under way, for every channel.
THEOREM PermitsAreAccounted == Spec => []ChannelInv
<1> QED  BY ChannelInit, ChannelStep, PTL DEF Spec

\* For every pair of batch sizes, capacity and chunk size, a send waits in vain
\* only for record permits that a remote input holds back beyond the reserve.
THEOREM SendStarvedOnlyByBatch == Spec => []StarvedOnlyByBatch
<1>1. ChannelInv => StarvedOnlyByBatch
      BY DrainedShort
<1> QED  BY <1>1, PermitsAreAccounted, PTL

\* So no send waits in vain when the input batches at most one permit more than
\* the channel left out, as with one configuration at both ends.
COROLLARY OneConfigurationSuffices ==
  ASSUME InputBatched <= ChannelBatched + 1
  PROVE  Spec => []NoPermitDeadlock
<1>1. ChannelInv => NoPermitDeadlock
  <2> SUFFICES ASSUME ChannelInv, WaitsInVain PROVE FALSE
      BY DEF NoPermitDeadlock
  <2>1. /\ acc \in Nat /\ ChannelBatched \in Nat /\ InputBatched \in Nat
        /\ ChannelBatched < acc /\ acc < InputBatched
        BY DrainedShort, ChannelAssumption DEF StarvedOnlyByBatch, ChannelInv, PCTypeOK
  <2> QED  BY <2>1
<1> QED  BY <1>1, PermitsAreAccounted, PTL

=============================================================================
