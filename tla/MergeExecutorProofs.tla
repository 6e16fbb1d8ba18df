------------------------- MODULE MergeExecutorProofs -------------------------
(***************************************************************************)
(* The merge executor for any set of upstream actors, any number of        *)
(* barriers and watermarks: barriers are aligned, epochs are not mixed,    *)
(* the upstream set follows the updates, and watermarks are handed on when *)
(* and only when every upstream promised them.                             *)
(***************************************************************************)
EXTENDS MergeExecutor, WellFoundedInduction, TLAPS

------------------------------------------------------------------------------
(* Queues. *)

\* Elements of a queue after a message is appended.
LEMMA AppendElements ==
  ASSUME NEW S, NEW q \in Seq(S), NEW m \in S
  PROVE  /\ Append(q, m) \in Seq(S)
         /\ Len(Append(q, m)) = Len(q) + 1
         /\ \A i \in 1 .. Len(q) : Append(q, m)[i] = q[i]
         /\ Append(q, m)[Len(q) + 1] = m
         /\ Len(q) \in Nat
OBVIOUS

\* Elements of a queue after its head is taken.
LEMMA TailElements ==
  ASSUME NEW S, NEW q \in Seq(S), q # <<>>
  PROVE  /\ Tail(q) \in Seq(S)
         /\ Len(Tail(q)) = Len(q) - 1
         /\ Len(q) \in Nat /\ Len(q) >= 1
         /\ \A i \in 1 .. Len(q) - 1 : Tail(q)[i] = q[i + 1]
         /\ Head(q) = q[1]
         /\ Head(q) \in S
OBVIOUS

------------------------------------------------------------------------------
(* The inductive invariant. *)

MaybeFragment == Fragments \cup {NoFragment}
Updates == [from : MaybeFragment, to : MaybeFragment,
            add : SUBSET Actors, remove : SUBSET Actors]
Barriers == [upd : Updates, stop : BOOLEAN, disp : SUBSET Actors]

Rows == [kind : {"row"}, epoch : Nat]
Watermarks == [kind : {"watermark"}, val : 1 .. MaxWatermark]
AlignedBarriers == [kind : {"barrier"}, epoch : Nat]
Messages == Rows \cup Watermarks \cup AlignedBarriers
Items == {NoItem} \cup AlignedBarriers \cup Watermarks
           \cup [kind : {"heap"}, val : 0 .. MaxWatermark]

TypeInv ==
  /\ injected \in Seq(Barriers) /\ Len(injected) <= MaxEpoch
  /\ plan \in Seq(SUBSET Actors) /\ Len(plan) = Len(injected) + 1
  /\ metaFragment \in Fragments
  /\ chan \in [Actors -> Seq(Messages)]
  /\ upNext \in [Actors -> Nat]
  /\ wmSent \in [Actors -> 0 .. MaxWatermark]
  /\ connected \subseteq Actors
  /\ fetched \in Nat /\ creating \in Nat
  /\ buffer \in Seq([epoch : Nat, inputs : SUBSET Actors])
  /\ bufFragment \in Fragments /\ fragment \in Fragments
  /\ active \subseteq Actors /\ blocked \subseteq Actors /\ active \cap blocked = {}
  /\ aligning \in Nat /\ emitted \in Nat
  /\ first \in [Actors -> 0 .. MaxWatermark]
  /\ staged \in [Actors -> Seq(1 .. MaxWatermark)]
  /\ \A u \in Actors : Len(staged[u]) <= StagedCap
  /\ wmRead \in [Actors -> 0 .. MaxWatermark]
  /\ builder \in Seq(Rows)
  /\ item \in Items
  /\ inEpoch \in BOOLEAN
  /\ status \in {"running", "stopped", "failed"}

\* What an update makes of the upstreams P.
Updated(P, upd) == IF upd.to # NoFragment THEN upd.add ELSE (P \cup upd.add) \ upd.remove

\* The updates of the barriers injected so far are a history of the upstream
\* set, and frag is the one of the upstream fragment.  New upstreams are new.
History(frag) ==
  \A k \in 1 .. Len(injected) :
    LET b == injected[k]
    IN  /\ b.upd # NoUpdate => b.upd.from = frag[k - 1]
        /\ frag[k] = IF b.upd.to = NoFragment THEN frag[k - 1] ELSE b.upd.to
        /\ plan[k + 1] = Updated(plan[k], b.upd)
        /\ b.disp \in {{}, plan[k]}
        /\ b.stop => b.upd = NoUpdate
        /\ b.upd.add \cap b.upd.remove = {}
        /\ \A u \in b.upd.add : upNext[u] >= k /\ \A i \in 1 .. k : u \notin plan[i]

\* The meta node, the barrier buffer and the executor are at three places of
\* that history.
Places(frag) ==
  /\ frag[Len(injected)] = metaFragment
  /\ frag[fetched] = bufFragment
  /\ frag[emitted] = fragment

FragmentsFollowed ==
  \E frag \in [0 .. MaxEpoch -> Fragments] : History(frag) /\ Places(frag)

\* Actors exist from the barrier that adds them on.
Lives ==
  /\ \A u \in Actors : upNext[u] <= Len(injected) + 1 /\ (upNext[u] = 0 => chan[u] = <<>>)
  /\ \A k \in 1 .. Len(plan) : \A u \in plan[k] : upNext[u] > 0
  /\ \A u \in connected : upNext[u] > 0

\* The barriers fetched and not handed on are in the buffer, in order, but for
\* the one whose inputs are being created.
BufferInv ==
  /\ emitted <= fetched /\ fetched <= Len(injected)
  /\ creating # 0 => /\ creating = fetched /\ creating > emitted
                     /\ injected[creating].upd.add # {}
  /\ Len(buffer) = fetched - emitted - (IF creating = 0 THEN 0 ELSE 1)
  /\ \A i \in 1 .. Len(buffer) :
       buffer[i] = [epoch |-> emitted + i, inputs |-> injected[emitted + i].upd.add]

\* Alignment is about the next barrier only, and rows of the open epoch only
\* are in the builder.
AlignInv ==
  /\ Upstreams = plan[emitted + 1]
  /\ aligning = IF blocked = {} THEN 0 ELSE emitted + 1
  /\ blocked # {} => active # {}
  /\ item.kind = "barrier" => /\ item.epoch = emitted + 1
                              /\ blocked = {} /\ active # {} /\ builder = <<>>
  /\ Upstreams = {} => builder = <<>> /\ item = NoItem
  /\ \A i \in 1 .. Len(builder) : builder[i].epoch = emitted + 1
  /\ inEpoch
  /\ status # "failed"

\* Queue q holds what an upstream sent between its barriers r and n: all of
\* these barriers from r on and below n, and rows of the epochs they end.
ChanOk(q, r, n) ==
  /\ r <= n
  /\ \A i \in 1 .. Len(q) :
       /\ q[i].kind = "row" => r <= q[i].epoch /\ q[i].epoch <= n
       /\ q[i].kind = "barrier" => r <= q[i].epoch /\ q[i].epoch < n
  /\ \A e \in r .. n - 1 : \E i \in 1 .. Len(q) : q[i].kind = "barrier" /\ q[i].epoch = e
  /\ \A i, j \in 1 .. Len(q) : i < j =>
       /\ q[i].kind = "barrier" /\ q[j].kind = "barrier" => q[i].epoch < q[j].epoch
       /\ q[i].kind = "row" /\ q[j].kind = "barrier" => q[i].epoch <= q[j].epoch
       /\ q[i].kind = "barrier" /\ q[j].kind = "row" => q[i].epoch < q[j].epoch

\* The barrier that comes next from an upstream that is read.
NextRead(u) ==
  IF u \in blocked \/ item.kind = "barrier" THEN emitted + 2 ELSE emitted + 1

\* The channel of an upstream that joins with barrier e: not used yet, opened by
\* this barrier, or read up to it.
JoinOk(u, e) ==
  IF e > fetched THEN u \notin connected /\ upNext[u] = e /\ chan[u] = <<>>
  ELSE IF e = creating
       THEN \/ upNext[u] = e /\ chan[u] = <<>>
            \/ /\ upNext[u] > e /\ ChanOk(chan[u], e, upNext[u])
               /\ chan[u] # <<>> /\ chan[u][1] = BarrierOf(e)
       ELSE upNext[u] > e /\ ChanOk(chan[u], e + 1, upNext[u])

ChanInv ==
  /\ \A u \in Upstreams : ChanOk(chan[u], NextRead(u), upNext[u])
  /\ \A e \in emitted + 1 .. Len(injected) : \A u \in injected[e].upd.add : JoinOk(u, e)

\* Barriers after which an upstream's watermarks start again.
RescaleEpochs == {e \in 1 .. Len(injected) : Rescales(injected[e])}

\* No barrier of R is among q[i], ..., q[j].
Level(R, q, i, j) ==
  \A k \in i .. j : k \in 1 .. Len(q) /\ q[k].kind = "barrier" => q[k].epoch \notin R

\* Between two barriers of R the watermarks in q increase, from above lo to hi.
WmOk(R, q, lo, hi) ==
  /\ Level(R, q, 1, Len(q)) => lo <= hi
  /\ \A j \in 1 .. Len(q) : q[j].kind = "watermark" =>
       /\ Level(R, q, 1, j) => lo < q[j].val
       /\ Level(R, q, j, Len(q)) => q[j].val <= hi
       /\ \A i \in 1 .. j - 1 :
            q[i].kind = "watermark" /\ Level(R, q, i, j) => q[i].val < q[j].val

\* The watermark that the next one of an upstream is above.
WmBase(u) ==
  IF NextRead(u) = emitted + 2 /\ emitted + 1 \in RescaleEpochs THEN 0 ELSE wmRead[u]

WatermarkInv ==
  /\ \A u \in Upstreams : WmOk(RescaleEpochs, chan[u], WmBase(u), wmSent[u])
  /\ \A e \in emitted + 1 .. Len(injected) : \A u \in injected[e].upd.add :
       WmOk(RescaleEpochs, chan[u], 0, wmSent[u])
  /\ \A u \in Upstreams :
       /\ first[u] <= wmRead[u]
       /\ \A i \in 1 .. Len(staged[u]) : staged[u][i] <= wmRead[u]
  /\ item.kind \in {"heap", "watermark"} => \A u \in Upstreams : wmRead[u] >= item.val
  /\ item.kind # "heap" /\ Upstreams # {} => \E u \in Upstreams : first[u] = 0

MInv ==
  /\ TypeInv /\ FragmentsFollowed /\ Lives /\ BufferInv /\ AlignInv
  /\ ChanInv /\ WatermarkInv

------------------------------------------------------------------------------
(* Queues. *)

\* Data that an upstream appends is of the epoch it is in.
LEMMA ChanAppendData ==
  ASSUME NEW q \in Seq(Messages), NEW m \in Messages, NEW r \in Nat, NEW n \in Nat,
         ChanOk(q, r, n),
         m.kind # "barrier", m.kind = "row" => m.epoch = n
  PROVE  ChanOk(Append(q, m), r, n)
<1> DEFINE p == Append(q, m)
<1>1. /\ Len(p) = Len(q) + 1 /\ Len(q) \in Nat /\ p[Len(q) + 1] = m
      /\ \A i \in 1 .. Len(q) : p[i] = q[i]
      BY AppendElements
<1>2. \A i \in 1 .. Len(p) : (i \in 1 .. Len(q) /\ p[i] = q[i]) \/ (i = Len(q) + 1 /\ p[i] = m)
      BY <1>1
<1>3. \A i \in 1 .. Len(q) : i \in 1 .. Len(p)
      BY <1>1
<1> HIDE DEF p
<1>4. \A i \in 1 .. Len(p) :
        /\ p[i].kind = "row" => r <= p[i].epoch /\ p[i].epoch <= n
        /\ p[i].kind = "barrier" => r <= p[i].epoch /\ p[i].epoch < n
      BY <1>2 DEF ChanOk
<1>5. \A e \in r .. n - 1 : \E i \in 1 .. Len(p) : p[i].kind = "barrier" /\ p[i].epoch = e
  <2> TAKE e \in r .. n - 1
  <2>1. PICK i \in 1 .. Len(q) : q[i].kind = "barrier" /\ q[i].epoch = e
        BY DEF ChanOk
  <2> QED  BY <1>1, <1>3, <2>1
<1>6. ASSUME NEW i \in 1 .. Len(p), NEW j \in 1 .. Len(p), i < j
      PROVE  /\ p[i].kind = "barrier" /\ p[j].kind = "barrier" => p[i].epoch < p[j].epoch
             /\ p[i].kind = "row" /\ p[j].kind = "barrier" => p[i].epoch <= p[j].epoch
             /\ p[i].kind = "barrier" /\ p[j].kind = "row" => p[i].epoch < p[j].epoch
  <2>1. i \in 1 .. Len(q) /\ p[i] = q[i]
        BY <1>1, <1>6
  <2>2. CASE j = Len(q) + 1
        BY <1>1, <2>1, <2>2 DEF ChanOk
  <2>3. CASE j # Len(q) + 1
    <3>1. j \in 1 .. Len(q) /\ p[j] = q[j]
          BY <1>1, <2>3
    <3> QED  BY <1>6, <2>1, <3>1 DEF ChanOk
  <2> QED  BY <2>2, <2>3
<1> QED  BY <1>4, <1>5, <1>6 DEF ChanOk, p

\* The barrier that an upstream appends ends its epoch.
LEMMA ChanAppendBarrier ==
  ASSUME NEW q \in Seq(Messages), NEW r \in Nat, NEW n \in Nat, ChanOk(q, r, n)
  PROVE  ChanOk(Append(q, BarrierOf(n)), r, n + 1)
<1> DEFINE m == BarrierOf(n)
           p == Append(q, m)
<1>0. m \in Messages /\ m.kind = "barrier" /\ m.epoch = n
      BY DEF BarrierOf, Messages, AlignedBarriers
<1>1. /\ Len(p) = Len(q) + 1 /\ Len(q) \in Nat /\ p[Len(q) + 1] = m
      /\ \A i \in 1 .. Len(q) : p[i] = q[i]
      BY <1>0, AppendElements
<1>2. \A i \in 1 .. Len(p) : (i \in 1 .. Len(q) /\ p[i] = q[i]) \/ (i = Len(q) + 1 /\ p[i] = m)
      BY <1>1
<1>3. \A i \in 1 .. Len(q) : i \in 1 .. Len(p)
      BY <1>1
<1>q. \A i \in 1 .. Len(q) : q[i] \in Messages
      OBVIOUS
<1> HIDE DEF p, m
<1>4. \A i \in 1 .. Len(p) :
        /\ p[i].kind = "row" => r <= p[i].epoch /\ p[i].epoch <= n + 1
        /\ p[i].kind = "barrier" => r <= p[i].epoch /\ p[i].epoch < n + 1
      BY <1>0, <1>2, <1>q DEF ChanOk, Messages, Rows, Watermarks, AlignedBarriers
<1>5. \A e \in r .. (n + 1) - 1 : \E i \in 1 .. Len(p) : p[i].kind = "barrier" /\ p[i].epoch = e
  <2> TAKE e \in r .. (n + 1) - 1
  <2>1. CASE e = n
        BY <1>0, <1>1, <2>1
  <2>2. CASE e # n
    <3>1. e \in r .. n - 1
          BY <2>2
    <3>2. PICK i \in 1 .. Len(q) : q[i].kind = "barrier" /\ q[i].epoch = e
          BY <3>1 DEF ChanOk
    <3> QED  BY <1>1, <1>3, <3>2
  <2> QED  BY <2>1, <2>2
<1>6. ASSUME NEW i \in 1 .. Len(p), NEW j \in 1 .. Len(p), i < j
      PROVE  /\ p[i].kind = "barrier" /\ p[j].kind = "barrier" => p[i].epoch < p[j].epoch
             /\ p[i].kind = "row" /\ p[j].kind = "barrier" => p[i].epoch <= p[j].epoch
             /\ p[i].kind = "barrier" /\ p[j].kind = "row" => p[i].epoch < p[j].epoch
  <2>1. i \in 1 .. Len(q) /\ p[i] = q[i]
        BY <1>1, <1>6
  <2>2. CASE j = Len(q) + 1
        BY <1>0, <1>1, <2>1, <2>2 DEF ChanOk
  <2>3. CASE j # Len(q) + 1
    <3>1. j \in 1 .. Len(q) /\ p[j] = q[j]
          BY <1>1, <2>3
    <3> QED  BY <1>6, <2>1, <3>1 DEF ChanOk
  <2> QED  BY <2>2, <2>3
<1>7. ChanOk(p, r, n + 1)
      BY <1>4, <1>5, <1>6 DEF ChanOk
<1> QED  BY <1>7 DEF p, m

\* The head of a channel is of the oldest epoch in it, and only a barrier at
\* the head ends that epoch.
LEMMA ChanTail ==
  ASSUME NEW q \in Seq(Messages), q # <<>>, NEW r \in Nat, NEW n \in Nat, ChanOk(q, r, n)
  PROVE  /\ Head(q).kind = "row" => Head(q).epoch = r
         /\ Head(q).kind = "barrier" =>
              Head(q).epoch = r /\ r < n /\ ChanOk(Tail(q), r + 1, n)
         /\ Head(q).kind # "barrier" => ChanOk(Tail(q), r, n)
<1> DEFINE p == Tail(q)
           s == IF q[1].kind = "barrier" THEN r + 1 ELSE r
<1>1. /\ Len(p) = Len(q) - 1 /\ Len(q) \in Nat /\ Len(q) >= 1 /\ Head(q) = q[1]
      /\ \A i \in 1 .. Len(p) : p[i] = q[i + 1] /\ i + 1 \in 1 .. Len(q)
      BY TailElements
<1>q. \A i \in 1 .. Len(q) : q[i] \in Messages
      OBVIOUS
<1>2. 1 \in 1 .. Len(q) /\ \A i \in 1 .. Len(q) : i = 1 \/ (1 < i /\ i - 1 \in 1 .. Len(p))
      BY <1>1
<1> HIDE DEF p
<1>3. r < n => \E i \in 1 .. Len(q) : q[i].kind = "barrier" /\ q[i].epoch = r
      BY DEF ChanOk
<1>4. q[1].kind = "barrier" => q[1].epoch = r /\ r < n
  <2> SUFFICES ASSUME q[1].kind = "barrier" PROVE q[1].epoch = r /\ r < n
      OBVIOUS
  <2>0. q[1].epoch \in Nat
        BY <1>2, <1>q DEF Messages, Rows, Watermarks, AlignedBarriers
  <2>1. r <= q[1].epoch /\ q[1].epoch < n
        BY <1>2 DEF ChanOk
  <2>2. r < n
        BY <2>0, <2>1
  <2>3. PICK i \in 1 .. Len(q) : q[i].kind = "barrier" /\ q[i].epoch = r
        BY <2>2, <1>3
  <2>4. i = 1 \/ q[1].epoch < q[i].epoch
        BY <1>2, <2>3 DEF ChanOk
  <2> QED  BY <2>0, <2>1, <2>2, <2>3, <2>4
<1>5. q[1].kind = "row" => q[1].epoch = r
  <2> SUFFICES ASSUME q[1].kind = "row" PROVE q[1].epoch = r
      OBVIOUS
  <2>0. q[1].epoch \in Nat
        BY <1>2, <1>q DEF Messages, Rows, Watermarks, AlignedBarriers
  <2>1. r <= q[1].epoch /\ q[1].epoch <= n /\ r <= n
        BY <1>2 DEF ChanOk
  <2>2. CASE r = n
        BY <2>0, <2>1, <2>2
  <2>3. CASE r < n
    <3>1. PICK i \in 1 .. Len(q) : q[i].kind = "barrier" /\ q[i].epoch = r
          BY <2>3, <1>3
    <3>2. 1 < i
          BY <1>2, <3>1
    <3>3. q[1].epoch <= q[i].epoch
          BY <1>2, <3>1, <3>2 DEF ChanOk
    <3> QED  BY <2>0, <2>1, <3>1, <3>3
  <2> QED  BY <2>1, <2>2, <2>3
<1>6. ChanOk(p, s, n)
  <2>1. s \in Nat /\ s <= n /\ r <= s
        BY <1>4 DEF ChanOk
  <2>2. ASSUME NEW i \in 1 .. Len(p)
        PROVE  /\ p[i].kind = "row" => s <= p[i].epoch /\ p[i].epoch <= n
               /\ p[i].kind = "barrier" => s <= p[i].epoch /\ p[i].epoch < n
    <3>1. p[i] = q[i + 1] /\ i + 1 \in 1 .. Len(q) /\ 1 < i + 1
          BY <1>1
    <3>2. p[i] \in Messages
          BY <3>1, <1>q
    <3>3. /\ p[i].kind = "row" => r <= p[i].epoch /\ p[i].epoch <= n
          /\ p[i].kind = "barrier" => r <= p[i].epoch /\ p[i].epoch < n
          BY <3>1 DEF ChanOk
    <3>4. q[1].kind = "barrier" /\ p[i].kind \in {"row", "barrier"} => q[1].epoch < p[i].epoch
          BY <1>2, <3>1 DEF ChanOk
    <3> QED  BY <1>4, <3>2, <3>3, <3>4 DEF Messages, Rows, Watermarks, AlignedBarriers
  <2>3. ASSUME NEW e \in s .. n - 1
        PROVE  \E i \in 1 .. Len(p) : p[i].kind = "barrier" /\ p[i].epoch = e
    <3>1. e \in r .. n - 1
          BY <2>1
    <3>2. PICK i \in 1 .. Len(q) : q[i].kind = "barrier" /\ q[i].epoch = e
          BY <3>1 DEF ChanOk
    <3>3. i # 1
          BY <1>4, <3>2
    <3>4. i - 1 \in 1 .. Len(p) /\ (i - 1) + 1 = i
          BY <1>2, <3>3
    <3>5. p[i - 1] = q[i]
          BY <1>1, <3>4
    <3> QED  BY <3>2, <3>4, <3>5
  <2>4. ASSUME NEW i \in 1 .. Len(p), NEW j \in 1 .. Len(p), i < j
        PROVE  /\ p[i].kind = "barrier" /\ p[j].kind = "barrier" => p[i].epoch < p[j].epoch
               /\ p[i].kind = "row" /\ p[j].kind = "barrier" => p[i].epoch <= p[j].epoch
               /\ p[i].kind = "barrier" /\ p[j].kind = "row" => p[i].epoch < p[j].epoch
    <3>1. /\ p[i] = q[i + 1] /\ i + 1 \in 1 .. Len(q)
          /\ p[j] = q[j + 1] /\ j + 1 \in 1 .. Len(q) /\ i + 1 < j + 1
          BY <1>1, <2>4
    <3> QED  BY <3>1 DEF ChanOk
  <2> HIDE DEF s
  <2> QED  BY <2>1, <2>2, <2>3, <2>4 DEF ChanOk
<1> QED  BY <1>1, <1>4, <1>5, <1>6 DEF p

\* What is appended goes on with the watermarks, or starts them again.
LEMMA WmAppend ==
  ASSUME NEW R, NEW q \in Seq(Messages), NEW m \in Messages,
         NEW lo \in Nat, NEW hi \in Nat, NEW new \in Nat,
         WmOk(R, q, lo, hi),
         \/ m.kind = "barrier" /\ m.epoch \in R
         \/ hi <= new /\ (m.kind = "watermark" => hi < m.val /\ m.val <= new)
  PROVE  WmOk(R, Append(q, m), lo, new)
<1> DEFINE p == Append(q, m)
<1>1. /\ Len(p) = Len(q) + 1 /\ Len(q) \in Nat /\ p[Len(q) + 1] = m
      /\ \A i \in 1 .. Len(q) : p[i] = q[i]
      BY AppendElements
<1>q. \A i \in 1 .. Len(q) : q[i] \in Messages
      OBVIOUS
<1> HIDE DEF p
<1>2. ASSUME NEW i \in Nat, NEW j \in 1 .. Len(q), Level(R, p, i, j)
      PROVE  Level(R, q, i, j)
      BY <1>1, <1>2 DEF Level
<1>3. ASSUME NEW i \in Nat, Level(R, p, i, Len(p))
      PROVE  Level(R, q, i, Len(q))
      BY <1>1, <1>3 DEF Level
<1>4. ASSUME NEW i \in Nat, i <= Len(p), Level(R, p, i, Len(p))
      PROVE  hi <= new /\ (m.kind = "watermark" => hi < m.val /\ m.val <= new)
  <2>1. ~(m.kind = "barrier" /\ m.epoch \in R)
        BY <1>1, <1>4 DEF Level
  <2> QED  BY <2>1
<1>5. Level(R, p, 1, Len(p)) => lo <= new
  <2> SUFFICES ASSUME Level(R, p, 1, Len(p)) PROVE lo <= new
      OBVIOUS
  <2>1. lo <= hi
        BY <1>3 DEF WmOk
  <2>2. hi <= new
        BY <1>1, <1>4
  <2> QED  BY <2>1, <2>2
<1>6. ASSUME NEW j \in 1 .. Len(p), p[j].kind = "watermark"
      PROVE  /\ Level(R, p, 1, j) => lo < p[j].val
             /\ Level(R, p, j, Len(p)) => p[j].val <= new
             /\ \A i \in 1 .. j - 1 :
                  p[i].kind = "watermark" /\ Level(R, p, i, j) => p[i].val < p[j].val
  <2>1. CASE j \in 1 .. Len(q)
    <3>1. p[j] = q[j] /\ p[j].val \in Nat
          BY <1>1, <1>6, <1>q, <2>1, MergeAssumption DEF Messages, Rows, Watermarks, AlignedBarriers
    <3>2. Level(R, p, 1, j) => lo < p[j].val
          BY <1>2, <1>6, <2>1, <3>1 DEF WmOk
    <3>3. ASSUME Level(R, p, j, Len(p)) PROVE p[j].val <= new
      <4>1. p[j].val <= hi
            BY <1>3, <1>6, <2>1, <3>1, <3>3 DEF WmOk
      <4>2. hi <= new
            BY <1>4, <3>3
      <4> QED  BY <3>1, <4>1, <4>2
    <3>4. ASSUME NEW i \in 1 .. j - 1, p[i].kind = "watermark", Level(R, p, i, j)
          PROVE  p[i].val < p[j].val
      <4>1. p[i] = q[i]
            BY <1>1, <2>1
      <4>2. Level(R, q, i, j)
            BY <1>2, <2>1, <3>4
      <4> QED  BY <1>6, <2>1, <3>1, <3>4, <4>1, <4>2 DEF WmOk
    <3> QED  BY <3>2, <3>3, <3>4
  <2>2. CASE j = Len(p)
    <3>1. p[j] = m /\ m.kind = "watermark" /\ m.val \in Nat
          BY <1>1, <1>6, <2>2, MergeAssumption DEF Messages, Rows, Watermarks, AlignedBarriers
    <3>2. hi < m.val /\ m.val <= new
          BY <3>1
    <3>3. Level(R, p, 1, j) => lo < p[j].val
      <4>1. Level(R, p, 1, j) => lo <= hi
            BY <1>3, <2>2 DEF WmOk
      <4> QED  BY <3>1, <3>2, <4>1
    <3>4. ASSUME NEW i \in 1 .. j - 1, p[i].kind = "watermark", Level(R, p, i, j)
          PROVE  p[i].val < p[j].val
      <4>1. i \in 1 .. Len(q) /\ p[i] = q[i]
            BY <1>1, <2>2
      <4>2. Level(R, q, i, Len(q))
            BY <1>3, <2>2, <3>4
      <4>3. p[i].val <= hi
            BY <3>4, <4>1, <4>2 DEF WmOk
      <4>4. p[i].val \in Nat
            BY <1>q, <3>4, <4>1, MergeAssumption DEF Messages, Rows, Watermarks, AlignedBarriers
      <4> QED  BY <3>1, <3>2, <4>3, <4>4
    <3> QED  BY <3>1, <3>2, <3>3, <3>4
  <2> QED  BY <1>1, <2>1, <2>2
<1>7. WmOk(R, p, lo, new)
      BY <1>5, <1>6 DEF WmOk
<1> QED  BY <1>7 DEF p

\* A watermark at the head is above the ones before it and below the ones that
\* follow, up to a barrier that starts them again.
LEMMA WmTail ==
  ASSUME NEW R, NEW q \in Seq(Messages), q # <<>>,
         NEW lo \in Nat, NEW hi \in Nat, NEW low \in Nat,
         WmOk(R, q, lo, hi),
         \/ low = 0
         \/ /\ ~(Head(q).kind = "barrier" /\ Head(q).epoch \in R)
            /\ low = IF Head(q).kind = "watermark" THEN Head(q).val ELSE lo
  PROVE  /\ WmOk(R, Tail(q), low, hi)
         /\ Head(q).kind = "watermark" => lo < Head(q).val
<1> DEFINE p == Tail(q)
<1>1. /\ Len(p) = Len(q) - 1 /\ Len(q) \in Nat /\ Len(q) >= 1 /\ Head(q) = q[1]
      /\ \A i \in 1 .. Len(p) : p[i] = q[i + 1] /\ i + 1 \in 1 .. Len(q)
      BY TailElements
<1>q. \A i \in 1 .. Len(q) : q[i] \in Messages
      OBVIOUS
<1> HIDE DEF p
<1>2. ASSUME NEW i \in 1 .. Len(p), NEW j \in 1 .. Len(p), Level(R, p, i, j)
      PROVE  Level(R, q, i + 1, j + 1)
  <2> SUFFICES ASSUME NEW k \in i + 1 .. j + 1, k \in 1 .. Len(q), q[k].kind = "barrier"
               PROVE  q[k].epoch \notin R
      BY DEF Level
  <2>1. k - 1 \in i .. j /\ k - 1 \in 1 .. Len(p) /\ (k - 1) + 1 = k
        BY <1>1
  <2>2. p[k - 1] = q[k]
        BY <1>1, <2>1
  <2> QED  BY <1>2, <2>1, <2>2 DEF Level
<1>3. ASSUME NEW j \in 0 .. Len(p), Level(R, p, 1, j), low # 0
      PROVE  Level(R, q, 1, j + 1)
  <2> SUFFICES ASSUME NEW k \in 1 .. j + 1, k \in 1 .. Len(q), q[k].kind = "barrier"
               PROVE  q[k].epoch \notin R
      BY DEF Level
  <2>1. CASE k = 1
        BY <1>1, <1>3, <2>1
  <2>2. CASE k # 1
    <3>1. k - 1 \in 1 .. j /\ k - 1 \in 1 .. Len(p) /\ (k - 1) + 1 = k
          BY <1>1, <2>2
    <3>2. p[k - 1] = q[k]
          BY <1>1, <3>1
    <3> QED  BY <1>3, <3>1, <3>2 DEF Level
  <2> QED  BY <2>1, <2>2
<1>4. q[1].kind = "watermark" => lo < q[1].val
  <2> SUFFICES ASSUME q[1].kind = "watermark" PROVE lo < q[1].val
      OBVIOUS
  <2>1. Level(R, q, 1, 1)
        BY <1>1 DEF Level
  <2> QED  BY <1>1, <2>1 DEF WmOk
<1>5. Level(R, p, 1, Len(p)) => low <= hi
  <2> SUFFICES ASSUME Level(R, p, 1, Len(p)), low # 0 PROVE low <= hi
      OBVIOUS
  <2>1. Level(R, q, 1, Len(q))
        BY <1>1, <1>3
  <2>2. CASE q[1].kind = "watermark"
        BY <1>1, <2>1, <2>2 DEF WmOk
  <2>3. CASE q[1].kind # "watermark"
        BY <1>1, <2>1, <2>3 DEF WmOk
  <2> QED  BY <2>2, <2>3
<1>6. ASSUME NEW j \in 1 .. Len(p), p[j].kind = "watermark"
      PROVE  /\ Level(R, p, 1, j) => low < p[j].val
             /\ Level(R, p, j, Len(p)) => p[j].val <= hi
             /\ \A i \in 1 .. j - 1 :
                  p[i].kind = "watermark" /\ Level(R, p, i, j) => p[i].val < p[j].val
  <2>1. p[j] = q[j + 1] /\ j + 1 \in 1 .. Len(q) /\ j \in Nat
        BY <1>1
  <2>0. p[j].val \in Nat /\ p[j].val > 0
        BY <1>6, <1>q, <2>1, MergeAssumption DEF Messages, Rows, Watermarks, AlignedBarriers
  <2>2. ASSUME Level(R, p, 1, j) PROVE low < p[j].val
    <3>1. CASE low = 0
          BY <2>0, <3>1
    <3>2. CASE low # 0
      <4>1. Level(R, q, 1, j + 1)
            BY <1>3, <2>2, <3>2
      <4>2. CASE q[1].kind = "watermark"
        <5>1. 1 \in 1 .. (j + 1) - 1
              BY <2>1
        <5> QED  BY <1>1, <1>6, <2>1, <3>2, <4>1, <4>2, <5>1 DEF WmOk
      <4>3. CASE q[1].kind # "watermark"
            BY <1>1, <1>6, <2>1, <3>2, <4>1, <4>3 DEF WmOk
      <4> QED  BY <4>2, <4>3
    <3> QED  BY <3>1, <3>2
  <2>3. ASSUME Level(R, p, j, Len(p)) PROVE p[j].val <= hi
    <3>1. Level(R, q, j + 1, Len(q))
      <4>1. Len(p) \in 1 .. Len(p) /\ Len(p) + 1 = Len(q)
            BY <1>1
      <4> QED  BY <1>2, <2>3, <4>1
    <3> QED  BY <1>6, <2>1, <3>1 DEF WmOk
  <2>4. ASSUME NEW i \in 1 .. j - 1, p[i].kind = "watermark", Level(R, p, i, j)
        PROVE  p[i].val < p[j].val
    <3>1. i \in 1 .. Len(p) /\ p[i] = q[i + 1] /\ i + 1 \in 1 .. (j + 1) - 1
          BY <1>1
    <3>2. Level(R, q, i + 1, j + 1)
          BY <1>2, <2>4, <3>1
    <3> QED  BY <1>6, <2>1, <2>4, <3>1, <3>2 DEF WmOk
  <2> QED  BY <2>2, <2>3, <2>4
<1>7. WmOk(R, p, low, hi)
      BY <1>5, <1>6 DEF WmOk
<1> QED  BY <1>1, <1>4, <1>7 DEF p

\* Only the barriers in the queue matter.
LEMMA WmSame ==
  ASSUME NEW R, NEW Q, NEW q \in Seq(Messages), NEW lo, NEW hi, WmOk(R, q, lo, hi),
         \A i \in 1 .. Len(q) : q[i].kind = "barrier" => (q[i].epoch \in R <=> q[i].epoch \in Q)
  PROVE  WmOk(Q, q, lo, hi)
<1>1. \A i, j \in Nat : Level(Q, q, i, j) => Level(R, q, i, j)
      BY DEF Level
<1>2. Len(q) \in Nat /\ \A i \in 1 .. Len(q) : i \in Nat
      OBVIOUS
<1>3. 1 \in Nat
      OBVIOUS
<1> QED  BY <1>1, <1>2, <1>3 DEF WmOk

------------------------------------------------------------------------------
(* Facts of a state. *)

\* An upstream that joins with a barrier was not one before, and joins once.
LEMMA AddsAreNew ==
  ASSUME TypeInv, FragmentsFollowed, NEW e \in 1 .. Len(injected),
         NEW u \in injected[e].upd.add
  PROVE  /\ u \in Actors
         /\ upNext[u] >= e
         /\ \A i \in 1 .. e : u \notin plan[i]
         /\ u \in plan[e + 1]
<1>1. PICK frag \in [0 .. MaxEpoch -> Fragments] : History(frag)
      BY DEF FragmentsFollowed
<1>2. injected[e] \in Barriers
      BY DEF TypeInv
<1>3. injected[e].upd \in Updates
      BY <1>2 DEF Barriers
<1>4. injected[e].upd.add \subseteq Actors
      BY <1>3 DEF Updates
<1> QED  BY <1>1, <1>4 DEF History, Updated

\* Two updates never add the same upstream.
LEMMA AddsOnce ==
  ASSUME TypeInv, FragmentsFollowed,
         NEW e \in 1 .. Len(injected), NEW f \in 1 .. Len(injected),
         NEW u \in injected[e].upd.add, u \in injected[f].upd.add
  PROVE  e = f
<1>0. e \in Int /\ f \in Int
      OBVIOUS
<1>1. CASE e < f
  <2>1. u \in plan[e + 1]
        BY AddsAreNew
  <2>2. e + 1 \in 1 .. f
        BY <1>1
  <2> QED  BY <2>1, <2>2, AddsAreNew
<1>2. CASE f < e
  <2>1. u \in plan[f + 1]
        BY AddsAreNew
  <2>2. f + 1 \in 1 .. e
        BY <1>2
  <2> QED  BY <2>1, <2>2, AddsAreNew
<1> QED  BY <1>0, <1>1, <1>2

\* The buffer and the executor both find the update of the next barrier.
LEMMA UpdateFound ==
  ASSUME MInv
  PROVE  /\ fetched < Len(injected) =>
              AsUpdateMerge(injected[fetched + 1], bufFragment) = injected[fetched + 1].upd
         /\ emitted < Len(injected) =>
              AsUpdateMerge(injected[emitted + 1], fragment) = injected[emitted + 1].upd
<1>1. PICK frag \in [0 .. MaxEpoch -> Fragments] : History(frag) /\ Places(frag)
      BY DEF MInv, FragmentsFollowed
<1>2. /\ fetched \in Nat /\ emitted \in Nat /\ Len(injected) \in Nat
      BY DEF MInv, TypeInv
<1>3. fetched < Len(injected) =>
        /\ fetched + 1 \in 1 .. Len(injected) /\ (fetched + 1) - 1 = fetched
      BY <1>2
<1>4. emitted < Len(injected) =>
        /\ emitted + 1 \in 1 .. Len(injected) /\ (emitted + 1) - 1 = emitted
      BY <1>2
<1>5. fetched < Len(injected) =>
        AsUpdateMerge(injected[fetched + 1], bufFragment) = injected[fetched + 1].upd
      BY <1>1, <1>3 DEF AsUpdateMerge, History, Places
<1>6. emitted < Len(injected) =>
        AsUpdateMerge(injected[emitted + 1], fragment) = injected[emitted + 1].upd
      BY <1>1, <1>4 DEF AsUpdateMerge, History, Places
<1> QED  BY <1>5, <1>6

\* The executor starts in a state of the invariant.
LEMMA InitMInv == Init => MInv
<1> SUFFICES ASSUME Init PROVE MInv
    OBVIOUS
<1> USE MergeAssumption DEF Init
<1>1. TypeInv
      BY DEF TypeInv, Items, NoItem
<1>2. FragmentsFollowed
  <2>1. [k \in 0 .. MaxEpoch |-> FirstFragment] \in [0 .. MaxEpoch -> Fragments]
        OBVIOUS
  <2>2. /\ History([k \in 0 .. MaxEpoch |-> FirstFragment])
        /\ Places([k \in 0 .. MaxEpoch |-> FirstFragment])
        BY DEF History, Places
  <2> QED  BY <2>1, <2>2 DEF FragmentsFollowed
<1>3. Lives
      BY DEF Lives
<1>4. BufferInv
      BY DEF BufferInv
<1>5. AlignInv
      BY DEF AlignInv, Upstreams, NoItem
<1>6. ChanInv
      BY DEF ChanInv, ChanOk, NextRead, Upstreams, NoItem
<1>7. WatermarkInv
      BY DEF WatermarkInv, WmOk, WmBase, Level, Upstreams, NoItem, NextRead
<1> QED  BY <1>1, <1>2, <1>3, <1>4, <1>5, <1>6, <1>7 DEF MInv

------------------------------------------------------------------------------
(* The meta node. *)

\* A barrier with an update of the upstream set as the meta node knows it goes
\* on with the history.
LEMMA InjectStep ==
  ASSUME MInv, NEW upd \in Updates, NEW wanted, InjectUpdate(upd, wanted),
         upd.add \subseteq Fresh, upd.add \cap upd.remove = {},
         upd # NoUpdate => upd.from = metaFragment,
         wanted = Updated(plan[Len(plan)], upd)
  PROVE  MInv'
<1> DEFINE n == Len(injected)
           b == injected'[n + 1]
<1> USE MergeAssumption
<1>1. /\ TypeInv /\ FragmentsFollowed /\ Lives /\ BufferInv /\ AlignInv
      /\ ChanInv /\ WatermarkInv
      BY DEF MInv
<1>2. /\ n \in Nat /\ n < MaxEpoch /\ Len(plan) = n + 1 /\ plan[n + 1] \in SUBSET Actors
      BY <1>1 DEF TypeInv, InjectUpdate
<1>3. PICK stop \in BOOLEAN, disp \in {{}, plan[n + 1]} :
        /\ stop => upd = NoUpdate
        /\ injected' = Append(injected, [upd |-> upd, stop |-> stop, disp |-> disp])
      BY <1>1, <1>2 DEF InjectUpdate, Last
<1>4. [upd |-> upd, stop |-> stop, disp |-> disp] \in Barriers
      BY <1>2, <1>3 DEF Barriers
<1>5. /\ injected' \in Seq(Barriers) /\ Len(injected') = n + 1
      /\ b = [upd |-> upd, stop |-> stop, disp |-> disp]
      /\ \A k \in 1 .. n : injected'[k] = injected[k]
      BY <1>1, <1>3, <1>4 DEF TypeInv
<1>6. upd.add \subseteq Actors /\ upd.remove \subseteq Actors /\ upd.to \in MaybeFragment
      BY DEF Updates
<1>7. wanted \subseteq Actors /\ wanted \subseteq plan[n + 1] \cup upd.add
      BY <1>2, <1>6 DEF Updated
<1>8. /\ plan' \in Seq(SUBSET Actors) /\ Len(plan') = n + 2
      /\ plan'[n + 2] = wanted /\ \A k \in 1 .. n + 1 : plan'[k] = plan[k]
      BY <1>1, <1>2, <1>7 DEF TypeInv, InjectUpdate
<1>9. /\ upNext' \in [Actors -> Nat]
      /\ \A u \in upd.add : upNext[u] = 0 /\ upNext'[u] = n + 1
      /\ \A u \in Actors : upNext[u] > 0 => u \notin upd.add /\ upNext'[u] = upNext[u]
      /\ \A u \in Actors : u \notin upd.add => upNext'[u] = upNext[u]
      BY <1>1, <1>2, <1>6 DEF TypeInv, InjectUpdate, Fresh
<1>10. metaFragment' \in Fragments
      BY <1>1, <1>6 DEF TypeInv, InjectUpdate, MaybeFragment
<1>11. UNCHANGED <<bufVars, execVars, wmSent, chan, connected, active, blocked,
                  aligning, first, staged, fragment, emitted, wmRead, status>>
      BY DEF InjectUpdate
<1> HIDE DEF b
<1>a. TypeInv'
      BY <1>1, <1>2, <1>5, <1>8, <1>9, <1>10, <1>11 DEF TypeInv, bufVars, execVars
<1>b. FragmentsFollowed'
  <2>1. PICK frag \in [0 .. MaxEpoch -> Fragments] : History(frag) /\ Places(frag)
        BY <1>1 DEF FragmentsFollowed
  <2>2. PICK g \in [0 .. MaxEpoch -> Fragments] :
          /\ g[n + 1] = metaFragment'
          /\ \A k \in 0 .. n : g[k] = frag[k]
    <3>1. [frag EXCEPT ![n + 1] = metaFragment'] \in [0 .. MaxEpoch -> Fragments]
          BY <1>10
    <3>2. [frag EXCEPT ![n + 1] = metaFragment'][n + 1] = metaFragment'
          BY <1>2
    <3>3. \A k \in 0 .. n : [frag EXCEPT ![n + 1] = metaFragment'][k] = frag[k]
          BY <1>2
    <3> QED  BY <3>1, <3>2, <3>3
  <2>3. fetched \in 0 .. n /\ emitted \in 0 .. n
        BY <1>1 DEF TypeInv, BufferInv
  <2>4. Places(g)'
        BY <1>5, <1>11, <2>1, <2>2, <2>3 DEF Places, bufVars
  <2>5. ASSUME NEW k \in 1 .. n
        PROVE  /\ injected'[k].upd # NoUpdate => injected'[k].upd.from = g[k - 1]
               /\ g[k] = IF injected'[k].upd.to = NoFragment THEN g[k - 1]
                         ELSE injected'[k].upd.to
               /\ plan'[k + 1] = Updated(plan'[k], injected'[k].upd)
               /\ injected'[k].disp \in {{}, plan'[k]}
               /\ injected'[k].stop => injected'[k].upd = NoUpdate
               /\ injected'[k].upd.add \cap injected'[k].upd.remove = {}
               /\ \A u \in injected'[k].upd.add :
                    upNext'[u] >= k /\ \A i \in 1 .. k : u \notin plan'[i]
    <3>1. /\ injected'[k] = injected[k] /\ g[k] = frag[k] /\ g[k - 1] = frag[k - 1]
          /\ plan'[k] = plan[k] /\ plan'[k + 1] = plan[k + 1]
          /\ \A i \in 1 .. k : plan'[i] = plan[i]
          BY <1>2, <1>5, <1>8, <2>2
    <3>2. \A u \in injected[k].upd.add : u \in Actors /\ upNext[u] >= k
          BY <1>1, AddsAreNew
    <3>3. \A u \in injected[k].upd.add : upNext'[u] >= k
      <4> TAKE u \in injected[k].upd.add
      <4>0. u \in Actors /\ upNext[u] >= k
            BY <3>2
      <4>1. upNext[u] \in Nat /\ k \in Nat /\ k > 0
            BY <1>1, <4>0 DEF TypeInv
      <4>2. upNext'[u] = upNext[u]
            BY <1>9, <4>0, <4>1
      <4> QED  BY <4>0, <4>2
    <3> QED  BY <2>1, <3>1, <3>3 DEF History
  <2>6. /\ b.upd # NoUpdate => b.upd.from = g[n]
        /\ g[n + 1] = IF b.upd.to = NoFragment THEN g[n] ELSE b.upd.to
        /\ plan'[n + 2] = Updated(plan'[n + 1], b.upd)
        /\ b.disp \in {{}, plan'[n + 1]}
        /\ b.stop => b.upd = NoUpdate
        /\ b.upd.add \cap b.upd.remove = {}
    <3>1. g[n] = metaFragment
          BY <1>2, <2>1, <2>2 DEF Places
    <3>2. b.upd = upd /\ b.stop = stop /\ b.disp = disp
          BY <1>5
    <3>3. g[n + 1] = IF upd.to = NoFragment THEN metaFragment ELSE upd.to
          BY <2>2 DEF InjectUpdate
    <3> QED  BY <1>2, <1>3, <1>8, <3>1, <3>2, <3>3
  <2>7. \A u \in b.upd.add : upNext'[u] >= n + 1 /\ \A i \in 1 .. n + 1 : u \notin plan'[i]
    <3>1. b.upd = upd
          BY <1>5
    <3>2. \A i \in 1 .. n + 1 : \A u \in plan[i] : upNext[u] > 0
          BY <1>1, <1>2 DEF Lives
    <3> QED  BY <1>2, <1>8, <1>9, <3>1, <3>2
  <2>8. History(g)'
    <3> SUFFICES ASSUME NEW k \in 1 .. n + 1
                 PROVE  /\ injected'[k].upd # NoUpdate => injected'[k].upd.from = g[k - 1]
                        /\ g[k] = IF injected'[k].upd.to = NoFragment THEN g[k - 1]
                                  ELSE injected'[k].upd.to
                        /\ plan'[k + 1] = Updated(plan'[k], injected'[k].upd)
                        /\ injected'[k].disp \in {{}, plan'[k]}
                        /\ injected'[k].stop => injected'[k].upd = NoUpdate
                        /\ injected'[k].upd.add \cap injected'[k].upd.remove = {}
                        /\ \A u \in injected'[k].upd.add :
                             upNext'[u] >= k /\ \A i \in 1 .. k : u \notin plan'[i]
        BY <1>5 DEF History
    <3>1. CASE k \in 1 .. n
          BY <2>5, <3>1
    <3>2. CASE k = n + 1
      <4>1. (n + 1) - 1 = n /\ (n + 1) + 1 = n + 2
            BY <1>2
      <4> QED  BY <2>6, <2>7, <3>2, <4>1 DEF b
    <3> QED  BY <1>2, <3>1, <3>2
  <2> QED  BY <2>2, <2>4, <2>8 DEF FragmentsFollowed
<1>c. Lives'
  <2>1. \A u \in Actors : upNext'[u] <= n + 2 /\ (upNext'[u] = 0 => chan'[u] = <<>>)
    <3> TAKE u \in Actors
    <3>1. upNext[u] \in Nat /\ upNext[u] <= n + 1 /\ (upNext[u] = 0 => chan[u] = <<>>)
          BY <1>1 DEF Lives, TypeInv
    <3>2. upNext'[u] = upNext[u] \/ upNext'[u] = n + 1
          BY <1>9
    <3> QED  BY <1>2, <1>11, <3>1, <3>2
  <2>2. \A k \in 1 .. n + 2 : \A u \in plan'[k] : upNext'[u] > 0
    <3> SUFFICES ASSUME NEW k \in 1 .. n + 2, NEW u \in plan'[k] PROVE upNext'[u] > 0
        OBVIOUS
    <3>1. u \in upd.add \/ upNext[u] > 0
          BY <1>1, <1>2, <1>7, <1>8 DEF Lives
    <3>2. u \in Actors
          BY <1>2, <1>8
    <3> QED  BY <1>2, <1>9, <3>1, <3>2
  <2>3. \A u \in connected : u \in Actors /\ upNext'[u] > 0
        BY <1>1, <1>9 DEF Lives, TypeInv
  <2> QED  BY <1>2, <1>5, <1>8, <1>11, <2>1, <2>2, <2>3 DEF Lives
<1>d. BufferInv'
  <2>1. emitted \in Nat /\ fetched \in Nat /\ creating \in Nat /\ Len(buffer) \in Nat
        BY <1>1 DEF TypeInv
  <2>2. \A i \in 1 .. Len(buffer) : emitted + i \in 1 .. n
        BY <1>1, <1>2, <2>1 DEF BufferInv
  <2> QED  BY <1>1, <1>2, <1>5, <1>11, <2>1, <2>2 DEF BufferInv, bufVars
<1>e. AlignInv'
  <2>1. emitted + 1 \in 1 .. n + 1
        BY <1>1, <1>2 DEF BufferInv, TypeInv
  <2> QED  BY <1>1, <1>8, <1>11, <2>1 DEF AlignInv, Upstreams, execVars
<1>8a. \A u \in Upstreams : u \in Actors /\ upNext[u] > 0 /\ upNext'[u] = upNext[u]
  <2>1. emitted + 1 \in 1 .. Len(plan)
        BY <1>1, <1>2 DEF BufferInv, TypeInv
  <2> QED  BY <1>1, <1>9, <2>1 DEF AlignInv, Lives, TypeInv, Upstreams
<1>8b. \A e \in emitted + 1 .. n : \A u \in injected[e].upd.add :
         u \in Actors /\ upNext[u] >= e /\ upNext'[u] = upNext[u]
  <2>1. \A e \in emitted + 1 .. n : e \in 1 .. n
        BY <1>1 DEF TypeInv
  <2> TAKE e \in emitted + 1 .. n
  <2> TAKE u \in injected[e].upd.add
  <2>2. u \in Actors /\ upNext[u] >= e /\ e >= 1 /\ e \in Nat
        BY <1>1, <2>1, AddsAreNew
  <2>3. upNext[u] \in Nat
        BY <1>1, <2>2 DEF TypeInv
  <2> QED  BY <1>9, <2>2, <2>3
<1>8c. \A u \in upd.add : chan[u] = <<>> /\ u \notin connected
      BY <1>1, <1>6, <1>9 DEF Lives
<1>f. ChanInv'
  <2>1. \A u \in Upstreams : ChanOk(chan[u], NextRead(u), upNext'[u])
        BY <1>1, <1>8a DEF ChanInv
  <2>2. ASSUME NEW e \in emitted + 1 .. n + 1, NEW u \in injected'[e].upd.add
        PROVE  JoinOk(u, e)'
    <3>1. CASE e \in emitted + 1 .. n
      <4>1. u \in injected[e].upd.add
            BY <1>1, <1>5, <3>1 DEF TypeInv
      <4> QED  BY <1>1, <1>8b, <1>11, <3>1, <4>1 DEF ChanInv, JoinOk, bufVars
    <3>2. CASE e = n + 1
      <4>1. u \in upd.add
            BY <1>5, <3>2 DEF b
      <4>2. e > fetched
            BY <1>1, <1>2, <3>2 DEF BufferInv, TypeInv
      <4> QED  BY <1>8c, <1>9, <1>11, <3>2, <4>1, <4>2 DEF JoinOk, bufVars
    <3> QED  BY <1>1, <1>2, <3>1, <3>2 DEF TypeInv
  <2>3. Upstreams' = Upstreams /\ \A u : NextRead(u)' = NextRead(u)
        BY <1>11 DEF Upstreams, NextRead, execVars
  <2> QED  BY <1>5, <1>11, <2>1, <2>2, <2>3 DEF ChanInv
<1>g. WatermarkInv'
  <2>1. \A e \in 1 .. n : e \in RescaleEpochs <=> e \in RescaleEpochs'
        BY <1>2, <1>5 DEF RescaleEpochs
  <2>2. ASSUME NEW u \in Actors, NEW r \in Nat, r >= 1, ChanOk(chan[u], r, upNext[u]),
               NEW lo, WmOk(RescaleEpochs, chan[u], lo, wmSent[u])
        PROVE  WmOk(RescaleEpochs', chan[u], lo, wmSent[u])
    <3>1. chan[u] \in Seq(Messages) /\ upNext[u] \in Nat /\ upNext[u] <= n + 1
          BY <1>1 DEF TypeInv, Lives
    <3>2. ASSUME NEW i \in 1 .. Len(chan[u]), chan[u][i].kind = "barrier"
          PROVE  chan[u][i].epoch \in 1 .. n
      <4>1. chan[u][i].epoch \in Nat
            BY <3>1, <3>2 DEF Messages, Rows, Watermarks, AlignedBarriers
      <4>2. r <= chan[u][i].epoch /\ chan[u][i].epoch < upNext[u]
            BY <2>2, <3>2 DEF ChanOk
      <4> QED  BY <1>2, <2>2, <3>1, <4>1, <4>2
    <3> QED  BY <2>1, <2>2, <3>1, <3>2, WmSame
  <2>3. ASSUME NEW u \in Upstreams PROVE WmOk(RescaleEpochs, chan[u], WmBase(u)', wmSent[u])
    <3>1. NextRead(u)' = NextRead(u) /\ wmRead' = wmRead /\ emitted' = emitted
          BY <1>11 DEF NextRead, execVars
    <3>2. NextRead(u) <= upNext[u]
          BY <1>1 DEF ChanInv, ChanOk
    <3>3. upNext[u] <= n + 1 /\ upNext[u] \in Nat /\ emitted \in Nat
          BY <1>1, <1>8a DEF Lives, TypeInv
    <3>4. NextRead(u) = emitted + 2 => emitted + 1 \in 1 .. n
          BY <1>2, <3>2, <3>3
    <3>5. WmBase(u)' = WmBase(u)
          BY <2>1, <3>1, <3>4 DEF WmBase
    <3> QED  BY <1>1, <3>5 DEF WatermarkInv
  <2>4. \A u \in Upstreams : WmOk(RescaleEpochs', chan[u], WmBase(u)', wmSent[u])
    <3> TAKE u \in Upstreams
    <3>1. NextRead(u) \in Nat /\ NextRead(u) >= 1
          BY <1>1 DEF NextRead, TypeInv
    <3> QED  BY <1>1, <1>8a, <2>2, <2>3, <3>1 DEF ChanInv
  <2>5. ASSUME NEW e \in emitted + 1 .. n + 1, NEW u \in injected'[e].upd.add
        PROVE  WmOk(RescaleEpochs', chan[u], 0, wmSent[u])
    <3>0. emitted \in Nat /\ u \in Actors => chan[u] \in Seq(Messages) /\ wmSent[u] \in Nat
          BY <1>1 DEF TypeInv
    <3>1. CASE chan[u] = <<>> /\ u \in Actors
      <4>1. wmSent[u] \in Nat
            BY <1>1, <3>1 DEF TypeInv
      <4> QED  BY <3>1, <4>1 DEF WmOk
    <3>2. CASE e \in emitted + 1 .. n
      <4>0. e \in 1 .. n /\ e \in Nat /\ e >= 1
            BY <1>1, <1>2, <3>2 DEF TypeInv
      <4>1. u \in injected[e].upd.add /\ u \in Actors /\ e \in Nat /\ e >= 1
            BY <1>5, <1>8b, <3>2, <4>0
      <4>2. JoinOk(u, e) /\ WmOk(RescaleEpochs, chan[u], 0, wmSent[u])
            BY <1>1, <3>2, <4>1 DEF ChanInv, WatermarkInv
      <4>3. chan[u] = <<>> \/ ChanOk(chan[u], e, upNext[u]) \/ ChanOk(chan[u], e + 1, upNext[u])
            BY <4>2 DEF JoinOk
      <4>4. e + 1 \in Nat /\ e + 1 >= 1
            BY <4>1
      <4> QED  BY <2>2, <3>1, <4>1, <4>2, <4>3, <4>4
    <3>3. CASE e = n + 1
      <4>1. u \in upd.add
            BY <1>5, <3>3 DEF b
      <4> QED  BY <1>6, <1>8c, <3>1, <4>1
    <3> QED  BY <1>1, <1>2, <3>2, <3>3 DEF TypeInv
  <2>6. Upstreams' = Upstreams
        BY <1>11 DEF Upstreams
  <2> QED  BY <1>1, <1>5, <1>11, <2>4, <2>5, <2>6 DEF WatermarkInv, execVars
<1> QED  BY <1>a, <1>b, <1>c, <1>d, <1>e, <1>f, <1>g DEF MInv

\* A barrier without an update.
LEMMA InjectPlainStep == MInv /\ InjectPlain => MInv'
<1> SUFFICES ASSUME MInv, InjectPlain PROVE MInv'
    OBVIOUS
<1>1. NoUpdate \in Updates
      BY DEF NoUpdate, Updates, MaybeFragment
<1>2. Last(plan) = Updated(plan[Len(plan)], NoUpdate) /\ NoUpdate.add = {}
      BY DEF Last, Updated, NoUpdate
<1> QED  BY <1>1, <1>2, InjectStep DEF InjectPlain

\* The upstream fragment is scaled.
LEMMA InjectScaleStep == MInv /\ InjectScale => MInv'
<1> SUFFICES ASSUME MInv, InjectScale PROVE MInv'
    OBVIOUS
<1>1. PICK A \in SUBSET Fresh, Q \in SUBSET plan[Len(plan)] :
        InjectUpdate([from |-> metaFragment, to |-> NoFragment, add |-> A, remove |-> Q],
                     (plan[Len(plan)] \cup A) \ Q)
      BY DEF InjectScale, Last
<1> DEFINE upd == [from |-> metaFragment, to |-> NoFragment, add |-> A, remove |-> Q]
<1>2. TypeInv /\ Lives
      BY DEF MInv
<1>3. Len(plan) \in 1 .. Len(plan) /\ plan[Len(plan)] \subseteq Actors /\ metaFragment \in Fragments
      BY <1>2 DEF TypeInv
<1>4. upd \in Updates
      BY <1>3 DEF Updates, MaybeFragment, Fresh
<1>5. upd.add \cap upd.remove = {} /\ upd.add \subseteq Fresh
      BY <1>2, <1>3 DEF Fresh, Lives
<1>6. (plan[Len(plan)] \cup A) \ Q = Updated(plan[Len(plan)], upd) /\ upd.from = metaFragment
      BY DEF Updated
<1> HIDE DEF upd
<1>7. InjectUpdate(upd, (plan[Len(plan)] \cup A) \ Q)
      BY <1>1 DEF upd
<1> QED  BY <1>4, <1>5, <1>6, <1>7, InjectStep

\* The upstream fragment is replaced.
LEMMA InjectReplaceStep == MInv /\ InjectReplace => MInv'
<1> SUFFICES ASSUME MInv, InjectReplace PROVE MInv'
    OBVIOUS
<1>1. PICK A \in SUBSET Fresh, f \in Fragments \ {metaFragment} :
        InjectUpdate([from |-> metaFragment, to |-> f, add |-> A, remove |-> {}], A)
      BY DEF InjectReplace
<1> DEFINE upd == [from |-> metaFragment, to |-> f, add |-> A, remove |-> {}]
<1>2. metaFragment \in Fragments
      BY DEF MInv, TypeInv
<1>4. upd \in Updates
      BY <1>2 DEF Updates, MaybeFragment, Fresh
<1>5. upd.add \cap upd.remove = {} /\ upd.add \subseteq Fresh /\ upd.from = metaFragment
      OBVIOUS
<1>6. A = Updated(plan[Len(plan)], upd)
      BY MergeAssumption DEF Updated
<1> HIDE DEF upd
<1>7. InjectUpdate(upd, A)
      BY <1>1 DEF upd
<1> QED  BY <1>4, <1>5, <1>6, <1>7, InjectStep

------------------------------------------------------------------------------
(* The upstream actors. *)

\* What an upstream appends to its channel keeps the channels in order: data of
\* the epoch it is in, or the barrier that ends it.
LEMMA SendStep ==
  ASSUME MInv, NEW u \in connected, NEW m \in Messages, NEW next \in Nat,
         NEW wm \in 0 .. MaxWatermark,
         \/ /\ CanSendData(u) /\ next = upNext[u]
            /\ m.kind # "barrier" /\ (m.kind = "row" => m.epoch = upNext[u])
            /\ wmSent[u] <= wm
            /\ m.kind = "watermark" => wmSent[u] < m.val /\ m.val <= wm
         \/ /\ upNext[u] \in 1 .. Len(injected) /\ next = upNext[u] + 1
            /\ m = BarrierOf(upNext[u])
            /\ wm = IF upNext[u] \in RescaleEpochs THEN 0 ELSE wmSent[u],
         chan' = [chan EXCEPT ![u] = Append(@, m)],
         upNext' = [upNext EXCEPT ![u] = next],
         wmSent' = [wmSent EXCEPT ![u] = wm],
         UNCHANGED <<metaVars, bufVars, execVars, connected, active, blocked, aligning,
                     first, staged, fragment, emitted, wmRead, status>>
  PROVE  MInv'
<1> USE MergeAssumption
<1>1. /\ TypeInv /\ FragmentsFollowed /\ Lives /\ BufferInv /\ AlignInv
      /\ ChanInv /\ WatermarkInv
      BY DEF MInv
<1>2. /\ u \in Actors /\ upNext[u] \in Nat /\ upNext[u] > 0 /\ upNext[u] <= Len(injected) + 1
      /\ chan[u] \in Seq(Messages) /\ wmSent[u] \in Nat /\ Len(injected) \in Nat
      BY <1>1 DEF TypeInv, Lives
<1>3. next >= upNext[u] /\ next <= Len(injected) + 1
      BY <1>2
<1>4. /\ chan' \in [Actors -> Seq(Messages)] /\ chan'[u] = Append(chan[u], m)
      /\ upNext' \in [Actors -> Nat] /\ upNext'[u] = next
      /\ wmSent' \in [Actors -> 0 .. MaxWatermark] /\ wmSent'[u] = wm
      /\ \A w \in Actors : w # u =>
           chan'[w] = chan[w] /\ upNext'[w] = upNext[w] /\ wmSent'[w] = wmSent[w]
      BY <1>1, <1>2 DEF TypeInv
<1>5. UNCHANGED <<metaVars, bufVars, execVars, connected, active, blocked, aligning,
                  first, staged, fragment, emitted, wmRead, status>>
      OBVIOUS
<1>6. ASSUME NEW r \in Nat, ChanOk(chan[u], r, upNext[u])
      PROVE  ChanOk(chan'[u], r, upNext'[u])
      BY <1>2, <1>4, <1>6, ChanAppendData, ChanAppendBarrier DEF BarrierOf
<1>7. ASSUME NEW lo \in Nat, WmOk(RescaleEpochs, chan[u], lo, wmSent[u])
      PROVE  WmOk(RescaleEpochs, chan'[u], lo, wmSent'[u])
  <2>1. \/ m.kind = "barrier" /\ m.epoch \in RescaleEpochs
        \/ wmSent[u] <= wm /\ (m.kind = "watermark" => wmSent[u] < m.val /\ m.val <= wm)
        BY <1>2 DEF BarrierOf
  <2>2. WmOk(RescaleEpochs, Append(chan[u], m), lo, wm)
        BY <1>2, <1>7, <2>1, WmAppend
  <2> QED  BY <1>4, <2>2
<1>8. /\ Upstreams' = Upstreams /\ RescaleEpochs' = RescaleEpochs
      /\ \A w : NextRead(w)' = NextRead(w) /\ WmBase(w)' = WmBase(w)
      /\ injected' = injected /\ plan' = plan
      BY <1>5 DEF Upstreams, RescaleEpochs, NextRead, WmBase, metaVars, execVars
<1>9. /\ emitted \in Nat /\ Upstreams \subseteq Actors
      /\ \A w \in Actors : NextRead(w) \in Nat /\ WmBase(w) \in Nat
      BY <1>1 DEF TypeInv, Upstreams, NextRead, WmBase
<1>10. \A e \in emitted + 1 .. Len(injected) : e \in 1 .. Len(injected) /\ e \in Nat
      BY <1>9
<1>11. \A e \in emitted + 1 .. Len(injected) : \A w \in injected[e].upd.add : w \in Actors
      BY <1>1, <1>10, AddsAreNew
<1>a. TypeInv'
      BY <1>1, <1>4, <1>5 DEF TypeInv, metaVars, bufVars, execVars
<1>b. FragmentsFollowed'
  <2>1. PICK frag \in [0 .. MaxEpoch -> Fragments] : History(frag) /\ Places(frag)
        BY <1>1 DEF FragmentsFollowed
  <2>2. Places(frag)'
        BY <1>5, <2>1 DEF Places, metaVars, bufVars
  <2>3. \A w \in Actors : upNext'[w] >= upNext[w] /\ upNext[w] \in Nat /\ upNext'[w] \in Nat
    <3> TAKE w \in Actors
    <3>1. upNext[w] \in Nat /\ upNext'[w] \in Nat
          BY <1>1, <1>4 DEF TypeInv
    <3>2. w # u => upNext'[w] = upNext[w]
          BY <1>4
    <3>3. upNext'[u] >= upNext[u]
          BY <1>3, <1>4
    <3> QED  BY <3>1, <3>2, <3>3
  <2>4. \A k \in 1 .. Len(injected) : \A w \in injected[k].upd.add : upNext'[w] >= k
    <3> TAKE k \in 1 .. Len(injected)
    <3> TAKE w \in injected[k].upd.add
    <3>1. w \in Actors /\ upNext[w] >= k
          BY <1>1, AddsAreNew
    <3>2. k \in Nat
          OBVIOUS
    <3> QED  BY <2>3, <3>1, <3>2
  <2>5. History(frag)'
        BY <1>8, <2>1, <2>4 DEF History
  <2> QED  BY <2>2, <2>5 DEF FragmentsFollowed
<1>c. Lives'
  <2>1. \A w \in Actors : /\ upNext'[w] <= Len(injected) + 1
                          /\ upNext'[w] = 0 => chan'[w] = <<>>
                          /\ upNext[w] > 0 => upNext'[w] > 0
        BY <1>1, <1>2, <1>3, <1>4 DEF Lives
  <2>2. \A k \in 1 .. Len(plan) : plan[k] \subseteq Actors
        BY <1>1 DEF TypeInv
  <2> QED  BY <1>1, <1>5, <1>8, <2>1, <2>2 DEF Lives, TypeInv
<1>d. BufferInv'
      BY <1>1, <1>5, <1>8 DEF BufferInv, bufVars
<1>e. AlignInv'
      BY <1>1, <1>5, <1>8 DEF AlignInv, Upstreams, execVars
<1>f. ChanInv'
  <2>1. ASSUME NEW w \in Upstreams PROVE ChanOk(chan'[w], NextRead(w), upNext'[w])
    <3>1. ChanOk(chan[w], NextRead(w), upNext[w])
          BY <1>1 DEF ChanInv
    <3> QED  BY <1>4, <1>6, <1>9, <3>1
  <2>2. ASSUME NEW e \in emitted + 1 .. Len(injected), NEW w \in injected[e].upd.add
        PROVE  JoinOk(w, e)'
    <3>1. JoinOk(w, e) /\ w \in Actors
          BY <1>1, <1>11 DEF ChanInv
    <3>2. fetched' = fetched /\ creating' = creating /\ connected' = connected
          BY <1>5 DEF bufVars
    <3>3. CASE w # u
          BY <1>4, <3>1, <3>2, <3>3 DEF JoinOk
    <3>4. CASE w = u
      <4>1. ~(e > fetched)
            BY <3>1, <3>4 DEF JoinOk
      <4>2. CASE e = creating
        <5>1. CASE upNext[u] = e /\ chan[u] = <<>>
          <6>1. ~CanSendData(u)
            <7>1. e \in 1 .. e /\ upNext[u] - 1 + 1 = e
                  BY <1>10, <5>1
            <7>2. u \notin plan[e]
                  BY <1>1, <1>10, <3>4, <7>1, AddsAreNew
            <7> QED  BY <7>1, <7>2 DEF CanSendData, PlanAfter
          <6>2. m = BarrierOf(e) /\ next = e + 1 /\ e \in Nat
                BY <1>10, <5>1, <6>1
          <6>3. chan'[u] # <<>> /\ chan'[u][1] = BarrierOf(e)
                BY <1>4, <5>1, <6>2
          <6>4. ChanOk(<<>>, e, e)
                BY <6>2 DEF ChanOk
          <6>5. ChanOk(chan'[u], e, upNext'[u])
                BY <1>6, <5>1, <6>2, <6>4
          <6> QED  BY <1>4, <3>2, <3>4, <4>1, <4>2, <6>2, <6>3, <6>5 DEF JoinOk
        <5>2. CASE /\ upNext[u] > e /\ ChanOk(chan[u], e, upNext[u])
                   /\ chan[u] # <<>> /\ chan[u][1] = BarrierOf(e)
          <6>1. chan'[u] # <<>> /\ chan'[u][1] = BarrierOf(e)
                BY <1>2, <1>4, <5>2
          <6>2. ChanOk(chan'[u], e, upNext'[u]) /\ upNext'[u] > e
                BY <1>2, <1>3, <1>4, <1>6, <1>10, <5>2
          <6> QED  BY <3>2, <3>4, <4>1, <4>2, <6>1, <6>2 DEF JoinOk
        <5> QED  BY <3>1, <3>4, <4>1, <4>2, <5>1, <5>2 DEF JoinOk
      <4>3. CASE e # creating
        <5>1. upNext[u] > e /\ ChanOk(chan[u], e + 1, upNext[u])
              BY <3>1, <3>4, <4>1, <4>3 DEF JoinOk
        <5>2. upNext'[u] > e /\ ChanOk(chan'[u], e + 1, upNext'[u])
              BY <1>2, <1>3, <1>4, <1>6, <1>10, <5>1
        <5> QED  BY <3>2, <3>4, <4>1, <4>3, <5>2 DEF JoinOk
      <4> QED  BY <4>2, <4>3
    <3> QED  BY <3>3, <3>4
  <2> QED  BY <1>5, <1>8, <2>1, <2>2 DEF ChanInv
<1>g. WatermarkInv'
  <2>1. \A w \in Upstreams : WmOk(RescaleEpochs, chan'[w], WmBase(w), wmSent'[w])
        BY <1>1, <1>4, <1>7, <1>9 DEF WatermarkInv
  <2>2. \A e \in emitted + 1 .. Len(injected) : \A w \in injected[e].upd.add :
          WmOk(RescaleEpochs, chan'[w], 0, wmSent'[w])
        BY <1>1, <1>4, <1>7, <1>11 DEF WatermarkInv
  <2> QED  BY <1>1, <1>5, <1>8, <2>1, <2>2 DEF WatermarkInv, execVars
<1> QED  BY <1>a, <1>b, <1>c, <1>d, <1>e, <1>f, <1>g DEF MInv

\* An upstream sends a row.
LEMMA UpRowStep == ASSUME MInv, NEW u \in Actors, UpRow(u) PROVE MInv'
<1>1. TypeInv
      BY DEF MInv
<1>2. /\ u \in connected /\ CanSendData(u) /\ upNext[u] \in Nat
      /\ wmSent[u] \in 0 .. MaxWatermark /\ wmSent[u] <= wmSent[u]
      BY <1>1, MergeAssumption DEF TypeInv, UpRow, CanSendData
<1>3. /\ Row(u) \in Messages /\ Row(u).kind # "barrier" /\ Row(u).kind # "watermark"
      /\ Row(u).epoch = upNext[u]
      BY <1>2 DEF Row, Messages, Rows
<1>4. /\ upNext' = [upNext EXCEPT ![u] = upNext[u]]
      /\ wmSent' = [wmSent EXCEPT ![u] = wmSent[u]]
      BY <1>1 DEF UpRow, upVars, TypeInv
<1> QED  BY <1>2, <1>3, <1>4, SendStep DEF UpRow

\* An upstream sends a watermark above its last.
LEMMA UpWatermarkStep == ASSUME MInv, NEW u \in Actors, UpWatermark(u) PROVE MInv'
<1>1. TypeInv
      BY DEF MInv
<1>2. /\ u \in connected /\ CanSendData(u) /\ upNext[u] \in Nat
      /\ wmSent[u] \in 0 .. MaxWatermark
      BY <1>1 DEF TypeInv, UpWatermark, CanSendData
<1>3. PICK v \in wmSent[u] + 1 .. MaxWatermark :
        /\ wmSent' = [wmSent EXCEPT ![u] = v]
        /\ chan' = [chan EXCEPT ![u] = Append(@, Watermark(v))]
      BY DEF UpWatermark
<1>4. /\ Watermark(v) \in Messages /\ Watermark(v).kind = "watermark"
      /\ Watermark(v).val = v /\ v \in 0 .. MaxWatermark /\ wmSent[u] < v
      /\ v <= v /\ wmSent[u] <= v
      BY <1>2, <1>3, MergeAssumption DEF Watermark, Messages, Watermarks
<1>5. upNext' = [upNext EXCEPT ![u] = upNext[u]]
      BY <1>1 DEF UpWatermark, TypeInv
<1> QED  BY <1>2, <1>3, <1>4, <1>5, SendStep DEF UpWatermark

\* An upstream forwards a barrier.
LEMMA UpBarrierStep == ASSUME MInv, NEW u \in Actors, UpBarrier(u) PROVE MInv'
<1>1. TypeInv
      BY DEF MInv
<1>2. /\ u \in connected /\ upNext[u] \in 1 .. Len(injected) /\ upNext[u] + 1 \in Nat
      /\ upNext[u] \in Nat
      BY <1>1 DEF TypeInv, UpBarrier
<1>3. BarrierOf(upNext[u]) \in Messages
      BY <1>2 DEF BarrierOf, Messages, AlignedBarriers
<1> DEFINE wm == IF upNext[u] \in RescaleEpochs THEN 0 ELSE wmSent[u]
<1>4. wm \in 0 .. MaxWatermark
      BY <1>1, MergeAssumption DEF TypeInv
<1>5. wmSent' = [wmSent EXCEPT ![u] = wm]
  <2>1. upNext[u] \in RescaleEpochs <=> Rescales(injected[upNext[u]])
        BY <1>2 DEF RescaleEpochs
  <2> QED  BY <1>1, <2>1 DEF UpBarrier, TypeInv
<1>6. upNext' = [upNext EXCEPT ![u] = upNext[u] + 1]
      BY <1>1 DEF UpBarrier, TypeInv
<1>7. wm = IF upNext[u] \in RescaleEpochs THEN 0 ELSE wmSent[u]
      OBVIOUS
<1> HIDE DEF wm
<1> QED  BY <1>2, <1>3, <1>4, <1>5, <1>6, <1>7, SendStep DEF UpBarrier

------------------------------------------------------------------------------
(* The barrier buffer. *)

\* The next barrier is fetched from the barrier manager.
LEMMA FetchBarrierStep == MInv /\ FetchBarrier => MInv'
<1> SUFFICES ASSUME MInv, FetchBarrier PROVE MInv'
    OBVIOUS
<1> USE MergeAssumption
<1> DEFINE c == fetched + 1
           add == injected[c].upd.add
<1>1. /\ TypeInv /\ FragmentsFollowed /\ Lives /\ BufferInv /\ AlignInv
      /\ ChanInv /\ WatermarkInv
      BY DEF MInv
<1>2. /\ fetched \in Nat /\ emitted \in Nat /\ Len(injected) \in Nat /\ fetched < Len(injected)
      /\ creating = 0 /\ c \in 1 .. Len(injected) /\ emitted <= fetched
      /\ Len(buffer) \in Nat /\ Len(buffer) = fetched - emitted
      BY <1>1 DEF FetchBarrier, TypeInv, BufferInv
<1>3. AsUpdateMerge(injected[c], bufFragment) = injected[c].upd
      BY <1>2, UpdateFound
<1>4. /\ bufFragment' = IF injected[c].upd.to = NoFragment THEN bufFragment
                        ELSE injected[c].upd.to
      /\ connected' = connected \cup add
      /\ add # {} => creating' = c /\ buffer' = buffer
      /\ add = {} => creating' = 0 /\ buffer' = Append(buffer, [epoch |-> c, inputs |-> {}])
      /\ fetched' = c
      BY <1>3 DEF FetchBarrier, PreApplyBarrier
<1>5. UNCHANGED <<metaVars, upVars, execVars, chan, active, blocked, aligning,
                  first, staged, fragment, emitted, wmRead, status>>
      BY DEF FetchBarrier
<1>6. injected[c].upd \in Updates
  <2>1. injected[c] \in Barriers
        BY <1>1, <1>2 DEF TypeInv
  <2> QED  BY <2>1 DEF Barriers
<1>7. add \subseteq Actors /\ injected[c].upd.to \in MaybeFragment
      BY <1>6 DEF Updates
<1>8. /\ Upstreams' = Upstreams /\ RescaleEpochs' = RescaleEpochs
      /\ \A w : NextRead(w)' = NextRead(w) /\ WmBase(w)' = WmBase(w)
      /\ injected' = injected /\ plan' = plan /\ upNext' = upNext
      BY <1>5 DEF Upstreams, RescaleEpochs, NextRead, WmBase, metaVars, execVars, upVars
<1> HIDE DEF add
<1>a. TypeInv'
  <2>1. bufFragment' \in Fragments
        BY <1>1, <1>4, <1>7 DEF TypeInv, MaybeFragment
  <2>2. buffer' \in Seq([epoch : Nat, inputs : SUBSET Actors])
    <3>1. /\ [epoch |-> c, inputs |-> {}] \in [epoch : Nat, inputs : SUBSET Actors]
          /\ buffer \in Seq([epoch : Nat, inputs : SUBSET Actors])
          BY <1>1, <1>2 DEF TypeInv
    <3>2. Append(buffer, [epoch |-> c, inputs |-> {}]) \in Seq([epoch : Nat, inputs : SUBSET Actors])
          BY <3>1, AppendElements
    <3>3. CASE add = {}
          BY <1>4, <3>2, <3>3
    <3>4. CASE add # {}
          BY <1>4, <3>1, <3>4
    <3> QED  BY <3>3, <3>4
  <2>3. creating' \in Nat /\ fetched' \in Nat /\ connected' \subseteq Actors
        BY <1>1, <1>2, <1>4, <1>7 DEF TypeInv
  <2> QED  BY <1>1, <1>5, <2>1, <2>2, <2>3 DEF TypeInv, metaVars, upVars, execVars
<1>b. FragmentsFollowed'
  <2>1. PICK frag \in [0 .. MaxEpoch -> Fragments] : History(frag) /\ Places(frag)
        BY <1>1 DEF FragmentsFollowed
  <2>2. History(frag)'
        BY <1>8, <2>1 DEF History
  <2>3. frag[c] = bufFragment'
    <3>1. frag[c] = IF injected[c].upd.to = NoFragment THEN frag[c - 1] ELSE injected[c].upd.to
          BY <1>2, <2>1 DEF History
    <3>2. c - 1 = fetched
          BY <1>2
    <3> QED  BY <1>4, <2>1, <3>1, <3>2 DEF Places
  <2>4. Places(frag)'
        BY <1>4, <1>5, <1>8, <2>1, <2>3 DEF Places, metaVars
  <2> QED  BY <2>2, <2>4 DEF FragmentsFollowed
<1>c. Lives'
  <2>1. \A u \in add : upNext[u] > 0
    <3> TAKE u \in add
    <3>1. u \in Actors /\ upNext[u] >= c
          BY <1>1, <1>2, AddsAreNew DEF add
    <3> QED  BY <1>1, <1>2, <3>1 DEF TypeInv
  <2> QED  BY <1>1, <1>4, <1>5, <1>8, <2>1 DEF Lives
<1>d. BufferInv'
  <2>1. CASE add # {}
    <3>1. /\ creating' = c /\ buffer' = buffer /\ c > emitted /\ c <= Len(injected)
          /\ Len(buffer) = c - emitted - 1 /\ creating' # 0 /\ emitted <= c
          BY <1>2, <1>4, <2>1
    <3>2. \A i \in 1 .. Len(buffer) :
            buffer[i] = [epoch |-> emitted + i, inputs |-> injected[emitted + i].upd.add]
          BY <1>1 DEF BufferInv
    <3> QED  BY <1>4, <1>5, <1>8, <2>1, <3>1, <3>2 DEF BufferInv, add
  <2>2. CASE add = {}
    <3>1. /\ buffer' = Append(buffer, [epoch |-> c, inputs |-> {}]) /\ creating' = 0
          /\ [epoch |-> c, inputs |-> {}] \in [epoch : Nat, inputs : SUBSET Actors]
          BY <1>2, <1>4, <2>2
    <3>2. /\ Len(buffer') = Len(buffer) + 1
          /\ \A i \in 1 .. Len(buffer) : buffer'[i] = buffer[i]
          /\ buffer'[Len(buffer) + 1] = [epoch |-> c, inputs |-> {}]
          BY <1>1, <3>1, AppendElements DEF TypeInv
    <3>3. Len(buffer') = c - emitted /\ emitted + (Len(buffer) + 1) = c /\ emitted <= c
          /\ c <= Len(injected)
          BY <1>2, <3>2
    <3>4. ASSUME NEW i \in 1 .. Len(buffer')
          PROVE  buffer'[i] = [epoch |-> emitted + i, inputs |-> injected[emitted + i].upd.add]
      <4>1. CASE i \in 1 .. Len(buffer)
            BY <1>1, <3>2, <4>1 DEF BufferInv
      <4>2. CASE i = Len(buffer) + 1
            BY <2>2, <3>2, <3>3, <4>2 DEF add
      <4> QED  BY <1>2, <3>2, <4>1, <4>2
    <3>5. fetched' = c /\ emitted' = emitted /\ Len(buffer') = c - emitted - 0
          BY <1>2, <1>4, <1>5, <3>3
    <3> QED  BY <1>8, <3>1, <3>3, <3>4, <3>5 DEF BufferInv
  <2> QED  BY <2>1, <2>2
<1>e. AlignInv'
      BY <1>1, <1>5, <1>8 DEF AlignInv, execVars
<1>f. ChanInv'
  <2>1. ASSUME NEW e \in emitted + 1 .. Len(injected), NEW u \in injected[e].upd.add
        PROVE  JoinOk(u, e)'
    <3>1. JoinOk(u, e) /\ e \in Nat /\ e >= 1
          BY <1>1, <1>2 DEF ChanInv
    <3>2. CASE e > c
      <4>1. upNext[u] = e /\ u \notin connected /\ chan[u] = <<>>
            BY <1>2, <3>1, <3>2 DEF JoinOk
      <4>2. u \notin add
        <5>1. SUFFICES ASSUME u \in add PROVE FALSE
              OBVIOUS
        <5>2. c \in emitted + 1 .. Len(injected)
              BY <1>2
        <5>3. JoinOk(u, c)
              BY <1>1, <5>1, <5>2 DEF ChanInv, add
        <5> QED  BY <1>2, <3>2, <4>1, <5>3 DEF JoinOk
      <4> QED  BY <1>4, <1>5, <1>8, <3>2, <4>1, <4>2 DEF JoinOk
    <3>3. CASE e = c
      <4>1. upNext[u] = e /\ chan[u] = <<>>
            BY <1>2, <3>1, <3>3 DEF JoinOk
      <4>2. creating' = c
            BY <1>4, <3>3 DEF add
      <4> QED  BY <1>2, <1>4, <1>5, <1>8, <3>3, <4>1, <4>2 DEF JoinOk
    <3>4. CASE e < c
      <4>1. upNext[u] > e /\ ChanOk(chan[u], e + 1, upNext[u])
            BY <1>2, <3>1, <3>4 DEF JoinOk
      <4>2. e # creating' /\ ~(e > fetched')
            BY <1>2, <1>4, <3>1, <3>4
      <4> QED  BY <1>5, <1>8, <4>1, <4>2 DEF JoinOk
    <3> QED  BY <1>2, <3>1, <3>2, <3>3, <3>4
  <2> QED  BY <1>1, <1>5, <1>8, <2>1 DEF ChanInv
<1>g. WatermarkInv'
      BY <1>1, <1>5, <1>8 DEF WatermarkInv, execVars, upVars
<1> QED  BY <1>a, <1>b, <1>c, <1>d, <1>e, <1>f, <1>g DEF MInv

\* The new inputs deliver the barrier that they were created for.
LEMMA CreateInputsStep == MInv /\ CreateInputs => MInv'
<1> SUFFICES ASSUME MInv, CreateInputs PROVE MInv'
    OBVIOUS
<1> USE MergeAssumption
<1> DEFINE c == creating
           new == injected[c].upd.add
<1>1. /\ TypeInv /\ FragmentsFollowed /\ Lives /\ BufferInv /\ AlignInv
      /\ ChanInv /\ WatermarkInv
      BY DEF MInv
<1>2. /\ fetched \in Nat /\ emitted \in Nat /\ Len(injected) \in Nat
      /\ c # 0 /\ c = fetched /\ c > emitted /\ c \in Nat
      /\ Len(buffer) \in Nat /\ Len(buffer) = fetched - emitted - 1
      BY <1>1 DEF CreateInputs, TypeInv, BufferInv
<1>3. c \in 1 .. Len(injected) /\ c \in emitted + 1 .. Len(injected)
      BY <1>1, <1>2 DEF BufferInv
<1>4. \A u \in new : /\ u \in Actors /\ chan[u] \in Seq(Messages) /\ upNext[u] \in Nat
                     /\ chan[u] # <<>> /\ ChanOk(chan[u], c, upNext[u])
                     /\ chan[u][1] = BarrierOf(c) /\ upNext[u] > c
                     /\ wmSent[u] \in Nat /\ WmOk(RescaleEpochs, chan[u], 0, wmSent[u])
  <2> TAKE u \in new
  <2>1. u \in Actors
        BY <1>1, <1>3, AddsAreNew
  <2>2. JoinOk(u, c) /\ WmOk(RescaleEpochs, chan[u], 0, wmSent[u])
        BY <1>1, <1>3 DEF ChanInv, WatermarkInv
  <2>3. chan[u] # <<>>
        BY DEF CreateInputs
  <2>4. chan[u] \in Seq(Messages) /\ upNext[u] \in Nat /\ wmSent[u] \in Nat
        BY <1>1, <2>1 DEF TypeInv
  <2> QED  BY <1>2, <2>1, <2>2, <2>3, <2>4 DEF JoinOk
<1>5. \A u \in new : /\ Tail(chan[u]) \in Seq(Messages) /\ Head(chan[u]) = BarrierOf(c)
                     /\ ChanOk(Tail(chan[u]), c + 1, upNext[u])
                     /\ WmOk(RescaleEpochs, Tail(chan[u]), 0, wmSent[u])
  <2> TAKE u \in new
  <2>1. Head(chan[u]) = BarrierOf(c) /\ Tail(chan[u]) \in Seq(Messages)
        BY <1>4, TailElements
  <2>2. Head(chan[u]).kind = "barrier"
        BY <2>1 DEF BarrierOf
  <2>3. ChanOk(Tail(chan[u]), c + 1, upNext[u])
        BY <1>2, <1>4, <2>2, ChanTail
  <2>4. WmOk(RescaleEpochs, Tail(chan[u]), 0, wmSent[u])
        BY <1>4, WmTail
  <2> QED  BY <2>1, <2>3, <2>4
<1>6. /\ status' = status /\ creating' = 0
      /\ buffer' = Append(buffer, [epoch |-> c, inputs |-> new])
      /\ chan' = [u \in Actors |-> IF u \in new THEN Tail(chan[u]) ELSE chan[u]]
      BY <1>5 DEF CreateInputs
<1>7. UNCHANGED <<metaVars, upVars, fetched, bufFragment, execVars, connected,
                  active, blocked, aligning, first, staged, fragment, emitted, wmRead>>
      BY DEF CreateInputs
<1>8. /\ Upstreams' = Upstreams /\ RescaleEpochs' = RescaleEpochs
      /\ \A w : NextRead(w)' = NextRead(w) /\ WmBase(w)' = WmBase(w)
      /\ injected' = injected /\ plan' = plan /\ upNext' = upNext /\ wmSent' = wmSent
      BY <1>7 DEF Upstreams, RescaleEpochs, NextRead, WmBase, metaVars, execVars, upVars
<1>9. new \subseteq Actors
      BY <1>4
<1>10. \A u \in Upstreams : u \in Actors /\ u \notin new
  <2>1. emitted + 1 \in 1 .. c
        BY <1>2
  <2>2. \A u \in new : u \notin plan[emitted + 1]
        BY <1>1, <1>3, <2>1, AddsAreNew
  <2> QED  BY <1>1, <2>2 DEF AlignInv, TypeInv, Upstreams
<1>11. \A e \in emitted + 1 .. Len(injected) : \A u \in injected[e].upd.add :
         u \in Actors /\ (e = c \/ u \notin new)
  <2>1. \A e \in emitted + 1 .. Len(injected) : e \in 1 .. Len(injected)
        BY <1>2
  <2> QED  BY <1>1, <1>3, <2>1, AddsAreNew, AddsOnce
<1> HIDE DEF new
<1>12. \A u \in Actors : u \notin new => chan'[u] = chan[u]
      BY <1>6
<1>13. \A u \in new : chan'[u] = Tail(chan[u])
      BY <1>6, <1>9
<1>a. TypeInv'
  <2>1. chan' \in [Actors -> Seq(Messages)]
        BY <1>1, <1>5, <1>6 DEF TypeInv
  <2>2. buffer' \in Seq([epoch : Nat, inputs : SUBSET Actors])
        BY <1>1, <1>2, <1>6, <1>9 DEF TypeInv
  <2> QED  BY <1>1, <1>6, <1>7, <2>1, <2>2 DEF TypeInv, metaVars, upVars, execVars
<1>b. FragmentsFollowed'
  <2>1. PICK frag \in [0 .. MaxEpoch -> Fragments] : History(frag) /\ Places(frag)
        BY <1>1 DEF FragmentsFollowed
  <2>2. History(frag)' /\ Places(frag)'
        BY <1>7, <1>8, <2>1 DEF History, Places, metaVars
  <2> QED  BY <2>2 DEF FragmentsFollowed
<1>c. Lives'
  <2>1. \A u \in new : upNext[u] # 0
        BY <1>2, <1>4
  <2> QED  BY <1>1, <1>7, <1>8, <1>12, <2>1 DEF Lives
<1>d. BufferInv'
  <2>1. [epoch |-> c, inputs |-> new] \in [epoch : Nat, inputs : SUBSET Actors]
        BY <1>2, <1>9
  <2>2. /\ Len(buffer') = Len(buffer) + 1
        /\ \A i \in 1 .. Len(buffer) : buffer'[i] = buffer[i]
        /\ buffer'[Len(buffer) + 1] = [epoch |-> c, inputs |-> new]
        BY <1>1, <1>6, <2>1, AppendElements DEF TypeInv
  <2>3. Len(buffer') = fetched - emitted /\ emitted + (Len(buffer) + 1) = c
        BY <1>2, <2>2
  <2>4. ASSUME NEW i \in 1 .. Len(buffer')
        PROVE  buffer'[i] = [epoch |-> emitted + i, inputs |-> injected[emitted + i].upd.add]
    <3>1. CASE i \in 1 .. Len(buffer)
          BY <1>1, <2>2, <3>1 DEF BufferInv
    <3>2. CASE i = Len(buffer) + 1
          BY <2>2, <2>3, <3>2 DEF new
    <3> QED  BY <1>2, <2>2, <3>1, <3>2
  <2> QED  BY <1>1, <1>2, <1>6, <1>7, <1>8, <2>3, <2>4 DEF BufferInv
<1>e. AlignInv'
      BY <1>1, <1>6, <1>7, <1>8 DEF AlignInv, execVars
<1>f. ChanInv'
  <2>1. ASSUME NEW e \in emitted + 1 .. Len(injected), NEW u \in injected[e].upd.add
        PROVE  JoinOk(u, e)'
    <3>0. e \in Nat /\ e # creating'
          BY <1>2, <1>6
    <3>1. CASE e = c
      <4>1. u \in new
            BY <3>1 DEF new
      <4>2. upNext[u] > e /\ ChanOk(chan'[u], e + 1, upNext[u]) /\ ~(e > fetched')
            BY <1>2, <1>4, <1>5, <1>7, <1>13, <3>1, <4>1 DEF new
      <4> QED  BY <1>8, <3>0, <4>2 DEF JoinOk
    <3>2. CASE e # c
      <4>1. JoinOk(u, e) /\ u \in Actors /\ u \notin new
            BY <1>1, <1>11, <3>2 DEF ChanInv
      <4> QED  BY <1>7, <1>8, <1>12, <3>0, <3>2, <4>1 DEF JoinOk
    <3> QED  BY <3>1, <3>2
  <2>2. \A u \in Upstreams : ChanOk(chan'[u], NextRead(u), upNext[u])
        BY <1>1, <1>10, <1>12 DEF ChanInv
  <2> QED  BY <1>7, <1>8, <2>1, <2>2 DEF ChanInv
<1>g. WatermarkInv'
  <2>1. \A u \in Upstreams : WmOk(RescaleEpochs, chan'[u], WmBase(u), wmSent[u])
        BY <1>1, <1>10, <1>12 DEF WatermarkInv
  <2>2. \A e \in emitted + 1 .. Len(injected) : \A u \in injected[e].upd.add :
          WmOk(RescaleEpochs, chan'[u], 0, wmSent[u])
        BY <1>1, <1>5, <1>11, <1>12, <1>13 DEF WatermarkInv
  <2> QED  BY <1>1, <1>7, <1>8, <2>1, <2>2 DEF WatermarkInv, execVars
<1> QED  BY <1>a, <1>b, <1>c, <1>d, <1>e, <1>f, <1>g DEF MInv

------------------------------------------------------------------------------
(* The receivers. *)

\* The head of the channel that is polled is of the open epoch, and the channel
\* goes on in order behind it.
LEMMA PollFacts ==
  ASSUME MInv, NEW u \in Actors, Polls(u)
  PROVE  /\ u \in Upstreams /\ u \notin blocked /\ item = NoItem /\ NextRead(u) = emitted + 1
         /\ emitted \in Nat /\ upNext[u] \in Nat /\ wmSent[u] \in Nat /\ wmRead[u] \in Nat
         /\ chan[u] \in Seq(Messages) /\ Head(chan[u]) \in Messages /\ Tail(chan[u]) \in Seq(Messages)
         /\ Head(chan[u]).kind \in {"row", "barrier"} => Head(chan[u]).epoch = emitted + 1
         /\ Head(chan[u]).kind = "barrier" => ChanOk(Tail(chan[u]), emitted + 2, upNext[u])
         /\ Head(chan[u]).kind # "barrier" => ChanOk(Tail(chan[u]), emitted + 1, upNext[u])
         /\ \A e \in emitted + 1 .. Len(injected) : u \notin injected[e].upd.add
<1>1. TypeInv /\ FragmentsFollowed /\ AlignInv /\ ChanInv
      BY DEF MInv
<1>2. u \in Upstreams /\ u \notin blocked /\ item = NoItem /\ NextRead(u) = emitted + 1
      BY <1>1 DEF Polls, TypeInv, Upstreams, NextRead, NoItem
<1>3. /\ emitted \in Nat /\ upNext[u] \in Nat /\ chan[u] \in Seq(Messages)
      /\ wmSent[u] \in Nat /\ wmRead[u] \in Nat
      BY <1>1, MergeAssumption DEF TypeInv
<1>4. chan[u] # <<>>
      BY DEF Polls
<1>5. Head(chan[u]) \in Messages /\ Tail(chan[u]) \in Seq(Messages)
      BY <1>3, <1>4, TailElements
<1>6. ChanOk(chan[u], emitted + 1, upNext[u])
      BY <1>1, <1>2 DEF ChanInv
<1>7. /\ Head(chan[u]).kind \in {"row", "barrier"} => Head(chan[u]).epoch = emitted + 1
      /\ Head(chan[u]).kind = "barrier" => ChanOk(Tail(chan[u]), (emitted + 1) + 1, upNext[u])
      /\ Head(chan[u]).kind # "barrier" => ChanOk(Tail(chan[u]), emitted + 1, upNext[u])
  <2>1. emitted + 1 \in Nat
        BY <1>3
  <2> QED  BY <1>3, <1>4, <1>6, <2>1, ChanTail
<1>8. (emitted + 1) + 1 = emitted + 2
      BY <1>3
<1>9. \A e \in emitted + 1 .. Len(injected) : u \notin injected[e].upd.add
  <2> TAKE e \in emitted + 1 .. Len(injected)
  <2>1. e \in 1 .. Len(injected) /\ emitted + 1 \in 1 .. e
        BY <1>3
  <2>2. u \in plan[emitted + 1]
        BY <1>1, <1>2 DEF AlignInv
  <2> QED  BY <1>1, <2>1, <2>2, AddsAreNew
<1> QED  BY <1>2, <1>3, <1>5, <1>7, <1>8, <1>9

\* Taking the head of a channel that is read keeps every invariant of the
\* barriers and of the other channels.
LEMMA PollFrame ==
  ASSUME MInv, NEW u \in Actors, Polls(u),
         chan' = [chan EXCEPT ![u] = Tail(@)],
         UNCHANGED <<metaVars, upVars, bufVars, connected, fragment, emitted>>
  PROVE  /\ FragmentsFollowed' /\ Lives' /\ BufferInv'
         /\ chan' \in [Actors -> Seq(Messages)] /\ chan'[u] = Tail(chan[u])
         /\ \A w \in Actors : w # u => chan'[w] = chan[w]
         /\ \A e \in emitted' + 1 .. Len(injected') : \A w \in injected'[e].upd.add :
              JoinOk(w, e)' /\ WmOk(RescaleEpochs', chan'[w], 0, wmSent'[w])
         /\ RescaleEpochs' = RescaleEpochs
<1>1. /\ TypeInv /\ FragmentsFollowed /\ Lives /\ BufferInv /\ ChanInv /\ WatermarkInv
      BY DEF MInv
<1>2. /\ injected' = injected /\ plan' = plan /\ upNext' = upNext /\ wmSent' = wmSent
      /\ fetched' = fetched /\ creating' = creating /\ connected' = connected
      /\ emitted' = emitted
      BY DEF metaVars, upVars, bufVars
<1>3. /\ chan' \in [Actors -> Seq(Messages)] /\ chan'[u] = Tail(chan[u])
      /\ \A w \in Actors : w # u => chan'[w] = chan[w]
      BY <1>1, PollFacts DEF TypeInv
<1>4. FragmentsFollowed'
  <2>1. PICK frag \in [0 .. MaxEpoch -> Fragments] : History(frag) /\ Places(frag)
        BY <1>1 DEF FragmentsFollowed
  <2>2. History(frag)' /\ Places(frag)'
        BY <1>2, <2>1 DEF History, Places, metaVars, bufVars
  <2> QED  BY <2>2 DEF FragmentsFollowed
<1>5. Lives'
  <2>1. upNext[u] > 0
    <3>1. u \in Upstreams
          BY PollFacts
    <3>2. u \in plan[emitted + 1]
          BY <3>1 DEF MInv, AlignInv
    <3>3. emitted + 1 \in 1 .. Len(plan)
          BY <1>1 DEF BufferInv, TypeInv
    <3> QED  BY <1>1, <3>2, <3>3 DEF Lives
  <2> QED  BY <1>1, <1>2, <1>3, <2>1 DEF Lives
<1>6. BufferInv'
      BY <1>1, <1>2 DEF BufferInv, bufVars
<1>7. RescaleEpochs' = RescaleEpochs
      BY <1>2 DEF RescaleEpochs
<1>8. ASSUME NEW e \in emitted + 1 .. Len(injected), NEW w \in injected[e].upd.add
      PROVE  JoinOk(w, e)' /\ WmOk(RescaleEpochs', chan'[w], 0, wmSent'[w])
  <2>1. e \in 1 .. Len(injected)
        BY <1>1 DEF TypeInv
  <2>2. w \in Actors /\ w # u
        BY <1>1, <2>1, AddsAreNew, PollFacts
  <2>3. JoinOk(w, e) /\ WmOk(RescaleEpochs, chan[w], 0, wmSent[w])
        BY <1>1 DEF ChanInv, WatermarkInv
  <2> QED  BY <1>2, <1>3, <1>7, <2>2, <2>3 DEF JoinOk
<1> QED  BY <1>2, <1>3, <1>4, <1>5, <1>6, <1>7, <1>8

\* A row goes to the chunk builder of the open epoch.
LEMMA PollRowStep == ASSUME MInv, NEW u \in Actors, PollRow(u) PROVE MInv'
<1> USE MergeAssumption
<1>1. /\ TypeInv /\ AlignInv /\ ChanInv /\ WatermarkInv
      BY DEF MInv
<1>2. Polls(u) /\ Head(chan[u]).kind = "row" /\ chan' = [chan EXCEPT ![u] = Tail(@)]
      BY DEF PollRow
<1>3. UNCHANGED <<metaVars, upVars, bufVars, connected, item, active, blocked,
                  aligning, first, staged, fragment, emitted, wmRead, status>>
      BY DEF PollRow
<1>4. /\ FragmentsFollowed' /\ Lives' /\ BufferInv'
      /\ chan' \in [Actors -> Seq(Messages)] /\ chan'[u] = Tail(chan[u])
      /\ \A w \in Actors : w # u => chan'[w] = chan[w]
      /\ \A e \in emitted' + 1 .. Len(injected') : \A w \in injected'[e].upd.add :
           JoinOk(w, e)' /\ WmOk(RescaleEpochs', chan'[w], 0, wmSent'[w])
      /\ RescaleEpochs' = RescaleEpochs
      BY <1>2, <1>3, PollFrame
<1>5. /\ u \in Upstreams /\ NextRead(u) = emitted + 1 /\ Head(chan[u]) \in Messages
      /\ Head(chan[u]).epoch = emitted + 1 /\ ChanOk(Tail(chan[u]), NextRead(u), upNext[u])
      /\ wmSent[u] \in Nat /\ wmRead[u] \in Nat /\ chan[u] \in Seq(Messages) /\ emitted \in Nat
      BY <1>2, PollFacts
<1>6. Head(chan[u]) \in Rows
      BY <1>2, <1>5 DEF Messages, Rows, Watermarks, AlignedBarriers
<1> DEFINE rows == Append(builder, Head(chan[u]))
<1>7. rows \in Seq(Rows) /\ \A i \in 1 .. Len(rows) : rows[i].epoch = emitted + 1
  <2>1. /\ rows \in Seq(Rows) /\ Len(rows) = Len(builder) + 1 /\ Len(builder) \in Nat
        /\ \A i \in 1 .. Len(builder) : rows[i] = builder[i]
        /\ rows[Len(builder) + 1] = Head(chan[u])
        BY <1>1, <1>6, AppendElements DEF TypeInv
  <2>2. \A i \in 1 .. Len(builder) : builder[i].epoch = emitted + 1
        BY <1>1 DEF AlignInv
  <2> HIDE DEF rows
  <2>3. ASSUME NEW i \in 1 .. Len(rows) PROVE rows[i].epoch = emitted + 1
    <3>1. i \in 1 .. Len(builder) \/ i = Len(builder) + 1
          BY <2>1
    <3> QED  BY <1>5, <2>1, <2>2, <3>1
  <2> QED  BY <2>1, <2>3
<1>8. builder' \in {<<>>, rows} /\ inEpoch' = inEpoch
  <2>1. DOMAIN rows = 1 .. Len(rows)
        BY <1>7
  <2>2. inEpoch = TRUE
        BY <1>1 DEF AlignInv, TypeInv
  <2> HIDE DEF rows
  <2>3. (inEpoch /\ \A i \in DOMAIN rows : rows[i].epoch = emitted + 1) = TRUE
        BY <1>7, <2>1, <2>2
  <2> QED  BY <2>2, <2>3 DEF PollRow, HandOn, rows
<1> HIDE DEF rows
<1>9. builder' \in Seq(Rows) /\ \A i \in 1 .. Len(builder') : builder'[i].epoch = emitted + 1
  <2>1. CASE builder' = <<>>
        BY <2>1
  <2>2. CASE builder' = rows
        BY <1>7, <2>2
  <2> QED  BY <1>8, <2>1, <2>2
<1>10. /\ Upstreams' = Upstreams
       /\ \A w : NextRead(w)' = NextRead(w) /\ WmBase(w)' = WmBase(w)
      BY <1>3, <1>4 DEF Upstreams, NextRead, WmBase
<1>a. TypeInv'
      BY <1>1, <1>3, <1>4, <1>8, <1>9 DEF TypeInv, metaVars, upVars, bufVars
<1>e. AlignInv'
  <2>1. item.kind # "barrier" /\ Upstreams # {}
        BY <1>2, <1>5 DEF Polls, NoItem
  <2> QED  BY <1>1, <1>3, <1>8, <1>9, <1>10, <2>1 DEF AlignInv, metaVars
<1>f. ChanInv'
  <2>1. \A w \in Upstreams : ChanOk(chan'[w], NextRead(w), upNext[w])
        BY <1>1, <1>4, <1>5 DEF ChanInv, Upstreams, TypeInv
  <2> QED  BY <1>3, <1>4, <1>10, <2>1 DEF ChanInv, metaVars, upVars
<1>g. WatermarkInv'
  <2>1. WmOk(RescaleEpochs, chan[u], WmBase(u), wmSent[u]) /\ WmBase(u) \in Nat
        BY <1>1, <1>5 DEF WatermarkInv, WmBase
  <2>2. WmOk(RescaleEpochs, Tail(chan[u]), WmBase(u), wmSent[u])
        BY <1>2, <1>5, <2>1, WmTail DEF Polls
  <2>3. \A w \in Upstreams : WmOk(RescaleEpochs, chan'[w], WmBase(w), wmSent[w])
        BY <1>1, <1>4, <2>2 DEF WatermarkInv, Upstreams, TypeInv
  <2> QED  BY <1>1, <1>3, <1>4, <1>10, <2>3 DEF WatermarkInv, metaVars, upVars
<1> QED  BY <1>4, <1>a, <1>e, <1>f, <1>g DEF MInv

\* A staged watermark is one of those staged before, or the new one.
LEMMA PushedElements ==
  ASSUME NEW s \in Seq(1 .. MaxWatermark), Len(s) <= StagedCap, NEW v \in 1 .. MaxWatermark
  PROVE  /\ PushWithCap(s, v) \in Seq(1 .. MaxWatermark)
         /\ Len(PushWithCap(s, v)) <= StagedCap
         /\ \A i \in 1 .. Len(PushWithCap(s, v)) :
              \/ PushWithCap(s, v)[i] = v
              \/ \E j \in 1 .. Len(s) : PushWithCap(s, v)[i] = s[j]
<1> DEFINE t == IF Len(s) >= StagedCap THEN Tail(s) ELSE s
<1> USE MergeAssumption
<1>1. /\ t \in Seq(1 .. MaxWatermark) /\ Len(t) + 1 <= StagedCap
      /\ \A i \in 1 .. Len(t) : \E j \in 1 .. Len(s) : t[i] = s[j]
  <2>1. CASE Len(s) >= StagedCap
    <3>1. s # <<>>
          BY <2>1
    <3>2. t = Tail(s)
          BY <2>1
    <3>3. /\ t \in Seq(1 .. MaxWatermark) /\ Len(t) = Len(s) - 1 /\ Len(s) \in Nat
          /\ \A i \in 1 .. Len(s) - 1 : t[i] = s[i + 1]
          BY <3>1, <3>2, TailElements
    <3>4. \A i \in 1 .. Len(s) - 1 : i + 1 \in 1 .. Len(s)
          BY <3>3
    <3> HIDE DEF t
    <3>5. \A i \in 1 .. Len(t) : \E j \in 1 .. Len(s) : t[i] = s[j]
          BY <3>3, <3>4
    <3>6. Len(t) + 1 <= StagedCap
          BY <3>3
    <3> QED  BY <3>3, <3>5, <3>6
  <2>2. CASE ~(Len(s) >= StagedCap)
    <3>1. t = s
          BY <2>2
    <3> QED  BY <2>2, <3>1
  <2> QED  BY <2>1, <2>2
<1> HIDE DEF t
<1>2. /\ Append(t, v) \in Seq(1 .. MaxWatermark) /\ Len(Append(t, v)) = Len(t) + 1
      /\ \A i \in 1 .. Len(t) : Append(t, v)[i] = t[i]
      /\ Append(t, v)[Len(t) + 1] = v /\ Len(t) \in Nat
      BY <1>1, AppendElements
<1>3. PushWithCap(s, v) = Append(t, v)
      BY DEF PushWithCap, t
<1>4. ASSUME NEW i \in 1 .. Len(Append(t, v))
      PROVE  \/ Append(t, v)[i] = v
             \/ \E j \in 1 .. Len(s) : Append(t, v)[i] = s[j]
  <2>1. i \in 1 .. Len(t) \/ i = Len(t) + 1
        BY <1>2
  <2> QED  BY <1>1, <1>2, <2>1
<1> QED  BY <1>1, <1>2, <1>3, <1>4

\* A watermark is above the last one read, and goes into the heap or behind the
\* one there.
LEMMA PollWatermarkStep == ASSUME MInv, NEW u \in Actors, PollWatermark(u) PROVE MInv'
<1> USE MergeAssumption
<1> DEFINE v == Head(chan[u]).val
<1>1. /\ TypeInv /\ AlignInv /\ ChanInv /\ WatermarkInv
      BY DEF MInv
<1>2. Polls(u) /\ Head(chan[u]).kind = "watermark" /\ chan' = [chan EXCEPT ![u] = Tail(@)]
      BY DEF PollWatermark
<1>3. UNCHANGED <<metaVars, upVars, bufVars, builder, inEpoch, connected, active,
                  blocked, aligning, fragment, emitted, status>>
      BY DEF PollWatermark
<1>4. /\ FragmentsFollowed' /\ Lives' /\ BufferInv'
      /\ chan' \in [Actors -> Seq(Messages)] /\ chan'[u] = Tail(chan[u])
      /\ \A w \in Actors : w # u => chan'[w] = chan[w]
      /\ \A e \in emitted' + 1 .. Len(injected') : \A w \in injected'[e].upd.add :
           JoinOk(w, e)' /\ WmOk(RescaleEpochs', chan'[w], 0, wmSent'[w])
      /\ RescaleEpochs' = RescaleEpochs
      BY <1>2, <1>3, PollFrame
<1>5. /\ u \in Upstreams /\ NextRead(u) = emitted + 1 /\ Head(chan[u]) \in Messages
      /\ ChanOk(Tail(chan[u]), NextRead(u), upNext[u]) /\ item = NoItem
      /\ wmSent[u] \in Nat /\ wmRead[u] \in Nat /\ chan[u] \in Seq(Messages) /\ emitted \in Nat
      BY <1>2, PollFacts
<1>6. v \in 1 .. MaxWatermark
      BY <1>2, <1>5 DEF Messages, Rows, Watermarks, AlignedBarriers
<1>7. /\ wmRead' = [wmRead EXCEPT ![u] = v]
      /\ \/ /\ first[u] # 0 /\ staged' = [staged EXCEPT ![u] = PushWithCap(@, v)]
            /\ first' = first /\ item' = item
         \/ /\ first[u] = 0 /\ first' = [first EXCEPT ![u] = v]
            /\ item' = HeapCheck(0) /\ staged' = staged
      BY DEF PollWatermark, HandleWatermark
<1>8. WmBase(u) = wmRead[u]
      BY <1>5 DEF WmBase
<1>9. wmRead[u] < v /\ WmOk(RescaleEpochs, Tail(chan[u]), v, wmSent[u])
  <2>1. WmOk(RescaleEpochs, chan[u], wmRead[u], wmSent[u])
        BY <1>1, <1>5, <1>8 DEF WatermarkInv
  <2>2. v \in Nat /\ chan[u] # <<>>
        BY <1>2, <1>6 DEF Polls
  <2> QED  BY <1>2, <1>5, <2>1, <2>2, WmTail
<1> HIDE DEF v
<1>10. /\ wmRead' \in [Actors -> 0 .. MaxWatermark] /\ wmRead'[u] = v
       /\ \A w \in Actors : w # u => wmRead'[w] = wmRead[w]
       /\ \A w \in Actors : wmRead'[w] >= wmRead[w]
  <2>1. /\ wmRead' \in [Actors -> 0 .. MaxWatermark] /\ wmRead'[u] = v
        /\ \A w \in Actors : w # u => wmRead'[w] = wmRead[w]
        BY <1>1, <1>6, <1>7 DEF TypeInv
  <2>2. ASSUME NEW w \in Actors PROVE wmRead'[w] >= wmRead[w]
    <3>1. wmRead[w] \in Nat
          BY <1>1 DEF TypeInv
    <3> QED  BY <1>6, <1>9, <2>1, <3>1
  <2> QED  BY <2>1, <2>2
<1>11. item.kind = "none" /\ item'.kind \in {"none", "heap"} /\ item' \in Items
      /\ (item'.kind = "heap" => item'.val = 0)
      BY <1>5, <1>7 DEF NoItem, HeapCheck, Items
<1>12. /\ Upstreams' = Upstreams /\ Upstreams \subseteq Actors
       /\ \A w : NextRead(w)' = NextRead(w)
      BY <1>1, <1>3, <1>11 DEF Upstreams, NextRead, TypeInv
<1>13. /\ staged[u] \in Seq(1 .. MaxWatermark) /\ Len(staged[u]) <= StagedCap
      BY <1>1 DEF TypeInv
<1>14. /\ PushWithCap(staged[u], v) \in Seq(1 .. MaxWatermark)
       /\ Len(PushWithCap(staged[u], v)) <= StagedCap
       /\ \A i \in 1 .. Len(PushWithCap(staged[u], v)) :
            \/ PushWithCap(staged[u], v)[i] = v
            \/ \E j \in 1 .. Len(staged[u]) : PushWithCap(staged[u], v)[i] = staged[u][j]
      BY <1>6, <1>13, PushedElements
<1>15. /\ first' \in [Actors -> 0 .. MaxWatermark]
       /\ staged' \in [Actors -> Seq(1 .. MaxWatermark)]
       /\ \A w \in Actors : w # u => first'[w] = first[w] /\ staged'[w] = staged[w]
       /\ first'[u] \in {first[u], v}
       /\ staged'[u] \in {staged[u], PushWithCap(staged[u], v)}
  <2>0. /\ first \in [Actors -> 0 .. MaxWatermark] /\ v \in 0 .. MaxWatermark
        /\ staged \in [Actors -> Seq(1 .. MaxWatermark)]
        BY <1>1, <1>6 DEF TypeInv
  <2>1. CASE first[u] # 0
        BY <1>7, <1>14, <2>0, <2>1
  <2>2. CASE first[u] = 0
        BY <1>7, <2>0, <2>2
  <2> QED  BY <2>1, <2>2
<1>a. TypeInv'
  <2>1. \A w \in Actors : Len(staged'[w]) <= StagedCap
        BY <1>1, <1>14, <1>15 DEF TypeInv
  <2> QED  BY <1>1, <1>3, <1>4, <1>10, <1>11, <1>15, <2>1 DEF TypeInv, metaVars, upVars, bufVars
<1>e. AlignInv'
  <2>1. Upstreams # {}
        BY <1>5
  <2> QED  BY <1>1, <1>3, <1>11, <1>12, <2>1 DEF AlignInv, metaVars
<1>f. ChanInv'
  <2>1. \A w \in Upstreams : ChanOk(chan'[w], NextRead(w), upNext[w])
        BY <1>1, <1>4, <1>5, <1>12 DEF ChanInv
  <2> QED  BY <1>3, <1>4, <1>12, <2>1 DEF ChanInv, metaVars, upVars
<1>g. WatermarkInv'
  <2>1. ASSUME NEW w \in Upstreams PROVE WmOk(RescaleEpochs, chan'[w], WmBase(w)', wmSent[w])
    <3>1. CASE w = u
      <4>1. WmBase(u)' = v
            BY <1>3, <1>5, <1>10, <1>12 DEF WmBase
      <4> QED  BY <1>4, <1>9, <3>1, <4>1
    <3>2. CASE w # u
      <4>1. WmBase(w)' = WmBase(w)
            BY <1>3, <1>4, <1>10, <1>12, <3>2 DEF WmBase
      <4> QED  BY <1>1, <1>4, <1>12, <3>2, <4>1 DEF WatermarkInv
    <3> QED  BY <3>1, <3>2
  <2>2. ASSUME NEW w \in Upstreams PROVE first'[w] <= wmRead'[w]
    <3>1. /\ first[w] <= wmRead[w] /\ first[w] \in Nat /\ wmRead[w] \in Nat
          /\ wmRead'[w] \in Nat /\ wmRead'[w] >= wmRead[w] /\ w \in Actors
          BY <1>1, <1>10, <1>12 DEF WatermarkInv, TypeInv
    <3>2. v \in Nat
          BY <1>6
    <3>3. first'[w] = first[w] \/ (first'[w] = v /\ wmRead'[w] = v)
          BY <1>10, <1>15, <3>1
    <3> QED  BY <3>1, <3>2, <3>3
  <2>3. ASSUME NEW w \in Upstreams, NEW i \in 1 .. Len(staged'[w])
        PROVE  staged'[w][i] <= wmRead'[w]
    <3>1. /\ wmRead[w] \in Nat /\ wmRead'[w] \in Nat /\ wmRead'[w] >= wmRead[w]
          /\ w \in Actors /\ staged[w] \in Seq(1 .. MaxWatermark) /\ v \in Nat
          BY <1>1, <1>6, <1>10, <1>12 DEF TypeInv
    <3>2. ASSUME NEW j \in 1 .. Len(staged[w]) PROVE staged[w][j] <= wmRead'[w]
      <4>1. staged[w][j] <= wmRead[w] /\ staged[w][j] \in 1 .. MaxWatermark
            BY <1>1, <3>1 DEF WatermarkInv
      <4> QED  BY <3>1, <4>1
    <3>3. CASE staged'[w] = staged[w]
          BY <3>2, <3>3
    <3>4. CASE staged'[w] # staged[w]
      <4>1. w = u /\ staged'[w] = PushWithCap(staged[u], v)
            BY <1>15, <3>1, <3>4
      <4>2. staged'[w][i] = v \/ \E j \in 1 .. Len(staged[u]) : staged'[w][i] = staged[u][j]
            BY <1>14, <4>1
      <4> QED  BY <1>10, <3>1, <3>2, <4>1, <4>2
    <3> QED  BY <3>3, <3>4
  <2>4. item'.kind \in {"heap", "watermark"} => \A w \in Upstreams : wmRead'[w] >= item'.val
    <3>1. \A w \in Upstreams : wmRead'[w] >= 0
          BY <1>10, <1>12
    <3> QED  BY <1>11, <3>1
  <2>5. item'.kind # "heap" => \E w \in Upstreams : first'[w] = 0
    <3>1. item'.kind # "heap" => first' = first
          BY <1>7 DEF HeapCheck
    <3> QED  BY <1>1, <1>5, <1>11, <3>1 DEF WatermarkInv
  <2> QED  BY <1>3, <1>4, <1>12, <2>1, <2>2, <2>3, <2>4, <2>5 DEF WatermarkInv, metaVars, upVars
<1> QED  BY <1>4, <1>a, <1>e, <1>f, <1>g DEF MInv

\* The rows in the chunk builder are of the open epoch when they are handed on.
LEMMA HandedInEpoch ==
  ASSUME TypeInv, AlignInv
  PROVE  HandOn(builder) => inEpoch' = TRUE
<1>1. DOMAIN builder = 1 .. Len(builder)
      BY DEF TypeInv
<1>2. inEpoch = TRUE
      BY DEF TypeInv, AlignInv
<1>3. (inEpoch /\ \A i \in DOMAIN builder : builder[i].epoch = emitted + 1) = TRUE
      BY <1>1, <1>2 DEF AlignInv
<1> QED  BY <1>3 DEF HandOn

\* A barrier blocks its upstream, or completes the alignment.
LEMMA PollBarrierStep == ASSUME MInv, NEW u \in Actors, PollBarrier(u) PROVE MInv'
<1> USE MergeAssumption
<1>1. /\ TypeInv /\ AlignInv /\ ChanInv /\ WatermarkInv
      BY DEF MInv
<1>2. Polls(u) /\ Head(chan[u]).kind = "barrier" /\ chan' = [chan EXCEPT ![u] = Tail(@)]
      BY DEF PollBarrier
<1>3. UNCHANGED <<metaVars, upVars, bufVars, connected, first, staged, fragment,
                  emitted, wmRead>>
      BY DEF PollBarrier
<1>4. /\ FragmentsFollowed' /\ Lives' /\ BufferInv'
      /\ chan' \in [Actors -> Seq(Messages)] /\ chan'[u] = Tail(chan[u])
      /\ \A w \in Actors : w # u => chan'[w] = chan[w]
      /\ \A e \in emitted' + 1 .. Len(injected') : \A w \in injected'[e].upd.add :
           JoinOk(w, e)' /\ WmOk(RescaleEpochs', chan'[w], 0, wmSent'[w])
      /\ RescaleEpochs' = RescaleEpochs
      BY <1>2, <1>3, PollFrame
<1>5. /\ u \in Upstreams /\ u \notin blocked /\ NextRead(u) = emitted + 1 /\ item = NoItem
      /\ Head(chan[u]).epoch = emitted + 1 /\ ChanOk(Tail(chan[u]), emitted + 2, upNext[u])
      /\ wmSent[u] \in Nat /\ wmRead[u] \in Nat /\ chan[u] \in Seq(Messages) /\ emitted \in Nat
      BY <1>2, PollFacts
<1>6. u \in active /\ chan[u] # <<>> /\ item.kind = "none"
      BY <1>2, <1>5 DEF Polls, NoItem
<1>7. aligning \in {0, emitted + 1}
      BY <1>1 DEF AlignInv
<1>8. /\ status' = status
      /\ \/ /\ active = {u} /\ active' = blocked \cup {u} /\ blocked' = {} /\ aligning' = 0
            /\ Return(BarrierOf(emitted + 1))
         \/ /\ active # {u} /\ active' = active \ {u} /\ blocked' = blocked \cup {u}
            /\ aligning' = emitted + 1 /\ UNCHANGED execVars
      BY <1>5, <1>7 DEF PollBarrier
<1>9. /\ active \subseteq Actors /\ blocked \subseteq Actors /\ active \cap blocked = {}
      BY <1>1 DEF TypeInv
<1>10. Upstreams' = Upstreams /\ Upstreams \subseteq Actors
      BY <1>6, <1>8, <1>9 DEF Upstreams
<1>11. /\ NextRead(u)' = emitted + 2
       /\ \A w \in Upstreams : w # u => NextRead(w)' = NextRead(w)
  <2>1. CASE active = {u}
    <3>1. item' = BarrierOf(emitted + 1)
          BY <1>8, <2>1 DEF Return
    <3>2. item'.kind = "barrier" /\ emitted' = emitted
          BY <1>3, <3>1 DEF BarrierOf
    <3>3. \A w \in Upstreams : w # u => w \in blocked
          BY <2>1 DEF Upstreams
    <3> QED  BY <3>2, <3>3 DEF NextRead
  <2>2. CASE active # {u}
        BY <1>3, <1>6, <1>8, <2>2 DEF NextRead, execVars
  <2> QED  BY <2>1, <2>2
<1>a. TypeInv'
  <2>1. item' \in Items /\ builder' \in Seq(Rows) /\ inEpoch' \in BOOLEAN
    <3>1. CASE active = {u}
      <4>1. item' = BarrierOf(emitted + 1) /\ builder' = <<>> /\ inEpoch' = TRUE
            BY <1>1, <1>8, <3>1, HandedInEpoch DEF Return
      <4> QED  BY <1>5, <4>1 DEF Items, AlignedBarriers, BarrierOf
    <3>2. CASE active # {u}
          BY <1>1, <1>8, <3>2 DEF execVars, TypeInv
    <3> QED  BY <3>1, <3>2
  <2>2. /\ active' \subseteq Actors /\ blocked' \subseteq Actors /\ active' \cap blocked' = {}
        /\ aligning' \in Nat
        BY <1>5, <1>8, <1>9
  <2> QED  BY <1>1, <1>3, <1>4, <1>8, <2>1, <2>2 DEF TypeInv, metaVars, upVars, bufVars
<1>e. AlignInv'
  <2>1. Upstreams # {} /\ plan' = plan /\ emitted' = emitted
        BY <1>3, <1>5 DEF metaVars
  <2>2. CASE active = {u}
    <3>1. item' = BarrierOf(emitted + 1) /\ builder' = <<>> /\ inEpoch' = TRUE
          BY <1>1, <1>8, <2>2, HandedInEpoch DEF Return
    <3>2. item'.kind = "barrier" /\ item'.epoch = emitted + 1
          BY <3>1 DEF BarrierOf
    <3>3. active' # {} /\ blocked' = {} /\ aligning' = 0
          BY <1>8, <2>2
    <3> QED  BY <1>1, <1>8, <1>10, <2>1, <3>1, <3>2, <3>3 DEF AlignInv
  <2>3. CASE active # {u}
    <3>1. active' # {} /\ blocked' # {} /\ aligning' = emitted + 1
          BY <1>6, <1>8, <2>3
    <3>2. item' = item /\ builder' = builder /\ inEpoch' = inEpoch
          BY <1>8, <2>3 DEF execVars
    <3> QED  BY <1>1, <1>6, <1>8, <1>10, <2>1, <3>1, <3>2 DEF AlignInv
  <2> QED  BY <2>2, <2>3
<1>f. ChanInv'
  <2>1. \A w \in Upstreams : ChanOk(chan'[w], NextRead(w)', upNext[w])
        BY <1>1, <1>4, <1>5, <1>10, <1>11 DEF ChanInv
  <2> QED  BY <1>3, <1>4, <1>10, <2>1 DEF ChanInv, metaVars, upVars
<1>g. WatermarkInv'
  <2>1. WmBase(u)' \in Nat /\ WmOk(RescaleEpochs, Tail(chan[u]), WmBase(u)', wmSent[u])
    <3>1. WmOk(RescaleEpochs, chan[u], wmRead[u], wmSent[u])
      <4>1. WmBase(u) = wmRead[u]
            BY <1>5 DEF WmBase
      <4> QED  BY <1>1, <1>5, <4>1 DEF WatermarkInv
    <3>2. WmBase(u)' = IF emitted + 1 \in RescaleEpochs THEN 0 ELSE wmRead[u]
          BY <1>3, <1>4, <1>11 DEF WmBase
    <3>3. ~(Head(chan[u]).kind = "barrier" /\ Head(chan[u]).epoch \in RescaleEpochs)
            <=> emitted + 1 \notin RescaleEpochs
          BY <1>2, <1>5
    <3>4. CASE emitted + 1 \in RescaleEpochs
          BY <1>5, <1>6, <3>1, <3>2, <3>4, WmTail
    <3>5. CASE emitted + 1 \notin RescaleEpochs
      <4>1. Head(chan[u]).kind # "watermark"
            BY <1>2
      <4> QED  BY <1>5, <1>6, <3>1, <3>2, <3>3, <3>5, <4>1, WmTail
    <3> QED  BY <3>4, <3>5
  <2>2. ASSUME NEW w \in Upstreams PROVE WmOk(RescaleEpochs, chan'[w], WmBase(w)', wmSent[w])
    <3>1. CASE w = u
          BY <1>4, <2>1, <3>1
    <3>2. CASE w # u
      <4>1. WmBase(w)' = WmBase(w)
            BY <1>3, <1>4, <1>11, <3>2 DEF WmBase
      <4> QED  BY <1>1, <1>4, <1>10, <3>2, <4>1 DEF WatermarkInv
    <3> QED  BY <3>1, <3>2
  <2>3. item'.kind \in {"none", "barrier"}
        BY <1>6, <1>8 DEF Return, BarrierOf, execVars
  <2>4. \E w \in Upstreams : first[w] = 0
        BY <1>1, <1>5, <1>6 DEF WatermarkInv
  <2> QED  BY <1>1, <1>3, <1>4, <1>10, <2>2, <2>3, <2>4 DEF WatermarkInv, metaVars, upVars
<1> QED  BY <1>4, <1>a, <1>e, <1>f, <1>g DEF MInv

\* Between two messages nothing about barriers and channels changes.
LEMMA QuietFrame ==
  ASSUME MInv, item.kind # "barrier", item'.kind # "barrier",
         UNCHANGED <<metaVars, upVars, bufVars, chan, connected, active, blocked, aligning,
                     fragment, emitted, wmRead, status>>
  PROVE  /\ FragmentsFollowed' /\ Lives' /\ BufferInv' /\ ChanInv'
         /\ Upstreams' = Upstreams
         /\ \A u \in Upstreams : WmOk(RescaleEpochs', chan'[u], WmBase(u)', wmSent'[u])
         /\ \A e \in emitted' + 1 .. Len(injected') : \A u \in injected'[e].upd.add :
              WmOk(RescaleEpochs', chan'[u], 0, wmSent'[u])
<1>1. /\ FragmentsFollowed /\ Lives /\ BufferInv /\ ChanInv /\ WatermarkInv
      BY DEF MInv
<1>2. /\ injected' = injected /\ plan' = plan /\ upNext' = upNext /\ wmSent' = wmSent
      /\ fetched' = fetched /\ creating' = creating /\ connected' = connected
      /\ emitted' = emitted /\ chan' = chan /\ buffer' = buffer
      BY DEF metaVars, upVars, bufVars
<1>3. /\ Upstreams' = Upstreams /\ RescaleEpochs' = RescaleEpochs
      /\ \A w : NextRead(w)' = NextRead(w) /\ WmBase(w)' = WmBase(w)
      BY <1>2 DEF Upstreams, RescaleEpochs, NextRead, WmBase
<1>4. FragmentsFollowed'
  <2>1. PICK frag \in [0 .. MaxEpoch -> Fragments] : History(frag) /\ Places(frag)
        BY <1>1 DEF FragmentsFollowed
  <2>2. History(frag)' /\ Places(frag)'
        BY <1>2, <2>1 DEF History, Places, metaVars, bufVars
  <2> QED  BY <2>2 DEF FragmentsFollowed
<1>5. Lives' /\ BufferInv'
      BY <1>1, <1>2 DEF Lives, BufferInv
<1>6. ChanInv'
      BY <1>1, <1>2, <1>3 DEF ChanInv, JoinOk
<1> QED  BY <1>1, <1>2, <1>3, <1>4, <1>5, <1>6 DEF WatermarkInv

\* The next operator takes a watermark.
LEMMA EmitWatermarkStep == MInv /\ EmitWatermark => MInv'
<1> SUFFICES ASSUME MInv, EmitWatermark PROVE MInv'
    OBVIOUS
<1>1. TypeInv /\ AlignInv /\ WatermarkInv
      BY DEF MInv
<1>2. /\ item.kind = "watermark" /\ item' = NoItem /\ item'.kind = "none"
      /\ UNCHANGED <<metaVars, upVars, bufVars, builder, inEpoch, chan, connected, active,
                     blocked, aligning, first, staged, fragment, emitted, wmRead, status>>
      BY DEF EmitWatermark, NoItem
<1>3. /\ FragmentsFollowed' /\ Lives' /\ BufferInv' /\ ChanInv' /\ Upstreams' = Upstreams
      /\ \A u \in Upstreams : WmOk(RescaleEpochs', chan'[u], WmBase(u)', wmSent'[u])
      /\ \A e \in emitted' + 1 .. Len(injected') : \A u \in injected'[e].upd.add :
           WmOk(RescaleEpochs', chan'[u], 0, wmSent'[u])
      BY <1>2, QuietFrame
<1>4. TypeInv'
      BY <1>1, <1>2 DEF TypeInv, Items, metaVars, upVars, bufVars
<1>5. AlignInv'
      BY <1>1, <1>2, <1>3 DEF AlignInv, metaVars
<1>6. WatermarkInv'
      BY <1>1, <1>2, <1>3 DEF WatermarkInv
<1> QED  BY <1>3, <1>4, <1>5, <1>6 DEF MInv

\* The rows of a partial chunk are handed on.
LEMMA PollPendingStep == MInv /\ PollPending => MInv'
<1> SUFFICES ASSUME MInv, PollPending PROVE MInv'
    OBVIOUS
<1>1. TypeInv /\ AlignInv /\ WatermarkInv
      BY DEF MInv
<1>2. /\ item.kind = "none" /\ item' = item /\ builder' = <<>> /\ inEpoch' = TRUE
      /\ UNCHANGED <<metaVars, upVars, bufVars, chan, connected, active,
                     blocked, aligning, first, staged, fragment, emitted, wmRead, status>>
      BY <1>1, HandedInEpoch DEF PollPending, NoItem
<1>3. /\ FragmentsFollowed' /\ Lives' /\ BufferInv' /\ ChanInv' /\ Upstreams' = Upstreams
      /\ \A u \in Upstreams : WmOk(RescaleEpochs', chan'[u], WmBase(u)', wmSent'[u])
      /\ \A e \in emitted' + 1 .. Len(injected') : \A u \in injected'[e].upd.add :
           WmOk(RescaleEpochs', chan'[u], 0, wmSent'[u])
      BY <1>2, QuietFrame
<1>4. TypeInv'
      BY <1>1, <1>2 DEF TypeInv, metaVars, upVars, bufVars
<1>5. AlignInv'
      BY <1>1, <1>2, <1>3 DEF AlignInv, metaVars
<1>6. WatermarkInv'
      BY <1>1, <1>2, <1>3 DEF WatermarkInv
<1> QED  BY <1>3, <1>4, <1>5, <1>6 DEF MInv

\* The watermark at the top of the heap is the smallest in it.
LEMMA SmallestFacts ==
  ASSUME TypeInv, InHeap # {}
  PROVE  /\ SmallestInHeap \in InHeap
         /\ \A w \in InHeap : first[SmallestInHeap] <= first[w]
<1> DEFINE T == {first[u] : u \in InHeap}
<1>1. InHeap \subseteq Actors /\ \A u \in InHeap : first[u] \in Nat
      BY MergeAssumption DEF TypeInv, InHeap, Upstreams
<1>2. T \subseteq Nat /\ T # {}
      BY <1>1
<1>3. PICK x \in T : \A y \in T : ~(<<y, x>> \in OpToRel(<, Nat))
      BY <1>2, NatLessThanWellFounded, WFMin
<1>4. \A y \in T : x <= y
  <2> TAKE y \in T
  <2>1. x \in Nat /\ y \in Nat
        BY <1>2
  <2>2. ~(y < x)
        BY <1>3, <2>1 DEF OpToRel
  <2> QED  BY <2>1, <2>2
<1>5. \E u \in InHeap : \A w \in InHeap : first[u] <= first[w]
      BY <1>4
<1> QED  BY <1>5 DEF SmallestInHeap

\* A watermark is popped when every upstream read one as large.
LEMMA HeapPopStep == MInv /\ HeapPop => MInv'
<1> SUFFICES ASSUME MInv, HeapPop PROVE MInv'
    OBVIOUS
<1> USE MergeAssumption
<1> DEFINE u == SmallestInHeap
<1>1. TypeInv /\ AlignInv /\ WatermarkInv
      BY DEF MInv
<1>2. InHeap # {} /\ (InHeap = Upstreams \/ item.val = first[u]) /\ item.kind = "heap"
      BY DEF HeapPop, HeapMayPop
<1>3. u \in InHeap /\ \A w \in InHeap : first[u] <= first[w]
      BY <1>1, <1>2, SmallestFacts
<1>4. /\ item' = HeapCheck(first[u])
      /\ first' = [first EXCEPT ![u] = IF staged[u] = <<>> THEN 0 ELSE Head(staged[u])]
      /\ staged' = [staged EXCEPT ![u] = IF @ = <<>> THEN @ ELSE Tail(@)]
      BY DEF HeapPop
<1>5. UNCHANGED <<metaVars, upVars, bufVars, builder, inEpoch, chan, connected,
                  active, blocked, aligning, fragment, emitted, wmRead, status>>
      BY DEF HeapPop
<1> HIDE DEF u
<1>6. /\ u \in Upstreams /\ u \in Actors /\ Upstreams \subseteq Actors
      /\ first[u] \in 0 .. MaxWatermark /\ staged[u] \in Seq(1 .. MaxWatermark)
      /\ Len(staged[u]) <= StagedCap
      BY <1>1, <1>3 DEF TypeInv, InHeap, Upstreams
<1>7. item'.kind = "heap" /\ item'.val = first[u] /\ item' \in Items
      BY <1>4, <1>6 DEF HeapCheck, Items
<1>8. /\ FragmentsFollowed' /\ Lives' /\ BufferInv' /\ ChanInv' /\ Upstreams' = Upstreams
      /\ \A w \in Upstreams : WmOk(RescaleEpochs', chan'[w], WmBase(w)', wmSent'[w])
      /\ \A e \in emitted' + 1 .. Len(injected') : \A w \in injected'[e].upd.add :
           WmOk(RescaleEpochs', chan'[w], 0, wmSent'[w])
      BY <1>2, <1>5, <1>7, QuietFrame
<1>9. /\ staged'[u] \in Seq(1 .. MaxWatermark) /\ Len(staged'[u]) <= StagedCap
      /\ \A i \in 1 .. Len(staged'[u]) : \E j \in 1 .. Len(staged[u]) : staged'[u][i] = staged[u][j]
      /\ first'[u] = 0 \/ \E j \in 1 .. Len(staged[u]) : first'[u] = staged[u][j]
      /\ first'[u] \in 0 .. MaxWatermark
  <2>1. CASE staged[u] = <<>>
        BY <1>1, <1>4, <1>6, <2>1 DEF TypeInv
  <2>2. CASE staged[u] # <<>>
    <3>1. /\ first'[u] = Head(staged[u]) /\ staged'[u] = Tail(staged[u])
          BY <1>1, <1>4, <1>6, <2>2 DEF TypeInv
    <3>2. /\ Tail(staged[u]) \in Seq(1 .. MaxWatermark)
          /\ Len(Tail(staged[u])) = Len(staged[u]) - 1
          /\ Len(staged[u]) \in Nat /\ Len(staged[u]) >= 1
          /\ \A i \in 1 .. Len(staged[u]) - 1 : Tail(staged[u])[i] = staged[u][i + 1]
          /\ Head(staged[u]) = staged[u][1] /\ Head(staged[u]) \in 1 .. MaxWatermark
          BY <1>6, <2>2, TailElements
    <3>3. Len(staged'[u]) <= StagedCap /\ first'[u] \in 0 .. MaxWatermark
          BY <1>6, <3>1, <3>2
    <3>4. \A i \in 1 .. Len(staged'[u]) : \E j \in 1 .. Len(staged[u]) : staged'[u][i] = staged[u][j]
      <4> TAKE i \in 1 .. Len(staged'[u])
      <4>1. i + 1 \in 1 .. Len(staged[u]) /\ staged'[u][i] = staged[u][i + 1]
            BY <3>1, <3>2
      <4> QED  BY <4>1
    <3>5. \E j \in 1 .. Len(staged[u]) : first'[u] = staged[u][j]
      <4>1. 1 \in 1 .. Len(staged[u])
            BY <3>2
      <4> QED  BY <3>1, <3>2, <4>1
    <3> QED  BY <3>1, <3>2, <3>3, <3>4, <3>5
  <2> QED  BY <2>1, <2>2
<1>10. /\ first' \in [Actors -> 0 .. MaxWatermark]
       /\ staged' \in [Actors -> Seq(1 .. MaxWatermark)]
       /\ \A w \in Actors : w # u => first'[w] = first[w] /\ staged'[w] = staged[w]
       /\ \A w \in Actors : Len(staged'[w]) <= StagedCap
      BY <1>1, <1>4, <1>6, <1>9 DEF TypeInv
<1>11. TypeInv'
      BY <1>1, <1>5, <1>7, <1>10 DEF TypeInv, metaVars, upVars, bufVars
<1>12. AlignInv'
      BY <1>1, <1>2, <1>5, <1>6, <1>7, <1>8 DEF AlignInv, metaVars
<1>13. \A w \in Upstreams : wmRead[w] >= first[u]
  <2>1. CASE item.val = first[u]
        BY <1>1, <1>2, <2>1 DEF WatermarkInv
  <2>2. CASE InHeap = Upstreams
    <3> TAKE w \in Upstreams
    <3>1. first[u] <= first[w] /\ first[w] <= wmRead[w]
          BY <1>1, <1>3, <2>2 DEF WatermarkInv
    <3>2. first[u] \in Nat /\ first[w] \in Nat /\ wmRead[w] \in Nat
          BY <1>1, <1>6 DEF TypeInv
    <3> QED  BY <3>1, <3>2
  <2> QED  BY <1>2, <2>1, <2>2
<1>14. ASSUME NEW w \in Upstreams
       PROVE  /\ first'[w] <= wmRead[w]
              /\ \A i \in 1 .. Len(staged'[w]) : staged'[w][i] <= wmRead[w]
  <2>1. /\ first[w] <= wmRead[w] /\ \A i \in 1 .. Len(staged[w]) : staged[w][i] <= wmRead[w]
        BY <1>1 DEF WatermarkInv
  <2>2. wmRead[w] \in Nat
        BY <1>1, <1>6 DEF TypeInv
  <2>3. CASE w = u
    <3>1. 0 <= wmRead[w]
          BY <2>2
    <3> QED  BY <1>9, <2>1, <2>3, <3>1
  <2>4. CASE w # u
        BY <1>6, <1>10, <2>1, <2>4
  <2> QED  BY <2>3, <2>4
<1>15. WatermarkInv'
      BY <1>5, <1>7, <1>8, <1>13, <1>14 DEF WatermarkInv
<1> QED  BY <1>8, <1>11, <1>12, <1>15 DEF MInv

\* When the check of the heap ends, some upstream has no watermark in it.
LEMMA HeapCheckedStep == MInv /\ HeapChecked => MInv'
<1> SUFFICES ASSUME MInv, HeapChecked PROVE MInv'
    OBVIOUS
<1> USE MergeAssumption
<1>1. TypeInv /\ AlignInv /\ WatermarkInv
      BY DEF MInv
<1>2. /\ item.kind = "heap" /\ (InHeap = {} \/ InHeap # Upstreams)
      BY DEF HeapChecked, HeapMayPop
<1>3. UNCHANGED <<metaVars, upVars, bufVars, chan, connected, active, blocked,
                  aligning, first, staged, fragment, emitted, wmRead, status>>
      BY DEF HeapChecked
<1>4. item.val \in 0 .. MaxWatermark
      BY <1>1, <1>2 DEF TypeInv, Items, NoItem, AlignedBarriers, Watermarks
<1>5. \/ item.val = 0 /\ item' = NoItem /\ builder' = builder /\ inEpoch' = inEpoch
      \/ item.val # 0 /\ item' = Watermark(item.val) /\ builder' = <<>> /\ inEpoch' = TRUE
      BY <1>1, HandedInEpoch DEF HeapChecked, Return
<1>6. /\ item' \in Items /\ item'.kind \in {"none", "watermark"}
      /\ item'.kind = "watermark" => item'.val = item.val
      /\ builder' \in {<<>>, builder} /\ inEpoch' = TRUE
  <2>1. inEpoch = TRUE
        BY <1>1 DEF AlignInv, TypeInv
  <2>2. CASE item.val = 0
        BY <1>5, <2>1, <2>2 DEF NoItem, Items
  <2>3. CASE item.val # 0
    <3>1. item.val \in 1 .. MaxWatermark /\ item' = Watermark(item.val)
          BY <1>4, <1>5, <2>3
    <3> QED  BY <1>5, <2>3, <3>1 DEF Watermark, Items, Watermarks
  <2> QED  BY <2>2, <2>3
<1>7. /\ FragmentsFollowed' /\ Lives' /\ BufferInv' /\ ChanInv' /\ Upstreams' = Upstreams
      /\ \A w \in Upstreams : WmOk(RescaleEpochs', chan'[w], WmBase(w)', wmSent'[w])
      /\ \A e \in emitted' + 1 .. Len(injected') : \A w \in injected'[e].upd.add :
           WmOk(RescaleEpochs', chan'[w], 0, wmSent'[w])
      BY <1>2, <1>3, <1>6, QuietFrame
<1>8. builder' \in Seq(Rows) /\ \A i \in 1 .. Len(builder') : builder'[i].epoch = emitted + 1
  <2>1. CASE builder' = <<>>
        BY <2>1
  <2>2. CASE builder' = builder
        BY <1>1, <2>2 DEF TypeInv, AlignInv
  <2> QED  BY <1>6, <2>1, <2>2
<1>9. TypeInv'
      BY <1>1, <1>3, <1>6, <1>8 DEF TypeInv, metaVars, upVars, bufVars
<1>10. Upstreams # {}
      BY <1>1, <1>2 DEF AlignInv, NoItem
<1>11. AlignInv'
      BY <1>1, <1>3, <1>6, <1>7, <1>8, <1>10 DEF AlignInv, metaVars
<1>12. \E w \in Upstreams : first[w] = 0
      BY <1>2, <1>10 DEF InHeap
<1>13. WatermarkInv'
      BY <1>1, <1>2, <1>3, <1>6, <1>7, <1>12 DEF WatermarkInv
<1> QED  BY <1>7, <1>9, <1>11, <1>13 DEF MInv

------------------------------------------------------------------------------
(* The executor. *)

\* An emitted barrier is the aligned one, and its update makes the upstream set
\* the one wanted after it.
LEMMA EmitBarrierStep == MInv /\ EmitBarrier => MInv'
<1> SUFFICES ASSUME MInv, EmitBarrier PROVE MInv'
    OBVIOUS
<1> USE MergeAssumption
<1> DEFINE e == emitted + 1
           b == injected[e]
<1>1. /\ TypeInv /\ FragmentsFollowed /\ Lives /\ BufferInv /\ AlignInv
      /\ ChanInv /\ WatermarkInv
      BY DEF MInv
<1>2. /\ emitted \in Nat /\ fetched \in Nat /\ creating \in Nat /\ Len(injected) \in Nat
      /\ buffer # <<>> /\ buffer \in Seq([epoch : Nat, inputs : SUBSET Actors])
      BY <1>1 DEF TypeInv, EmitBarrier
<1>3. /\ Len(buffer) \in Nat /\ Len(buffer) >= 1 /\ Len(Tail(buffer)) = Len(buffer) - 1
      /\ Head(buffer) = buffer[1] /\ Tail(buffer) \in Seq([epoch : Nat, inputs : SUBSET Actors])
      /\ \A i \in 1 .. Len(buffer) - 1 : Tail(buffer)[i] = buffer[i + 1]
      BY <1>2, TailElements
<1>4. Head(buffer) = [epoch |-> e, inputs |-> b.upd.add]
  <2>1. 1 \in 1 .. Len(buffer)
        BY <1>3
  <2> QED  BY <1>1, <1>3, <2>1 DEF BufferInv
<1>5. /\ e <= fetched /\ fetched <= Len(injected) /\ e \in 1 .. Len(injected)
      /\ creating # e /\ (creating # 0 => creating > e) /\ emitted < Len(injected)
      /\ Len(Tail(buffer)) = fetched - e - (IF creating = 0 THEN 0 ELSE 1)
      BY <1>1, <1>2, <1>3 DEF BufferInv
<1>6. AsUpdateMerge(b, fragment) = b.upd
      BY <1>5, UpdateFound
<1>7. PICK frag \in [0 .. MaxEpoch -> Fragments] : History(frag) /\ Places(frag)
      BY <1>1 DEF FragmentsFollowed
<1>8. /\ b.upd \in Updates /\ b.upd.add \subseteq Actors /\ b.upd.to \in MaybeFragment
  <2>1. b \in Barriers
        BY <1>1, <1>5 DEF TypeInv
  <2>2. b.upd \in Updates
        BY <2>1 DEF Barriers
  <2> QED  BY <2>2 DEF Updates
<1>9. /\ plan[e + 1] = Updated(plan[e], b.upd) /\ b.disp \in {{}, plan[e]}
      /\ frag[e] = IF b.upd.to = NoFragment THEN fragment ELSE b.upd.to
  <2>1. e - 1 = emitted
        BY <1>2
  <2> QED  BY <1>5, <1>7, <2>1 DEF History, Places
<1>10. /\ Upstreams = plan[e] /\ Upstreams \subseteq Actors
      BY <1>1 DEF AlignInv, TypeInv, Upstreams
<1>11. /\ blocked = {} /\ active = Upstreams /\ builder = <<>> /\ aligning = 0
       /\ (item # NoItem => item.epoch = e) /\ item.kind \in {"none", "barrier"}
       /\ (item.kind = "barrier" \/ Upstreams = {})
      BY <1>1 DEF EmitBarrier, BarrierDue, AlignInv, Upstreams, NoItem
<1>12. FlushesWatermarks(b, b.upd) <=> Rescales(b)
  <2>1. b.disp # {} => b.disp \cap Upstreams # {}
        BY <1>9, <1>10
  <2> QED  BY <2>1 DEF FlushesWatermarks, Rescales
<1>13. /\ status' = IF b.stop THEN "stopped" ELSE status
       /\ active' = IF b.upd = NoUpdate THEN active
                    ELSE (active \cup b.upd.add)
                           \ (IF b.upd.to # NoFragment THEN Upstreams ELSE b.upd.remove)
       /\ fragment' = IF b.upd.to = NoFragment THEN fragment ELSE b.upd.to
       /\ first' = IF Rescales(b) THEN [u \in Actors |-> 0] ELSE first
       /\ staged' = IF Rescales(b) THEN [u \in Actors |-> <<>>] ELSE staged
       /\ wmRead' = IF Rescales(b) THEN [u \in Actors |-> 0] ELSE wmRead
       /\ emitted' = e /\ buffer' = Tail(buffer) /\ item' = NoItem
  <2>1. Head(buffer).epoch = e /\ Head(buffer).inputs = b.upd.add
        BY <1>4
  <2>2. ~(item # NoItem /\ item.epoch # e)
        BY <1>11
  <2> HIDE DEF e, b
  <2>3. injected[e] = b
        BY DEF b
  <2> QED  BY <1>6, <1>12, <2>1, <2>2, <2>3 DEF EmitBarrier
<1>14. UNCHANGED <<metaVars, upVars, fetched, creating, bufFragment, builder,
                   inEpoch, chan, connected, blocked, aligning>>
      BY DEF EmitBarrier
<1>15. /\ injected' = injected /\ plan' = plan /\ upNext' = upNext /\ wmSent' = wmSent
       /\ RescaleEpochs' = RescaleEpochs
      BY <1>14 DEF metaVars, upVars, RescaleEpochs
<1>16. /\ \A u \in b.upd.add : u \notin plan[e] /\ u \in Actors
  <2>1. e \in 1 .. e
        BY <1>5
  <2> QED  BY <1>1, <1>5, <2>1, AddsAreNew
<1>17. active' = plan[e + 1] /\ Upstreams' = plan[e + 1] /\ active' \subseteq Actors
  <2>1. active' = plan[e + 1]
    <3>1. CASE b.upd = NoUpdate
          BY <1>9, <1>10, <1>11, <1>13, <3>1 DEF Updated, NoUpdate
    <3>2. CASE b.upd # NoUpdate /\ b.upd.to # NoFragment
          BY <1>9, <1>10, <1>11, <1>13, <1>16, <3>2 DEF Updated
    <3>3. CASE b.upd # NoUpdate /\ b.upd.to = NoFragment
          BY <1>9, <1>10, <1>11, <1>13, <3>3 DEF Updated
    <3> QED  BY <3>1, <3>2, <3>3
  <2>2. e + 1 \in 1 .. Len(plan)
        BY <1>1, <1>2, <1>5 DEF TypeInv
  <2>3. plan[e + 1] \subseteq Actors
        BY <1>1, <2>2 DEF TypeInv
  <2> QED  BY <1>11, <1>14, <2>1, <2>3 DEF Upstreams
<1>18. item'.kind = "none" /\ \A u : NextRead(u)' = e + 1 /\ WmBase(u)' = wmRead'[u]
  <2>1. e + 1 # e + 2
        BY <1>2
  <2> QED  BY <1>11, <1>13, <1>14, <2>1 DEF NextRead, WmBase, NoItem
<1>19. \A u \in plan[e + 1] : u \in b.upd.add \/ u \in Upstreams
      BY <1>9, <1>10 DEF Updated
<1>20. e + 1 = emitted + 2 /\ \A f \in e + 1 .. Len(injected) : f \in emitted + 1 .. Len(injected)
      BY <1>2
<1>21. \A u \in b.upd.add : /\ ChanOk(chan[u], e + 1, upNext[u])
                            /\ WmOk(RescaleEpochs, chan[u], 0, wmSent[u])
  <2> TAKE u \in b.upd.add
  <2>1. e \in emitted + 1 .. Len(injected)
        BY <1>2, <1>5
  <2>2. JoinOk(u, e) /\ WmOk(RescaleEpochs, chan[u], 0, wmSent[u])
        BY <1>1, <2>1 DEF ChanInv, WatermarkInv
  <2>3. ~(e > fetched)
        BY <1>2, <1>5
  <2> QED  BY <1>5, <2>2, <2>3 DEF JoinOk
<1>22. \A u \in Upstreams : /\ ChanOk(chan[u], e + 1, upNext[u])
                            /\ WmOk(RescaleEpochs, chan[u],
                                    IF Rescales(b) THEN 0 ELSE wmRead[u], wmSent[u])
  <2> TAKE u \in Upstreams
  <2>1. item.kind = "barrier"
        BY <1>11
  <2>2. NextRead(u) = emitted + 2
        BY <2>1 DEF NextRead
  <2>3. e \in RescaleEpochs <=> Rescales(b)
        BY <1>5 DEF RescaleEpochs
  <2>4. WmBase(u) = IF Rescales(b) THEN 0 ELSE wmRead[u]
        BY <2>2, <2>3 DEF WmBase
  <2> QED  BY <1>1, <1>20, <2>2, <2>4 DEF ChanInv, WatermarkInv
<1> HIDE DEF e, b
<1>a. TypeInv'
  <2>1. /\ first' \in [Actors -> 0 .. MaxWatermark] /\ wmRead' \in [Actors -> 0 .. MaxWatermark]
        BY <1>1, <1>13 DEF TypeInv
  <2>2. /\ staged' \in [Actors -> Seq(1 .. MaxWatermark)]
        /\ \A u \in Actors : Len(staged'[u]) <= StagedCap
    <3>1. CASE Rescales(b)
          BY <1>13, <3>1
    <3>2. CASE ~Rescales(b)
          BY <1>1, <1>13, <3>2 DEF TypeInv
    <3> QED  BY <3>1, <3>2
  <2>3. fragment' \in Fragments /\ status' \in {"running", "stopped", "failed"}
        BY <1>1, <1>8, <1>13 DEF TypeInv, MaybeFragment
  <2>4. item' \in Items /\ buffer' \in Seq([epoch : Nat, inputs : SUBSET Actors]) /\ emitted' \in Nat
        BY <1>2, <1>3, <1>13 DEF Items, e
  <2>5. active' \subseteq Actors /\ active' \cap blocked' = {}
        BY <1>11, <1>14, <1>17
  <2> QED  BY <1>1, <1>14, <2>1, <2>2, <2>3, <2>4, <2>5 DEF TypeInv, metaVars, upVars
<1>b. FragmentsFollowed'
  <2>1. History(frag)'
        BY <1>7, <1>15 DEF History
  <2>2. Places(frag)'
        BY <1>7, <1>9, <1>13, <1>14, <1>15 DEF Places, metaVars
  <2> QED  BY <2>1, <2>2 DEF FragmentsFollowed
<1>c. Lives'
      BY <1>1, <1>14, <1>15 DEF Lives
<1>d. BufferInv'
  <2>1. ASSUME NEW i \in 1 .. Len(Tail(buffer))
        PROVE  Tail(buffer)[i] = [epoch |-> e + i, inputs |-> injected[e + i].upd.add]
    <3>1. i + 1 \in 1 .. Len(buffer) /\ emitted + (i + 1) = e + i
          BY <1>2, <1>3 DEF e
    <3>2. buffer[i + 1] = [epoch |-> emitted + (i + 1), inputs |-> injected[emitted + (i + 1)].upd.add]
          BY <1>1, <3>1 DEF BufferInv
    <3>3. Tail(buffer)[i] = buffer[i + 1]
          BY <1>3
    <3> QED  BY <3>1, <3>2, <3>3
  <2> QED  BY <1>1, <1>5, <1>13, <1>14, <1>15, <2>1 DEF BufferInv
<1>e. AlignInv'
  <2>1. inEpoch' /\ status' # "failed"
        BY <1>1, <1>13, <1>14 DEF AlignInv
  <2> QED  BY <1>11, <1>13, <1>14, <1>15, <1>17, <1>18, <2>1 DEF AlignInv
<1>f. ChanInv'
  <2>1. \A u \in plan[e + 1] : ChanOk(chan[u], e + 1, upNext[u])
        BY <1>19, <1>21, <1>22
  <2>2. \A f \in e + 1 .. Len(injected) : \A u \in injected[f].upd.add : JoinOk(u, f)
        BY <1>1, <1>20 DEF ChanInv
  <2> QED  BY <1>13, <1>14, <1>15, <1>17, <1>18, <2>1, <2>2 DEF ChanInv, JoinOk
<1>g. WatermarkInv'
  <2>1. b.upd.add # {} => Rescales(b)
        BY DEF Rescales, NoUpdate
  <2>2. \A u \in plan[e + 1] : u \in Actors
        BY <1>17
  <2>3. ASSUME NEW u \in plan[e + 1] PROVE WmOk(RescaleEpochs, chan[u], wmRead'[u], wmSent[u])
    <3>1. wmRead'[u] = IF Rescales(b) THEN 0 ELSE wmRead[u]
          BY <1>13, <2>2
    <3> QED  BY <1>19, <1>21, <1>22, <2>1, <3>1
  <2>4. ASSUME NEW f \in e + 1 .. Len(injected), NEW u \in injected[f].upd.add
        PROVE  WmOk(RescaleEpochs, chan[u], 0, wmSent[u])
        BY <1>1, <1>20 DEF WatermarkInv
  <2>5. ASSUME NEW u \in plan[e + 1]
        PROVE  /\ first'[u] <= wmRead'[u]
               /\ \A i \in 1 .. Len(staged'[u]) : staged'[u][i] <= wmRead'[u]
    <3>1. CASE Rescales(b)
          BY <1>13, <2>2, <3>1
    <3>2. CASE ~Rescales(b)
      <4>1. u \in Upstreams
            BY <1>19, <2>1, <3>2
      <4> QED  BY <1>1, <1>13, <3>2, <4>1 DEF WatermarkInv
    <3> QED  BY <3>1, <3>2
  <2>6. plan[e + 1] # {} => \E u \in plan[e + 1] : first'[u] = 0
    <3>1. CASE Rescales(b)
          BY <1>13, <2>2, <3>1
    <3>2. CASE ~Rescales(b)
      <4>1. plan[e + 1] = Upstreams
        <5>1. b.upd = NoUpdate
              BY <3>2 DEF Rescales
        <5> QED  BY <1>9, <1>10, <5>1 DEF Updated, NoUpdate
      <4>2. item.kind # "heap"
            BY <1>11
      <4> QED  BY <1>1, <1>13, <3>2, <4>1, <4>2 DEF WatermarkInv
    <3> QED  BY <3>1, <3>2
  <2> QED  BY <1>13, <1>14, <1>15, <1>17, <1>18, <2>3, <2>4, <2>5, <2>6 DEF WatermarkInv
<1> QED  BY <1>a, <1>b, <1>c, <1>d, <1>e, <1>f, <1>g DEF MInv

------------------------------------------------------------------------------
(* The theorems. *)

\* Every step keeps the invariant.
LEMMA NextMInv == MInv /\ [Next]_vars => MInv'
<1> SUFFICES ASSUME MInv, [Next]_vars PROVE MInv'
    OBVIOUS
<1>1. CASE InjectPlain \/ InjectScale \/ InjectReplace
      BY <1>1, InjectPlainStep, InjectScaleStep, InjectReplaceStep
<1>2. CASE \E u \in Actors : UpRow(u) \/ UpWatermark(u) \/ UpBarrier(u)
      BY <1>2, UpRowStep, UpWatermarkStep, UpBarrierStep
<1>3. CASE \E u \in Actors : PollRow(u) \/ PollWatermark(u) \/ PollBarrier(u)
      BY <1>3, PollRowStep, PollWatermarkStep, PollBarrierStep
<1>4. CASE FetchBarrier \/ CreateInputs
      BY <1>4, FetchBarrierStep, CreateInputsStep
<1>5. CASE HeapPop \/ HeapChecked \/ PollPending \/ EmitWatermark \/ EmitBarrier
      BY <1>5, HeapPopStep, HeapCheckedStep, PollPendingStep, EmitWatermarkStep, EmitBarrierStep
<1>6. CASE UNCHANGED vars
  <2>1. /\ TypeInv' /\ Lives' /\ BufferInv' /\ AlignInv'
        BY <1>6 DEF MInv, TypeInv, Lives, BufferInv, AlignInv, Upstreams, vars,
                    metaVars, upVars, bufVars, execVars
  <2>2. FragmentsFollowed'
    <3>1. PICK frag \in [0 .. MaxEpoch -> Fragments] : History(frag) /\ Places(frag)
          BY DEF MInv, FragmentsFollowed
    <3>2. History(frag)' /\ Places(frag)'
          BY <1>6, <3>1 DEF History, Places, vars, metaVars, upVars, bufVars
    <3> QED  BY <3>2 DEF FragmentsFollowed
  <2>3. /\ Upstreams' = Upstreams /\ RescaleEpochs' = RescaleEpochs
        /\ \A w : NextRead(w)' = NextRead(w) /\ WmBase(w)' = WmBase(w)
        BY <1>6 DEF Upstreams, RescaleEpochs, NextRead, WmBase, vars, metaVars, execVars
  <2>4. ChanInv' /\ WatermarkInv'
        BY <1>6, <2>3 DEF MInv, ChanInv, JoinOk, WatermarkInv, vars, metaVars, upVars, bufVars, execVars
  <2> QED  BY <2>1, <2>2, <2>4 DEF MInv
<1> QED  BY <1>1, <1>2, <1>3, <1>4, <1>5, <1>6 DEF Next

\* The invariant holds in every state of the executor.
THEOREM MergeInvariant == Spec => []MInv
<1> QED  BY InitMInv, NextMInv, PTL DEF Spec

\* Alignment never fails: no upstream, new or old, delivers another barrier
\* than the one the executor is at, and the barrier manager's copy is the same.
THEOREM NeverMisalignedTheorem == Spec => []NeverMisaligned
<1>1. MInv => NeverMisaligned
      BY DEF MInv, AlignInv, NeverMisaligned
<1> QED  BY <1>1, MergeInvariant, PTL

\* Rows are handed on in the epoch that they were sent in, and none is left
\* behind a barrier.
THEOREM ConsistentCutTheorem == Spec => []ConsistentCut
<1>1. MInv => ConsistentCut
  <2> SUFFICES ASSUME MInv PROVE ConsistentCut
      OBVIOUS
  <2>1. TypeInv /\ AlignInv /\ ChanInv
        BY DEF MInv
  <2>2. \A i \in DOMAIN builder : builder[i].epoch > emitted
    <3>1. DOMAIN builder = 1 .. Len(builder) /\ emitted \in Nat
          BY <2>1 DEF TypeInv
    <3> QED  BY <2>1, <3>1 DEF AlignInv
  <2>3. ASSUME NEW u \in Upstreams, NEW i \in DOMAIN chan[u], chan[u][i].kind = "row"
        PROVE  chan[u][i].epoch > emitted
    <3>1. /\ chan[u] \in Seq(Messages) /\ emitted \in Nat /\ NextRead(u) \in Nat
          /\ NextRead(u) > emitted
          BY <2>1 DEF TypeInv, Upstreams, NextRead
    <3>2. i \in 1 .. Len(chan[u])
          BY <3>1
    <3>3. NextRead(u) <= chan[u][i].epoch
          BY <2>1, <2>3, <3>2 DEF ChanInv, ChanOk
    <3>4. chan[u][i].epoch \in Nat
          BY <2>3, <3>1, <3>2 DEF Messages, Rows, Watermarks, AlignedBarriers
    <3> QED  BY <3>1, <3>3, <3>4
  <2> QED  BY <2>1, <2>2, <2>3 DEF ConsistentCut, AlignInv
<1> QED  BY <1>1, MergeInvariant, PTL

\* The upstream set is the one that the barriers handed on have made of it.
THEOREM UpstreamsFollowUpdatesTheorem == Spec => []UpstreamsFollowUpdates
<1>1. MInv => UpstreamsFollowUpdates
      BY DEF MInv, AlignInv, UpstreamsFollowUpdates, PlanAfter
<1> QED  BY <1>1, MergeInvariant, PTL

\* A watermark is handed on only when every upstream promised as much.
THEOREM WatermarkPromisedTheorem == Spec => []WatermarkPromised
<1>1. MInv => WatermarkPromised
      BY DEF MInv, WatermarkInv, WatermarkPromised
<1> QED  BY <1>1, MergeInvariant, PTL

\* Once the heap is checked it never holds a watermark of every upstream.
THEOREM NoWatermarkHeldBackTheorem == Spec => []NoWatermarkHeldBack
<1>1. MInv => NoWatermarkHeldBack
  <2> SUFFICES ASSUME MInv PROVE NoWatermarkHeldBack
      OBVIOUS
  <2>1. TypeInv /\ BufferInv /\ AlignInv /\ ChanInv /\ Lives
        BY DEF MInv
  <2>2. emitted \in 0 .. MaxEpoch /\ fetched \in 0 .. MaxEpoch /\ creating \in 0 .. MaxEpoch
        BY <2>1, MergeAssumption DEF TypeInv, BufferInv
  <2>3. aligning \in 0 .. MaxEpoch
    <3>1. CASE blocked = {}
          BY <2>1, <3>1, MergeAssumption DEF AlignInv
    <3>2. CASE blocked # {}
      <4>1. PICK u \in blocked : TRUE
            BY <3>2
      <4>2. u \in Upstreams /\ NextRead(u) = emitted + 2
            BY <4>1 DEF Upstreams, NextRead
      <4>3. emitted + 2 <= upNext[u]
            BY <2>1, <4>2 DEF ChanInv, ChanOk
      <4>4. u \in Actors /\ upNext[u] \in Nat /\ upNext[u] <= Len(injected) + 1
            /\ Len(injected) \in Nat /\ Len(injected) <= MaxEpoch
            BY <2>1, <4>1 DEF TypeInv, Lives
      <4>5. aligning = emitted + 1
            BY <2>1, <3>2 DEF AlignInv
      <4> QED  BY <2>2, <4>3, <4>4, <4>5, MergeAssumption
    <3> QED  BY <3>1, <3>2
  <2>4. MTypeOK
        BY <2>1, <2>2, <2>3 DEF MTypeOK, TypeInv
  <2> QED  BY <2>4 DEF MInv, WatermarkInv, NoWatermarkHeldBack
<1> QED  BY <1>1, MergeInvariant, PTL

=============================================================================
