--------------------- MODULE PartialGraphBarriersProofs ---------------------
(***************************************************************************)
(* Proofs about PartialGraphBarriers, for every set of workers and every   *)
(* set of epochs: the inductive invariant IInv, the safety properties that *)
(* follow from it, and the refinement of BarrierPipeline.                  *)
(***************************************************************************)
EXTENDS PartialGraphBarriers, TLAPS

\* What First says about a promoted barrier: it heads the in-flight chain.
LEMMA FirstIsOldest ==
  ASSUME NEW e \in inflight, First(e)
  PROVE  \A f \in inflight : e <= f
BY DEF First

\* Shape of the promotion step: nothing happens, or the oldest in-flight
\* barrier, with nobody left to collect, moves to the end of the queue.
LEMMA PromoteShape ==
  ASSUME NEW tc, Promote(tc)
  PROVE  \/ inflight' = inflight /\ collected' = collected
         \/ \E e \in inflight :
              /\ tc[e] = {}
              /\ \A f \in inflight : e <= f
              /\ inflight' = inflight \ {e}
              /\ collected' = Append(collected, e)
BY DEF Promote, First

\* A barrier that joins the queue's end keeps the order of the pipeline: this
\* is the part of the induction shared by PollCollected and Collect.
LEMMA PromoteKeepsOrder ==
  ASSUME IInv, status = "running", status' = status,
         toCollect' \in [Epochs -> SUBSET Workers],
         \A f \in Epochs : toCollect'[f] \subseteq toCollect[f],
         Promote(toCollect'),
         UNCHANGED <<alive, completing, curr, isCkpt, nextPrev, acked>>
  PROVE  IInv'
<1>1. CASE inflight' = inflight /\ collected' = collected
  <2>1. TypeOK' BY <1>1 DEF IInv, TypeOK
  <2>2. InflightChain' BY <1>1 DEF IInv, InflightChain
  <2>3. CollectedChain' BY <1>1 DEF IInv, CollectedChain
  <2>4. CompletionOrder' BY <1>1 DEF IInv, CompletionOrder
  <2>5. Accounting'
    <3>1. Ready' = Ready BY <1>1 DEF Ready
    <3>2. \A f \in Epochs : toCollect'[f] # {} => f \in inflight'
      BY <1>1 DEF IInv, Accounting
    <3> QED BY <1>1, <3>1, <3>2 DEF IInv, Accounting, None
  <2>6. PrefixCollected' BY <1>1 DEF IInv, PrefixCollected, TypeOK
  <2>7. NoCheckpointSkipped' BY <1>1 DEF IInv, NoCheckpointSkipped
  <2> QED BY <2>1, <2>2, <2>3, <2>4, <2>5, <2>6, <2>7 DEF IInv
<1>2. CASE \E e \in inflight :
              /\ toCollect'[e] = {}
              /\ \A f \in inflight : e <= f
              /\ inflight' = inflight \ {e}
              /\ collected' = Append(collected, e)
  <2> PICK e \in inflight :
              /\ toCollect'[e] = {}
              /\ \A f \in inflight : e <= f
              /\ inflight' = inflight \ {e}
              /\ collected' = Append(collected, e)
    BY <1>2
  <2>0. /\ e \in Epochs /\ e \in Nat /\ Epochs \subseteq Nat
        /\ collected \in Seq(Epochs) /\ inflight \subseteq Nat
        /\ Len(collected) \in Nat
    BY PGEpochsAssumption DEF IInv, TypeOK
  <2>a. /\ Len(collected') = Len(collected) + 1
        /\ \A i \in 1..Len(collected) : collected'[i] = collected[i]
        /\ collected'[Len(collected) + 1] = e
        /\ \A i \in 1..Len(collected) : collected[i] \in Epochs
    BY <2>0
  <2>b. \A f \in inflight' : e < f BY <2>0
  <2>1. TypeOK' BY <2>0 DEF IInv, TypeOK
  <2>2. InflightChain'
    <3>1. \A f \in inflight' : e < curr[f]
      BY <2>0, <2>b DEF IInv, InflightChain, TypeOK
    <3> QED BY <2>0, <3>1 DEF IInv, InflightChain, TypeOK
  <2>3. CollectedChain'
    <3>1. \A i \in 1..Len(collected) : collected[i] < e
      BY DEF IInv, CollectedChain
    <3>2. \A i, j \in 1..Len(collected') : i < j => collected'[i] < collected'[j]
      BY <2>0, <2>a, <3>1 DEF IInv, CollectedChain
    <3>3. collected # <<>> => curr[collected[Len(collected)]] = e
      <4> SUFFICES ASSUME collected # <<>>
                   PROVE curr[collected[Len(collected)]] = e
        OBVIOUS
      <4> DEFINE c == curr[collected[Len(collected)]]
      <4>1. /\ c \in inflight \/ c = nextPrev
            /\ c <= e
        BY DEF IInv, CollectedChain
      <4>2. e < nextPrev /\ nextPrev \in Nat
        BY DEF IInv, InflightChain, TypeOK
      <4>3. ASSUME c = nextPrev PROVE FALSE BY <4>3, <2>0, <4>1, <4>2
      <4>4. c \in inflight /\ e <= c BY <4>1, <4>3
      <4>5. \A m, n \in Nat : m <= n /\ n <= m => m = n OBVIOUS
      <4> QED BY <4>1, <4>4, <4>5, <2>0
    <3>4. \A i \in 1..Len(collected') :
            i < Len(collected') => curr'[collected'[i]] = collected'[i + 1]
      <4> SUFFICES ASSUME NEW i \in 1..Len(collected') , i < Len(collected')
                   PROVE curr[collected'[i]] = collected'[i + 1]
        OBVIOUS
      <4>1. CASE i < Len(collected)
        BY <4>1, <2>0, <2>a DEF IInv, CollectedChain
      <4>2. CASE i = Len(collected)
        BY <4>2, <2>0, <2>a, <3>3
      <4> QED BY <4>1, <4>2, <2>0, <2>a
    <3>5. \A i \in 1..Len(collected'), f \in inflight' : collected'[i] < f
      BY <2>0, <2>a, <2>b, <3>1 DEF IInv, CollectedChain
    <3>6. \A i \in 1..Len(collected') : collected'[i] < nextPrev'
      BY <2>0, <2>a DEF IInv, CollectedChain, InflightChain
    <3>7. /\ curr[e] \in inflight' \/ curr[e] = nextPrev
          /\ curr[e] <= nextPrev
          /\ \A f \in inflight' : curr[e] <= f
      BY <2>0, <2>b DEF IInv, InflightChain, TypeOK
    <3> QED BY <2>a, <2>0, <3>2, <3>4, <3>5, <3>6, <3>7 DEF CollectedChain
  <2>4. CompletionOrder'
    <3>1. \A g \in completing \cup acked, i \in 1..Len(collected') : g < collected'[i]
      BY <2>0, <2>a DEF IInv, CompletionOrder
    <3> QED BY <3>1 DEF IInv, CompletionOrder
  <2>5. Accounting'
    <3>1. Ready' = Ready \cup {e} BY <2>0, <2>a DEF Ready
    <3>2. \A f \in Epochs : toCollect'[f] # {} => f \in inflight'
      BY DEF IInv, Accounting
    <3> QED BY <3>1, <3>2 DEF IInv, Accounting
  <2>6. PrefixCollected' BY DEF IInv, PrefixCollected, TypeOK
  <2>7. NoCheckpointSkipped' BY DEF IInv, NoCheckpointSkipped
  <2> QED BY <2>1, <2>2, <2>3, <2>4, <2>5, <2>6, <2>7 DEF IInv
<1> QED BY <1>1, <1>2, PromoteShape

\* Resetting the graph keeps the invariant: the past stays as it was.
LEMMA ResetKeepsOrder ==
  ASSUME IInv, Reset, alive' \subseteq Workers,
         UNCHANGED <<toCollect, curr, isCkpt, nextPrev, acked>>
  PROVE  IInv'
<1> USE DEF Reset, None
<1>1. TypeOK' BY DEF IInv, TypeOK
<1>2. InflightChain' BY DEF IInv, InflightChain
<1>3. CollectedChain'
  <2>1. collected' = <<>> /\ Len(collected') = 0 /\ 1..0 = {} OBVIOUS
  <2> QED BY <2>1 DEF CollectedChain
<1>4. CompletionOrder'
  <2>1. collected' = <<>> /\ Len(collected') = 0 /\ 1..0 = {} OBVIOUS
  <2> QED BY <2>1 DEF IInv, CompletionOrder
<1>5. Accounting' BY DEF IInv, Accounting
<1>6. PrefixCollected' BY DEF IInv, PrefixCollected
<1>7. NoCheckpointSkipped' BY DEF IInv, NoCheckpointSkipped
<1> QED BY <1>1, <1>2, <1>3, <1>4, <1>5, <1>6, <1>7 DEF IInv

\* Injecting a barrier keeps the invariant: its epoch is above all others.
LEMMA InjectKeepsOrder ==
  ASSUME IInv, NEW e \in Epochs, NEW c \in Epochs, NEW ck \in BOOLEAN,
         NEW nodes \in SUBSET Workers, Inject(e, c, ck, nodes)
  PROVE  IInv'
<1>0. /\ e \in Nat /\ c \in Nat /\ Epochs \subseteq Nat /\ e < c
      /\ inflight \subseteq Nat /\ isCkpt \subseteq Nat /\ acked \subseteq Nat
      /\ completing \subseteq Nat /\ nextPrev \in Nat /\ nextPrev <= e
      /\ status = "running"
  <2>1. /\ Epochs \subseteq Nat /\ e \in Nat /\ c \in Nat /\ nextPrev \in Nat
        /\ inflight \subseteq Nat /\ isCkpt \subseteq Nat
        /\ acked \subseteq Nat /\ completing \subseteq Nat
    BY PGEpochsAssumption DEF IInv, TypeOK
  <2>2. (nextPrev = 0 \/ e = nextPrev) /\ c > e /\ status = "running"
    BY DEF Inject
  <2> QED BY <2>1, <2>2
<1>a. \A i \in 1..Len(collected) : collected[i] \in Nat
  <2>1. collected \in Seq(Epochs) BY DEF IInv, TypeOK
  <2>2. \A i \in 1..Len(collected) : collected[i] \in Epochs BY <2>1
  <2> QED BY <1>0, <2>2
<1>b. \A f \in inflight \cup isCkpt \cup acked \cup completing : f < e
  BY <1>0 DEF IInv, InflightChain, Accounting, CompletionOrder
<1>c. \A i \in 1..Len(collected) : collected[i] < e /\ collected[i] # e
  BY <1>0, <1>a DEF IInv, CollectedChain
<1>d. \A f \in inflight : f # e /\ curr'[f] = curr[f]
  BY <1>0, <1>b DEF IInv, TypeOK, Inject
<1>e. curr'[e] = c /\ nextPrev' = c /\ inflight' = inflight \cup {e}
  BY DEF IInv, TypeOK, Inject
<1>f. \A i \in 1..Len(collected) : curr'[collected[i]] = curr[collected[i]]
  BY <1>c DEF IInv, TypeOK, Inject
<1>g. nextPrev # 0 => e = nextPrev
  BY DEF Inject
<1>h. nextPrev = 0 => inflight = {} /\ collected = <<>>
  <2>1. nextPrev = 0 => inflight = {}
    BY <1>0 DEF IInv, InflightChain
  <2>2. nextPrev = 0 => Len(collected) = 0
    <3> SUFFICES ASSUME nextPrev = 0, Len(collected) # 0 PROVE FALSE OBVIOUS
    <3>1. 1 \in 1..Len(collected) BY DEF IInv, TypeOK
    <3>2. collected[1] < nextPrev BY <3>1 DEF IInv, CollectedChain
    <3> QED BY <3>1, <3>2, <1>a
  <2> QED BY <2>1, <2>2 DEF IInv, TypeOK
<1>1. TypeOK'
  <2>1. isCkpt' \subseteq Epochs BY DEF IInv, TypeOK, Inject
  <2>2. toCollect' \in [Epochs -> SUBSET Workers] /\ curr' \in [Epochs -> Nat]
    BY <1>0 DEF IInv, TypeOK, Inject
  <2> QED BY <1>0, <2>1, <2>2 DEF IInv, TypeOK, Inject
<1>2. InflightChain'
  <2>1. \A f \in inflight : curr[f] \in inflight \cup {e} /\ curr[f] <= e
    BY <1>0, <1>g, <1>h DEF IInv, InflightChain
  <2>2. \A f \in inflight' :
          /\ f < nextPrev' /\ f < curr'[f]
          /\ curr'[f] \in inflight' \/ curr'[f] = nextPrev'
          /\ curr'[f] <= nextPrev'
    <3> SUFFICES ASSUME NEW f \in inflight
                 PROVE  /\ f < c /\ f < curr[f]
                        /\ curr[f] \in inflight \cup {e}
                        /\ curr[f] <= c
      BY <1>0, <1>d, <1>e
    <3>2. f < e /\ f < curr[f] /\ curr[f] <= e /\ f \in Nat /\ curr[f] \in Nat
      BY <1>0, <1>b, <2>1 DEF IInv, InflightChain
    <3> QED BY <3>2, <2>1, <1>0
  <2>3. \A f, g \in inflight' : f < g => curr'[f] <= g
    <3> SUFFICES ASSUME NEW f \in inflight, NEW g \in inflight', f < g
                 PROVE  curr[f] <= g
      BY <1>0, <1>b, <1>d, <1>e
    <3> QED BY <2>1, <1>e DEF IInv, InflightChain
  <2> QED BY <2>2, <2>3 DEF InflightChain
<1>3. CollectedChain'
  <2>1. collected' = collected BY DEF Inject
  <2>2. \A i \in 1..Len(collected) : collected[i] < c
    BY <1>0, <1>a, <1>c
  <2>3. ASSUME collected # <<>>
        PROVE LET d == curr'[collected'[Len(collected')]] IN
              /\ d \in inflight' \/ d = nextPrev'
              /\ d <= nextPrev'
              /\ \A f \in inflight' : d <= f
    <3> DEFINE d == curr[collected[Len(collected)]]
    <3>1. Len(collected) \in 1..Len(collected)
      BY <2>3 DEF IInv, TypeOK
    <3>2. curr'[collected'[Len(collected')]] = d
      BY <3>1, <2>1, <1>f
    <3>3. /\ d \in inflight \/ d = nextPrev
          /\ d <= nextPrev
          /\ \A f \in inflight : d <= f
      BY <2>3 DEF IInv, CollectedChain
    <3>4. d \in Nat /\ d <= e /\ d <= c /\ d \in inflight \cup {e}
      <4>1. d \in Nat BY <3>3, <1>0
      <4>2. d \in inflight \cup {e} BY <3>3, <1>g, <1>h, <2>3
      <4> QED BY <4>1, <4>2, <3>3, <1>0, <1>b
    <3> HIDE DEF d
    <3>5. d \in inflight' /\ d <= nextPrev' /\ \A f \in inflight' : d <= f
      BY <3>3, <3>4, <1>e
    <3> QED BY <3>2, <3>5
  <2> QED BY <1>c, <1>e, <1>f, <2>1, <2>2, <2>3 DEF IInv, CollectedChain
<1>4. CompletionOrder'
  <2>1. \A f \in completing \cup acked : f < c
    BY <1>0, <1>b
  <2>2. UNCHANGED <<collected, completing, acked>> BY DEF Inject
  <2> QED BY <1>b, <1>e, <2>1, <2>2 DEF IInv, CompletionOrder
<1>5. Accounting'
  <2>1. \A f \in isCkpt' : f < c
    BY <1>0, <1>b DEF Inject
  <2>2. UNCHANGED <<status, collected, completing, acked>> /\ Ready' = Ready
    BY DEF Inject, Ready
  <2>3. isCkpt' \subseteq isCkpt \cup {e} BY DEF Inject
  <2>4. \A f \in Epochs : toCollect'[f] # {} => f \in inflight'
    BY <1>0, <1>e DEF IInv, TypeOK, Accounting, Inject
  <2> QED BY <1>0, <1>e, <2>1, <2>2, <2>3, <2>4 DEF IInv, Accounting
<1>6. PrefixCollected'
  <2>1. \A g \in completing \cup acked, f \in Epochs : f <= g => f # e
    BY <1>0, <1>b
  <2> QED BY <2>1 DEF IInv, PrefixCollected, TypeOK, Inject
<1>7. NoCheckpointSkipped'
  <2>1. \A g \in completing \cup acked : ~(e < g) BY <1>0, <1>b
  <2>2. isCkpt' \subseteq isCkpt \cup {e} BY DEF Inject
  <2> QED BY <2>1, <2>2 DEF IInv, NoCheckpointSkipped, Inject
<1> QED BY <1>1, <1>2, <1>3, <1>4, <1>5, <1>6, <1>7 DEF IInv

\* What popping the first k elements of the collected queue leaves.
LEMMA PopFront ==
  ASSUME collected \in Seq(Epochs), NEW k \in 1..Len(collected),
         collected' = SubSeq(collected, k + 1, Len(collected))
  PROVE  /\ collected' \in Seq(Epochs)
         /\ Len(collected) \in Nat
         /\ Len(collected') = Len(collected) - k
         /\ \A i \in 1..Len(collected') :
              collected'[i] = collected[i + k] /\ i + k \in 1..Len(collected)
         /\ \A i \in 1..Len(collected) : collected[i] \in Epochs
         /\ Ready = Ready' \cup {collected[i] : i \in 1..k}
         /\ collected' # <<>> =>
              collected'[Len(collected')] = collected[Len(collected)]
<1>1. Len(collected) \in Nat /\ k \in Nat /\ k <= Len(collected) OBVIOUS
<1>2. Len(collected') = Len(collected) - k BY <1>1
<1>3. \A i \in 1..Len(collected') :
        collected'[i] = collected[i + k] /\ i + k \in 1..Len(collected)
  BY <1>1, <1>2
<1>4. \A i \in 1..Len(collected) : collected[i] \in Epochs OBVIOUS
<1>5. collected' \in Seq(Epochs) BY <1>1
<1>6. Ready = Ready' \cup {collected[i] : i \in 1..k}
  <2>1. \A i \in 1..Len(collected) :
          i <= k \/ (i - k \in 1..Len(collected') /\ collected'[i - k] = collected[i])
    BY <1>1, <1>2, <1>3
  <2>2. Ready' \subseteq Ready BY <1>3 DEF Ready
  <2>3. {collected[i] : i \in 1..k} \subseteq Ready BY <1>1 DEF Ready
  <2>4. Ready \subseteq Ready' \cup {collected[i] : i \in 1..k}
    <3> SUFFICES ASSUME NEW x \in Ready, x \notin {collected[i] : i \in 1..k}
                 PROVE  x \in Ready'
      OBVIOUS
    <3>1. PICK i \in 1..Len(collected) : x = collected[i] BY DEF Ready
    <3>2. ~(i <= k)
      <4>1. i <= k => i \in 1..k BY <1>1
      <4> QED BY <4>1, <3>1
    <3>3. i - k \in 1..Len(collected') /\ collected'[i - k] = collected[i]
      BY <2>1, <3>2
    <3> QED BY <3>1, <3>3 DEF Ready
  <2> QED BY <2>2, <2>3, <2>4
<1>7. collected' # <<>> => collected'[Len(collected')] = collected[Len(collected)]
  <2> SUFFICES ASSUME collected' # <<>>
               PROVE  collected'[Len(collected')] = collected[Len(collected)]
    OBVIOUS
  <2>1. Len(collected') \in Nat /\ Len(collected') # 0 BY <1>5
  <2>2. Len(collected') \in 1..Len(collected') BY <2>1
  <2>3. Len(collected') + k = Len(collected) BY <1>1, <1>2
  <2> QED BY <2>2, <2>3, <1>3
<1> QED BY <1>1, <1>2, <1>3, <1>4, <1>5, <1>6, <1>7

\* Taking collected barriers for completion keeps the invariant: the popped
\* ones are the oldest, and all but the last are no checkpoints.
LEMMA StartCompletingKeepsOrder ==
  ASSUME IInv, NEW bound \in Epochs, StartCompleting(bound)
  PROVE  IInv'
<1> PICK k \in 1..Len(collected) :
        /\ CompleteCheckpoint(k, bound) \/ CompleteNonCheckpoint(k, bound)
        /\ collected' = SubSeq(collected, k + 1, Len(collected))
  BY DEF StartCompleting
<1>u. /\ status = "running" /\ completing = {}
      /\ UNCHANGED <<status, alive, inflight, toCollect, curr, isCkpt, nextPrev,
                     acked>>
  BY DEF StartCompleting, None
<1>s. collected \in Seq(Epochs) BY DEF IInv, TypeOK
<1>0. /\ collected' \in Seq(Epochs)
      /\ Len(collected) \in Nat
      /\ Len(collected') = Len(collected) - k
      /\ \A i \in 1..Len(collected') :
           collected'[i] = collected[i + k] /\ i + k \in 1..Len(collected)
      /\ \A i \in 1..Len(collected) : collected[i] \in Epochs
      /\ Ready = Ready' \cup {collected[i] : i \in 1..k}
      /\ collected' # <<>> =>
           collected'[Len(collected')] = collected[Len(collected)]
  BY <1>s, PopFront
<1>a. \/ completing' = {collected[k]} /\ collected[k] \in isCkpt
      \/ completing' = {} /\ collected[k] \notin isCkpt
  BY <1>u DEF CompleteCheckpoint, CompleteNonCheckpoint
<1>b. \A i \in 1..(k - 1) : collected[i] \notin isCkpt
  BY DEF CompleteCheckpoint, CompleteNonCheckpoint, Popped
<1>c. Epochs \subseteq Nat BY PGEpochsAssumption
<1>d. completing' \subseteq {collected[k]} /\ collected[k] \in Epochs
  BY <1>a, <1>0
<1>e. k \in Nat BY <1>0
<1>1. TypeOK' BY <1>0, <1>d, <1>u DEF IInv, TypeOK
<1>2. InflightChain' BY <1>u DEF IInv, InflightChain
<1>3. CollectedChain'
  <2>1. \A i, j \in 1..Len(collected') : i < j => collected'[i] < collected'[j]
    BY <1>0, <1>e DEF IInv, CollectedChain
  <2>2. \A i \in 1..Len(collected') :
          i < Len(collected') => curr'[collected'[i]] = collected'[i + 1]
    <3> SUFFICES ASSUME NEW i \in 1..Len(collected'), i < Len(collected')
                 PROVE curr[collected'[i]] = collected'[i + 1]
      BY <1>u
    <3>1. i + 1 \in 1..Len(collected') BY <1>0, <1>e
    <3>2. i + k < Len(collected) /\ (i + 1) + k = (i + k) + 1 BY <1>0, <1>e
    <3> QED BY <3>1, <3>2, <1>0 DEF IInv, CollectedChain
  <2>3. \A i \in 1..Len(collected') :
          collected'[i] < nextPrev' /\ \A f \in inflight' : collected'[i] < f
    BY <1>0, <1>u DEF IInv, CollectedChain
  <2>4. collected' # <<>> => collected # <<>>
    BY <1>0, <1>e, <1>s
  <2>5. collected' # <<>> =>
          LET c == curr'[collected'[Len(collected')]] IN
          /\ c \in inflight' \/ c = nextPrev'
          /\ c <= nextPrev'
          /\ \A f \in inflight' : c <= f
    BY <1>0, <2>4, <1>u DEF IInv, CollectedChain
  <2> QED BY <2>1, <2>2, <2>3, <2>5 DEF CollectedChain
<1>4. CompletionOrder'
  <2>1. \A i \in 1..Len(collected') : collected[k] < collected'[i]
    BY <1>0, <1>e DEF IInv, CollectedChain
  <2>2. \A e \in acked : e < collected[k]
    BY DEF IInv, CompletionOrder
  <2>3. collected[k] < nextPrev /\ \A f \in inflight : collected[k] < f
    BY DEF IInv, CollectedChain
  <2>4. \A e \in acked :
          /\ e < nextPrev
          /\ \A f \in inflight : e < f
          /\ \A i \in 1..Len(collected') : e < collected'[i]
    BY <1>0 DEF IInv, CompletionOrder
  <2> QED BY <1>u, <1>d, <2>1, <2>2, <2>3, <2>4 DEF CompletionOrder
<1>5. Accounting'
  <2>1. isCkpt \subseteq acked \cup Ready \cup inflight
    BY <1>u DEF IInv, Accounting
  <2>2. \A i \in 1..k : collected[i] \in isCkpt => collected[i] \in completing'
    <3> SUFFICES ASSUME NEW i \in 1..k, collected[i] \in isCkpt
                 PROVE collected[i] \in completing'
      OBVIOUS
    <3>1. i = k BY <1>b, <1>e
    <3> QED BY <3>1, <1>a
  <2>3. isCkpt \subseteq acked \cup completing' \cup Ready' \cup inflight
    BY <2>1, <2>2, <1>0
  <2> QED BY <1>u, <2>3 DEF IInv, Accounting
<1>6. PrefixCollected'
  <2>1. \A f \in Epochs : f <= collected[k] => toCollect[f] = {}
    <3> SUFFICES ASSUME NEW f \in Epochs, f <= collected[k], toCollect[f] # {}
                 PROVE FALSE
      OBVIOUS
    <3>1. f \in inflight BY <1>u DEF IInv, Accounting
    <3>2. collected[k] < f BY <3>1 DEF IInv, CollectedChain
    <3> QED BY <3>2, <1>c, <1>d
  <2> QED BY <1>u, <1>d, <2>1 DEF IInv, PrefixCollected
<1>7. NoCheckpointSkipped'
  <2>1. ASSUME NEW f \in isCkpt, f < collected[k] PROVE f \in acked
    <3>1. f \in acked \cup Ready \cup inflight BY <1>u DEF IInv, Accounting
    <3>2. f \in Nat /\ collected[k] \in Nat BY <1>c, <1>d DEF IInv, TypeOK
    <3>3. f \notin inflight
      <4>1. f \in inflight => collected[k] < f BY DEF IInv, CollectedChain
      <4> QED BY <4>1, <3>2, <2>1
    <3>4. ASSUME f \in Ready PROVE FALSE
      <4>1. PICK i \in 1..Len(collected) : f = collected[i] BY <3>4 DEF Ready
      <4>2. ~(i > k)
        <5>1. i > k => collected[k] < collected[i] BY DEF IInv, CollectedChain
        <5> QED BY <5>1, <4>1, <2>1, <3>2
      <4>3. i # k BY <4>1, <2>1, <3>2
      <4>4. i \in 1..(k - 1) BY <4>2, <4>3, <1>e, <1>0
      <4> QED BY <4>1, <4>4, <1>b, <2>1
    <3> QED BY <3>1, <3>3, <3>4
  <2> QED BY <1>u, <1>d, <2>1 DEF IInv, NoCheckpointSkipped
<1> QED BY <1>1, <1>2, <1>3, <1>4, <1>5, <1>6, <1>7 DEF IInv

\* Acknowledging the commit keeps the invariant.
LEMMA AckKeepsOrder ==
  ASSUME IInv, AckCompleted
  PROVE  IInv'
<1> USE DEF AckCompleted, None
<1>1. TypeOK' BY DEF IInv, TypeOK
<1>2. InflightChain' BY DEF IInv, InflightChain
<1>3. CollectedChain' BY DEF IInv, CollectedChain
<1>4. CompletionOrder' BY DEF IInv, CompletionOrder
<1>5. Accounting'
  <2>1. Ready' = Ready BY DEF Ready
  <2> QED BY <2>1 DEF IInv, Accounting
<1>6. PrefixCollected' BY DEF IInv, PrefixCollected
<1>7. NoCheckpointSkipped'
  <2>1. \A e \in acked, f \in isCkpt : f < e => f \in acked
    BY DEF IInv, NoCheckpointSkipped
  <2> QED BY <2>1 DEF IInv, NoCheckpointSkipped
<1> QED BY <1>1, <1>2, <1>3, <1>4, <1>5, <1>6, <1>7 DEF IInv

\* The invariant is inductive: one step per action.
THEOREM Inductive == IInv /\ [Next]_vars => IInv'
<1> SUFFICES ASSUME IInv, [Next]_vars PROVE IInv' OBVIOUS
<1>1. ASSUME NEW e \in Epochs, NEW c \in Epochs, NEW ck \in BOOLEAN,
             NEW nodes \in SUBSET Workers, Inject(e, c, ck, nodes)
      PROVE IInv'
  BY <1>1, InjectKeepsOrder
<1>2. CASE InjectFails
  <2>1. alive' \subseteq Workers BY <1>2 DEF InjectFails, IInv, TypeOK
  <2> QED BY <1>2, <2>1, ResetKeepsOrder DEF InjectFails
<1>9. CASE ResetRequested
  <2>1. alive' \subseteq Workers BY <1>9 DEF ResetRequested, IInv, TypeOK
  <2> QED BY <1>9, <2>1, ResetKeepsOrder DEF ResetRequested
<1>3. CASE PollCollected
  <2>1. /\ toCollect' \in [Epochs -> SUBSET Workers]
        /\ \A f \in Epochs : toCollect'[f] \subseteq toCollect[f]
        /\ toCollect' = toCollect
    BY <1>3 DEF PollCollected, IInv, TypeOK
  <2> QED BY <1>3, <2>1, PromoteKeepsOrder DEF PollCollected
<1>4. ASSUME NEW e \in Epochs, NEW w \in Workers, Collect(e, w) PROVE IInv'
  <2>1. /\ toCollect' \in [Epochs -> SUBSET Workers]
        /\ \A f \in Epochs : toCollect'[f] \subseteq toCollect[f]
    BY <1>4 DEF Collect, IInv, TypeOK
  <2> QED BY <1>4, <2>1, PromoteKeepsOrder DEF Collect
<1>5. ASSUME NEW w \in Workers, WorkerError(w) PROVE IInv'
  <2>1. alive' \subseteq Workers BY <1>5 DEF WorkerError, IInv, TypeOK
  <2>2. CASE Reset
    BY <1>5, <2>1, <2>2, ResetKeepsOrder DEF WorkerError
  <2>3. CASE UNCHANGED <<status, inflight, collected, completing>>
    <3>1. Ready' = Ready BY <2>3 DEF Ready
    <3> QED BY <1>5, <2>1, <2>3, <3>1
         DEF WorkerError, IInv, TypeOK, InflightChain, CollectedChain,
             CompletionOrder, Accounting, PrefixCollected, NoCheckpointSkipped
  <2> QED BY <1>5, <2>2, <2>3 DEF WorkerError
<1>6. ASSUME NEW bound \in Epochs, StartCompleting(bound) PROVE IInv'
  BY <1>6, StartCompletingKeepsOrder
<1>7. CASE AckCompleted BY <1>7, AckKeepsOrder
<1>8. CASE UNCHANGED vars
  <2>1. Ready' = Ready BY <1>8 DEF vars, Ready
  <2> QED BY <1>8, <2>1
       DEF vars, IInv, TypeOK, InflightChain, CollectedChain,
           CompletionOrder, Accounting, PrefixCollected, NoCheckpointSkipped
<1> QED BY <1>1, <1>2, <1>3, <1>4, <1>5, <1>6, <1>7, <1>8, <1>9 DEF Next

\* The initial state, an empty graph, satisfies the invariant.
THEOREM InitEstablishes == Init => IInv
<1> SUFFICES ASSUME Init PROVE IInv OBVIOUS
<1>1. collected = <<>> /\ Len(collected) = 0 /\ 1..0 = {} BY DEF Init
<1>2. TypeOK BY DEF Init, TypeOK, None
<1>3. InflightChain /\ CollectedChain BY <1>1 DEF Init, InflightChain, CollectedChain
<1>4. CompletionOrder /\ Accounting BY <1>1 DEF Init, CompletionOrder, Accounting, None
<1>5. PrefixCollected /\ NoCheckpointSkipped
  BY DEF Init, PrefixCollected, NoCheckpointSkipped, None
<1> QED BY <1>2, <1>3, <1>4, <1>5 DEF IInv

\* IInv is an invariant of the partial graph.
THEOREM Invariance == Spec => []IInv
BY InitEstablishes, Inductive, PTL DEF Spec

\* The collector's contiguity assertions never fire.
THEOREM ContiguousAlways == Spec => []Contiguous
<1>1. IInv => Contiguous
  <2> SUFFICES ASSUME IInv PROVE Contiguous OBVIOUS
  <2>1. \A i \in 1..Len(collected) :
          i < Len(collected) => curr[collected[i]] = collected[i + 1]
    BY DEF IInv, CollectedChain
  <2>2. ASSUME NEW e \in inflight, First(e), collected # <<>>
        PROVE  curr[collected[Len(collected)]] = e
    <3> DEFINE c == curr[collected[Len(collected)]]
    <3>1. /\ c \in inflight \/ c = nextPrev
          /\ c <= e
      BY <2>2 DEF IInv, CollectedChain
    <3>2. /\ e < nextPrev /\ nextPrev \in Nat /\ e \in Nat /\ inflight \subseteq Nat
      BY PGEpochsAssumption DEF IInv, InflightChain, TypeOK
    <3>3. ASSUME c = nextPrev PROVE FALSE BY <3>1, <3>2, <3>3
    <3>4. c \in inflight /\ e <= c BY <3>1, <3>3, <2>2, FirstIsOldest
    <3>5. \A m, n \in Nat : m <= n /\ n <= m => m = n OBVIOUS
    <3> QED BY <3>1, <3>2, <3>4, <3>5
  <2>3. \A e, f \in inflight : e < f => curr[e] <= f
    BY DEF IInv, InflightChain
  <2> QED BY <2>1, <2>2, <2>3 DEF Contiguous
<1> QED BY <1>1, Invariance, PTL

\* Committing means the whole prefix was collected, and no checkpoint of the
\* graph is ever skipped.
THEOREM CommitsInOrder == Spec => []CommitOrder
<1>1. IInv => CommitOrder BY DEF IInv, CommitOrder
<1> QED BY <1>1, Invariance, PTL

-----------------------------------------------------------------------------

\* A promotion is a collection step of the abstract pipeline, or none.
LEMMA PromoteRefines ==
  ASSUME IInv, NEW tc, Promote(tc), UNCHANGED <<completing, acked>>
  PROVE  [Pipeline!PNext]_(Pipeline!pvars)
<1>1. CASE inflight' = inflight /\ collected' = collected
  <2>1. Ready' = Ready BY <1>1 DEF Ready
  <2> QED BY <1>1, <2>1 DEF Pipeline!pvars
<1>2. CASE \E e \in inflight :
              /\ tc[e] = {}
              /\ \A f \in inflight : e <= f
              /\ inflight' = inflight \ {e}
              /\ collected' = Append(collected, e)
  <2> PICK e \in inflight :
              /\ \A f \in inflight : e <= f
              /\ inflight' = inflight \ {e}
              /\ collected' = Append(collected, e)
    BY <1>2
  <2>0. e \in Epochs /\ collected \in Seq(Epochs) /\ Len(collected) \in Nat
    BY DEF IInv, TypeOK
  <2>1. Ready' = Ready \cup {e} BY <2>0 DEF Ready
  <2>2. \A f \in Ready : f < e BY DEF IInv, CollectedChain, Ready
  <2>3. Pipeline!PCollect(e) BY <2>1, <2>2 DEF Pipeline!PCollect
  <2> QED BY <2>0, <2>3 DEF Pipeline!PNext
<1> QED BY <1>1, <1>2, PromoteShape

\* Every step of the partial graph is a step of the abstract pipeline or
\* leaves it unchanged.
LEMMA StepRefines ==
  ASSUME IInv, [Next]_vars
  PROVE  [Pipeline!PNext]_(Pipeline!pvars)
<1>r. ASSUME Reset, UNCHANGED acked PROVE Pipeline!PNext
  <2>1. collected' = <<>> /\ Len(collected') = 0 /\ 1..0 = {} BY <1>r DEF Reset
  <2>2. Ready' = {} BY <2>1 DEF Ready
  <2>3. Pipeline!PReset BY <1>r, <2>2 DEF Reset, None, Pipeline!PReset
  <2> QED BY <2>3 DEF Pipeline!PNext
<1>1. ASSUME NEW e \in Epochs, NEW c \in Epochs, NEW ck \in BOOLEAN,
             NEW nodes \in SUBSET Workers, Inject(e, c, ck, nodes)
      PROVE  Pipeline!PNext
  <2>1. Ready' = Ready BY <1>1 DEF Inject, Ready
  <2>2. nextPrev <= e /\ e \in Nat /\ nextPrev \in Nat
    <3>1. e \in Nat /\ nextPrev \in Nat BY PGEpochsAssumption DEF IInv, TypeOK
    <3>2. nextPrev = 0 \/ e = nextPrev BY <1>1 DEF Inject
    <3> QED BY <3>1, <3>2
  <2>3. \A f \in inflight \cup Ready \cup completing \cup acked :
          f \in Nat /\ f < nextPrev
    <3>1. \A i \in 1..Len(collected) : collected[i] \in Epochs
      <4>1. collected \in Seq(Epochs) BY DEF IInv, TypeOK
      <4> QED BY <4>1
    <3>2. \A f \in Ready : f \in Epochs /\ f < nextPrev
      BY <3>1 DEF IInv, CollectedChain, Ready
    <3> QED BY <3>2, PGEpochsAssumption
         DEF IInv, InflightChain, CompletionOrder, TypeOK
  <2>4. \A f \in inflight \cup Ready \cup completing \cup acked : f < e
    BY <2>2, <2>3
  <2>5. Pipeline!PInject(e) BY <1>1, <2>1, <2>4 DEF Inject, Pipeline!PInject
  <2> QED BY <2>5 DEF Pipeline!PNext
<1>2. CASE InjectFails BY <1>2, <1>r DEF InjectFails
<1>9. CASE ResetRequested BY <1>9, <1>r DEF ResetRequested
<1>3. CASE PollCollected BY <1>3, PromoteRefines DEF PollCollected
<1>4. ASSUME NEW e \in Epochs, NEW w \in Workers, Collect(e, w)
      PROVE  [Pipeline!PNext]_(Pipeline!pvars)
  BY <1>4, PromoteRefines DEF Collect
<1>5. ASSUME NEW w \in Workers, WorkerError(w)
      PROVE  [Pipeline!PNext]_(Pipeline!pvars)
  <2>1. CASE Reset BY <1>5, <2>1, <1>r DEF WorkerError
  <2>2. CASE UNCHANGED <<status, inflight, collected, completing>>
    <3>1. Ready' = Ready BY <2>2 DEF Ready
    <3> QED BY <1>5, <2>2, <3>1 DEF WorkerError, Pipeline!pvars
  <2> QED BY <1>5, <2>1, <2>2 DEF WorkerError
<1>6. ASSUME NEW bound \in Epochs, StartCompleting(bound)
      PROVE  Pipeline!PNext
  <2> PICK k \in 1..Len(collected) :
        /\ CompleteCheckpoint(k, bound) \/ CompleteNonCheckpoint(k, bound)
        /\ collected' = SubSeq(collected, k + 1, Len(collected))
    BY <1>6 DEF StartCompleting
  <2> DEFINE S == {collected[i] : i \in 1..k}
  <2>s. collected \in Seq(Epochs) BY DEF IInv, TypeOK
  <2>1. /\ Ready = Ready' \cup S
        /\ Len(collected) \in Nat
        /\ Len(collected') = Len(collected) - k
        /\ \A i \in 1..Len(collected') :
             collected'[i] = collected[i + k] /\ i + k \in 1..Len(collected)
        /\ \A i \in 1..Len(collected) : collected[i] \in Epochs
    BY <2>s, PopFront
  <2>2. completing = {} /\ completing' \subseteq {collected[k]}
    BY <1>6 DEF StartCompleting, CompleteCheckpoint, CompleteNonCheckpoint, None
  <2>3. \A e \in S, f \in Ready' : e < f /\ e # f
    <3> SUFFICES ASSUME NEW i \in 1..k, NEW j \in 1..Len(collected')
                 PROVE  /\ collected[i] < collected'[j]
                        /\ collected[i] # collected'[j]
      BY DEF Ready
    <3>1. i \in 1..Len(collected) /\ j + k \in 1..Len(collected) /\ i < j + k
      BY <2>1
    <3>2. collected[i] < collected[j + k] BY <3>1 DEF IInv, CollectedChain
    <3>3. collected[i] \in Nat /\ collected[j + k] \in Nat
      BY <3>1, <2>1, PGEpochsAssumption
    <3> QED BY <3>2, <3>3, <2>1
  <2>4. Ready' = Ready \ S /\ S \subseteq Ready BY <2>1, <2>3
  <2>5. completing' \subseteq S BY <2>2
  <2>6. \A e \in S, t \in completing' : e <= t
    <3> SUFFICES ASSUME NEW i \in 1..k PROVE collected[i] <= collected[k]
      BY <2>2
    <3>1. i \in 1..Len(collected) /\ (i < k \/ i = k) BY <2>1
    <3>2. collected[i] \in Nat /\ collected[k] \in Nat
      BY <3>1, <2>1, PGEpochsAssumption
    <3>3. i < k => collected[i] < collected[k] BY <3>1 DEF IInv, CollectedChain
    <3> QED BY <3>1, <3>2, <3>3
  <2>7. UNCHANGED <<inflight, acked>> BY <1>6 DEF StartCompleting
  <2> HIDE DEF S
  <2>8. Pipeline!PTake(S, completing')
    BY <2>2, <2>3, <2>4, <2>5, <2>6, <2>7 DEF Pipeline!PTake
  <2> QED BY <2>4, <2>5, <2>8 DEF Pipeline!PNext
<1>7. CASE AckCompleted
  <2>1. Ready' = Ready BY <1>7 DEF AckCompleted, Ready
  <2>2. Pipeline!PAck
    BY <1>7, <2>1 DEF AckCompleted, None, IInv, CompletionOrder, Pipeline!PAck
  <2> QED BY <2>2 DEF Pipeline!PNext
<1>8. CASE UNCHANGED vars
  <2>1. Ready' = Ready BY <1>8 DEF vars, Ready
  <2> QED BY <1>8, <2>1 DEF vars, Pipeline!pvars
<1> QED BY <1>1, <1>2, <1>3, <1>4, <1>5, <1>6, <1>7, <1>8, <1>9 DEF Next

\* The partial graph implements the abstract pipeline: barriers become ready
\* and are committed strictly in injection order, one checkpoint at a time.
THEOREM Refinement == Spec => PipelineSpec
<1>1. Init => Pipeline!PInit
  <2> SUFFICES ASSUME Init PROVE Pipeline!PInit OBVIOUS
  <2>1. collected = <<>> /\ Len(collected) = 0 /\ 1..0 = {} BY DEF Init
  <2>2. Ready = {} BY <2>1 DEF Ready
  <2> QED BY <2>2 DEF Init, None, Pipeline!PInit
<1>2. IInv /\ [Next]_vars => [Pipeline!PNext]_(Pipeline!pvars)
  BY StepRefines
<1> QED BY <1>1, <1>2, Invariance, PTL DEF Spec, PipelineSpec, Pipeline!PSpec
=============================================================================
