--------------------- MODULE PartialGraphRecoveryProofs ---------------------
(***************************************************************************)
(* Proofs about PartialGraphRecovery, for any numbers of workers and       *)
(* databases.                                                              *)
(*                                                                         *)
(* Messages carry no term, so that the argument is about the place of each *)
(* message in its stream.  For one worker and one graph, Cell relates what *)
(* the meta node knows of the graph, what the compute node has of it, and  *)
(* the requests and answers about it that are under way between them; each *)
(* operation changes it in a way that can be followed on its own.  MetaOK  *)
(* relates the recovery state of a database to its graphs.                 *)
(***************************************************************************)
EXTENDS PartialGraphRecovery, FiniteSetTheorems, TLAPS

(* Messages and queues. *)

Messages ==
       [type : {"create"}, g : Graphs, term : Nat]
  \cup [type : {"inject"}, g : Graphs, term : Nat, epoch : Nat,
        kind : {"build", "plain", "stop"}]
  \cup [type : {"remove"}, g : Graphs]
  \cup [type : {"reset"}, gs : (SUBSET Graphs) \ {{}}]
  \cup [type : {"complete"}, g : Graphs, term : Nat, epoch : Nat]
  \cup [type : {"failure"}, g : Graphs, term : Nat]
  \cup [type : {"done"}, g : Graphs]

RequestTypes == {"create", "inject", "remove", "reset"}
AnswerTypes  == {"complete", "failure", "done"}

\* The graphs a message is about.
About(m) == IF m.type = "reset" THEN m.gs ELSE {m.g}

\* The order in which the messages about one life of a graph are sent.
Rank(m) == IF m.type \in {"create", "complete"} THEN 1
           ELSE IF m.type \in {"inject", "failure"} THEN 2 ELSE 3

\* The messages about each graph are in that order, each of them once.
Good(q) ==
  /\ q \in Seq(Messages)
  /\ \A i, j \in 1 .. Len(q) :
       i < j => \A g \in About(q[i]) : g \in About(q[j]) => Rank(q[i]) < Rank(q[j])

\* The messages of queue q about graph g.
Pend(q, g) == {m \in Messages : (\E i \in 1 .. Len(q) : q[i] = m) /\ g \in About(m)}

Has(S, ty) == \E m \in S : m.type = ty

(* Types. *)

Stages == {"absent", "pending", "resetting", "initializing", "running"}
JobStates == {"none", "running", "finishing", "resetting", "gone"}
Issue == [epoch : Nat, stop : BOOLEAN]

GraphState == [st : {"none", "running", "resetting", "initializing"}, term : Nat,
               epoch : Nat, left : SUBSET Workers]

\* The state of a graph on a compute node: at most one barrier is issued, and
\* only a graph that was built has any, or actors.
CnOK(c) ==
  /\ DOMAIN c = {"st", "term", "actors", "issued", "outs"}
  /\ c.st \in {"none", "received", "running", "suspended", "resetting"}
  /\ c.term \in Nat /\ c.actors \in BOOLEAN
  /\ c.issued = <<>> \/ \E b \in Issue : c.issued = <<b>>
  /\ c.issued # <<>> => c.st = "running" /\ c.actors
  /\ c.st \in {"none", "received"} => ~c.actors
  /\ c.st = "suspended" => c.actors
  /\ c.st = "running" => c.outs \subseteq {c.term}

TypeInv ==
  /\ phase \in {"boot", "injecting", "global", "running"}
  /\ stage \in [Databases -> Stages]
  /\ waits \in [Databases -> SUBSET Graphs]
  /\ job \in [Databases -> JobStates]
  /\ graph \in [Graphs -> GraphState]
  /\ nodes \in [Graphs -> SUBSET Workers]
  /\ lastTerm \in Nat
  /\ conn \in [Workers -> BOOLEAN]
  /\ DOMAIN reqs = Workers /\ DOMAIN resps = Workers
  /\ DOMAIN cn = Workers /\ \A w \in Workers : DOMAIN cn[w] = Graphs
  /\ batches \in [Workers -> SUBSET SUBSET Graphs]
  /\ xreq \subseteq [to : Workers, g : Graphs, term : Nat]
  /\ panic \in BOOLEAN

(* The two ends of a control stream. *)

Kind(st) == IF st \in {"running", "initializing"} THEN "live" ELSE st

\* A graph that is s at the meta node, with actors on the workers N, of a job
\* that is j; c at the compute node w; and the messages R and A.
CellOK(w, s, N, j, c, R, A) ==
  LET k == Kind(s.st)
      t == s.term
      e == s.epoch
      wait == w \in s.left
      node == w \in N
      fin == j = "finishing"
  IN
  /\ \A x, y \in R : x.type = y.type => x = y
  /\ \A x, y \in A : x.type = y.type => x = y
  /\ \A m \in R : m.type \in RequestTypes
  /\ \A m \in A : m.type \in AnswerTypes
  /\ \A m \in R : m.type = "create" =>
       c.st \in {"none", "received"} /\ A = {} /\ (k = "live" => m.term = t)
  /\ \A m \in R : m.type = "inject" =>
       /\ k # "none"
       /\ Has(R, "create") \/ c.st \in {"running", "suspended"}
       /\ c.issued = <<>> /\ ~Has(A, "complete")
       /\ k = "live" => /\ wait /\ node /\ m.term = t /\ m.epoch = e
                        /\ m.kind = "stop" <=> fin
  /\ \A m \in R : m.type = "remove" =>
       /\ k = "none"
       /\ Has(R, "create") \/ (c.st = "running" /\ c.issued = <<>> /\ ~c.actors)
  /\ \A m \in R : m.type = "reset" =>
       k = "resetting" /\ wait /\ c.st # "resetting" /\ ~Has(A, "done")
  /\ \A a \in A : /\ k # "none"
                  /\ k = "resetting" => wait
                  /\ k = "live" => a.type # "done" /\ a.term = t
  /\ \A a \in A : a.type = "complete" =>
       /\ c.issued = <<>>
       /\ k = "live" => wait /\ a.epoch = e /\ (fin => ~c.actors)
  /\ \A a \in A : a.type = "failure" => c.st # "running" /\ (k = "live" => c.st = "suspended")
  /\ \A a \in A : a.type = "done" => R = {} /\ c.st \in {"none", "received"}
  /\ c.st = "resetting" => k = "resetting" /\ wait /\ R = {} /\ ~Has(A, "done")
  /\ k = "live" =>
       /\ Has(R, "create") \/ c.st \in {"running", "suspended"}
       /\ c.st \in {"running", "suspended"} => c.term = t
       /\ c.actors => node
       /\ c.st = "suspended" => Has(A, "failure")
       /\ \A b \in Issue : c.issued = <<b>> => wait /\ b.epoch = e /\ (b.stop <=> fin)
       /\ fin /\ c.actors => /\ wait /\ ~Has(A, "complete")
                             /\ Has(R, "inject") \/ c.issued # <<>> \/ c.st = "suspended"
  /\ k = "none" =>
       /\ c.st \in {"none", "received"} \/ Has(R, "remove")
       /\ Has(R, "create") => Has(R, "remove")
  /\ k = "resetting" =>
       IF wait THEN Has(R, "reset") \/ c.st = "resetting" \/ Has(A, "done")
       ELSE R = {} /\ A = {} /\ c.st \in {"none", "received"}

\* The job that graph g is of.
JobKind(g) == IF g = JobOf(g[1]) THEN job[g[1]] ELSE "main"

\* The same with state c at the compute node and the messages R and A.
CellWith(w, g, c, R, A) ==
  CellOK(w, graph[g], nodes[g], JobKind(g), c, R, A)

Cell(w, g) == CellWith(w, g, cn[w][g], Pend(reqs[w], g), Pend(resps[w], g))

StreamsOK ==
  \A w \in Workers :
    /\ Good(reqs[w]) /\ Good(resps[w])
    /\ conn[w] => \A g \in Graphs : Cell(w, g)
    /\ ~conn[w] => reqs[w] = <<>> /\ resps[w] = <<>>

\* A graph is removed for good.
RemovedForGood ==
  \A w \in Workers, g \in Graphs :
    Has(Pend(reqs[w], g), "remove") => g = JobOf(g[1]) /\ job[g[1]] = "gone"

(* The compute nodes. *)

\* A graph that is being reset is in one batch, another in none.
BatchOK(w, g) ==
  IF cn[w][g].st = "resetting"
  THEN \E B \in batches[w] : {X \in batches[w] : g \in X} = {B}
  ELSE {X \in batches[w] : g \in X} = {}

CnsOK == \A w \in Workers, g \in Graphs : CnOK(cn[w][g]) /\ BatchOK(w, g)

(* The meta node. *)

GraphOK(g) ==
  /\ graph[g].st = "none" => graph[g].left = {}
  /\ graph[g].left \subseteq Connected
  /\ graph[g].st \in {"running", "initializing"} => graph[g].left \subseteq nodes[g]

\* The graphs of database d in each stage of its recovery.
MetaOK(d) ==
  /\ waits[d] = IF stage[d] = "resetting" THEN {g \in GraphsOf(d) : graph[g].st = "resetting"}
                ELSE IF stage[d] = "initializing"
                THEN {g \in GraphsOf(d) : graph[g].st = "initializing"} ELSE {}
  /\ job[d] \in {"running", "finishing", "resetting"} => d \in JobDatabases
  /\ stage[d] \in {"absent", "pending"} =>
       \A g \in GraphsOf(d) : graph[g].st = "none"
  /\ stage[d] \in {"absent", "pending", "resetting"} => job[d] \in {"none", "gone"}
  /\ stage[d] = "resetting" =>
       \A g \in GraphsOf(d) : graph[g].st \in {"none", "resetting"}
  /\ stage[d] = "initializing" =>
       /\ graph[Main(d)].st \in {"running", "initializing"}
       /\ job[d] \in {"none", "gone", "running"}
       /\ d \in JobDatabases =>
            IF job[d] = "running" THEN graph[JobOf(d)].st \in {"running", "initializing"}
            ELSE graph[JobOf(d)].st = "none"
       /\ \A g \in GraphsOf(d) : graph[g].st = "running" => graph[g].left = {}
  /\ stage[d] = "running" =>
       /\ graph[Main(d)].st = "running"
       /\ d \in JobDatabases =>
            CASE job[d] \in {"running", "finishing"} -> graph[JobOf(d)].st = "running"
              [] job[d] = "resetting" -> graph[JobOf(d)].st = "resetting"
              [] OTHER -> graph[JobOf(d)].st = "none"
       /\ phase \in {"injecting", "global"} =>
            \A g \in GraphsOf(d) : graph[g].st = "running" => graph[g].left = {}
  /\ phase = "boot" => stage[d] = "absent"

MetasOK == (\A g \in Graphs : GraphOK(g)) /\ (\A d \in Databases : MetaOK(d))

RInv == TypeInv /\ StreamsOK /\ RemovedForGood /\ CnsOK /\ MetasOK

------------------------------------------------------------------------------
(* Queues. *)

\* What a message is about: some graphs, and never none.
LEMMA MessageFacts ==
  ASSUME NEW m \in Messages
  PROVE  /\ About(m) \subseteq Graphs /\ About(m) # {}
         /\ Rank(m) \in {1, 2, 3}
         /\ m.type \in RequestTypes \cup AnswerTypes
         /\ m.type # "reset" => m.g \in Graphs /\ About(m) = {m.g}
BY DEF Messages, About, Rank, RequestTypes, AnswerTypes

LEMMA PendIn ==
  ASSUME NEW q, NEW g, NEW m \in Pend(q, g)
  PROVE  m \in Messages /\ g \in About(m)
BY DEF Pend

LEMMA EmptyGood == Good(<<>>) /\ \A g : Pend(<<>>, g) = {}
BY DEF Good, Pend

\* A message appended after those about the same graphs that rank below it.
LEMMA AppendGood ==
  ASSUME NEW q, Good(q), NEW m \in Messages,
         \A g \in About(m) : \A x \in Pend(q, g) : Rank(x) < Rank(m)
  PROVE  /\ Good(Append(q, m))
         /\ \A g \in About(m) : Pend(Append(q, m), g) = Pend(q, g) \cup {m}
         /\ \A g : g \notin About(m) => Pend(Append(q, m), g) = Pend(q, g)
<1> DEFINE p == Append(q, m)
<1>0. q \in Seq(Messages)
      BY DEF Good
<1>1. /\ p \in Seq(Messages) /\ Len(p) = Len(q) + 1 /\ Len(q) \in Nat
      /\ \A i \in 1 .. Len(q) : p[i] = q[i] /\ q[i] \in Messages
      /\ p[Len(q) + 1] = m
      BY <1>0
<1> HIDE DEF p
<1>2. ASSUME NEW i \in 1 .. Len(p), NEW j \in 1 .. Len(p), i < j,
             NEW g \in About(p[i]), g \in About(p[j])
      PROVE  Rank(p[i]) < Rank(p[j])
  <2>1. i \in 1 .. Len(q) /\ p[i] = q[i]
        BY <1>1, <1>2
  <2>2. CASE j \in 1 .. Len(q)
        BY <1>1, <1>2, <2>1, <2>2 DEF Good
  <2>3. CASE j = Len(q) + 1
    <3>1. q[i] \in Pend(q, g)
          BY <1>1, <1>2, <2>1 DEF Pend
    <3> QED  BY <1>1, <1>2, <2>1, <2>3, <3>1
  <2> QED  BY <1>1, <2>2, <2>3
<1>3. Good(p)
      BY <1>1, <1>2 DEF Good
<1>4. ASSUME NEW x, NEW g PROVE x \in Pend(p, g) <=> x \in Pend(q, g) \/ (x = m /\ g \in About(m))
  <2>1. (\E i \in 1 .. Len(p) : p[i] = x) <=> (\E i \in 1 .. Len(q) : q[i] = x) \/ x = m
    <3>1. ASSUME NEW i \in 1 .. Len(p), p[i] = x
          PROVE  (\E k \in 1 .. Len(q) : q[k] = x) \/ x = m
          BY <1>1, <3>1
    <3>2. ASSUME NEW i \in 1 .. Len(q), q[i] = x PROVE \E k \in 1 .. Len(p) : p[k] = x
          BY <1>1, <3>2
    <3>3. Len(q) + 1 \in 1 .. Len(p)
          BY <1>1
    <3> QED  BY <1>1, <3>1, <3>2, <3>3
  <2> QED  BY <2>1 DEF Pend
<1>5. \A g \in About(m) : Pend(p, g) = Pend(q, g) \cup {m}
      BY <1>4
<1>6. \A g : g \notin About(m) => Pend(p, g) = Pend(q, g)
      BY <1>4
<1> QED  BY <1>3, <1>5, <1>6 DEF p

\* A message taken ranks below all others about the same graph.
LEMMA TailGood ==
  ASSUME NEW q, Good(q), q # <<>>
  PROVE  /\ Head(q) \in Messages
         /\ Good(Tail(q))
         /\ \A g \in About(Head(q)) :
              /\ Head(q) \in Pend(q, g)
              /\ Pend(Tail(q), g) = Pend(q, g) \ {Head(q)}
              /\ \A x \in Pend(q, g) : x = Head(q) \/ Rank(Head(q)) < Rank(x)
         /\ \A g : g \notin About(Head(q)) => Pend(Tail(q), g) = Pend(q, g)
<1> DEFINE p == Tail(q)
           h == Head(q)
<1>0. q \in Seq(Messages)
      BY DEF Good
<1>1. /\ p \in Seq(Messages) /\ Len(p) = Len(q) - 1 /\ Len(q) \in Nat /\ Len(q) >= 1
      /\ \A i \in 1 .. Len(q) - 1 : p[i] = q[i + 1]
      /\ h = q[1] /\ h \in Messages
      BY <1>0
<1> HIDE DEF p, h
<1>2. ASSUME NEW i \in 1 .. Len(p), NEW j \in 1 .. Len(p), i < j,
             NEW g \in About(p[i]), g \in About(p[j])
      PROVE  Rank(p[i]) < Rank(p[j])
  <2>1. /\ p[i] = q[i + 1] /\ p[j] = q[j + 1]
        /\ i + 1 \in 1 .. Len(q) /\ j + 1 \in 1 .. Len(q) /\ i + 1 < j + 1
        BY <1>1, <1>2
  <2> QED  BY <1>2, <2>1 DEF Good
<1>3. Good(p)
      BY <1>1, <1>2 DEF Good
<1>4. ASSUME NEW i \in 2 .. Len(q), NEW g \in About(h), g \in About(q[i])
      PROVE  q[i] # h /\ Rank(h) < Rank(q[i])
  <2>1. 1 \in 1 .. Len(q) /\ i \in 1 .. Len(q) /\ 1 < i
        BY <1>1
  <2>2. Rank(h) < Rank(q[i])
        BY <1>1, <1>4, <2>1 DEF Good
  <2>3. Rank(h) \in {1, 2, 3}
        BY <1>1, MessageFacts
  <2> QED  BY <2>2, <2>3
<1>5. ASSUME NEW x
      PROVE  (\E i \in 1 .. Len(p) : p[i] = x) <=> (\E i \in 2 .. Len(q) : q[i] = x)
  <2>1. ASSUME NEW i \in 1 .. Len(p), p[i] = x PROVE \E k \in 2 .. Len(q) : q[k] = x
    <3>1. i + 1 \in 2 .. Len(q) /\ q[i + 1] = x
          BY <1>1, <2>1
    <3> QED  BY <3>1
  <2>2. ASSUME NEW i \in 2 .. Len(q), q[i] = x PROVE \E k \in 1 .. Len(p) : p[k] = x
    <3>1. i - 1 \in 1 .. Len(q) - 1 /\ (i - 1) + 1 = i /\ i - 1 \in 1 .. Len(p)
          BY <1>1, <2>2
    <3>2. p[i - 1] = x
          BY <1>1, <2>2, <3>1
    <3> QED  BY <3>1, <3>2
  <2> QED  BY <2>1, <2>2
<1>6. ASSUME NEW x
      PROVE  (\E i \in 1 .. Len(q) : q[i] = x) <=> x = h \/ (\E i \in 2 .. Len(q) : q[i] = x)
  <2>1. \A i \in 1 .. Len(q) : i = 1 \/ i \in 2 .. Len(q)
        BY <1>1
  <2>2. 1 \in 1 .. Len(q) /\ \A i \in 2 .. Len(q) : i \in 1 .. Len(q)
        BY <1>1
  <2> QED  BY <1>1, <2>1, <2>2
<1>7. ASSUME NEW g \in About(h)
      PROVE  h \in Pend(q, g) /\ Pend(p, g) = Pend(q, g) \ {h}
             /\ \A x \in Pend(q, g) : x = h \/ Rank(h) < Rank(x)
  <2>1. h \in Pend(q, g)
        BY <1>1, <1>6 DEF Pend
  <2>2. ASSUME NEW x PROVE x \in Pend(p, g) <=> x \in Pend(q, g) \ {h}
        BY <1>4, <1>5, <1>6 DEF Pend
  <2>3. ASSUME NEW x \in Pend(q, g), x # h PROVE Rank(h) < Rank(x)
        BY <1>4, <1>6, <2>3 DEF Pend
  <2> QED  BY <2>1, <2>2, <2>3
<1>8. ASSUME NEW g, g \notin About(h) PROVE Pend(p, g) = Pend(q, g)
      BY <1>5, <1>6, <1>8 DEF Pend
<1> QED  BY <1>1, <1>3, <1>7, <1>8 DEF p, h

\* One queue after another, whose messages rank above those of the first.
LEMMA ConcatGood ==
  ASSUME NEW q, Good(q), NEW r, Good(r),
         \A g \in Graphs : \A x \in Pend(q, g), y \in Pend(r, g) : Rank(x) < Rank(y)
  PROVE  /\ Good(q \o r)
         /\ \A g : Pend(q \o r, g) = Pend(q, g) \cup Pend(r, g)
<1> DEFINE p == q \o r
<1>0. q \in Seq(Messages) /\ r \in Seq(Messages)
      BY DEF Good
<1>1. /\ p \in Seq(Messages) /\ Len(p) = Len(q) + Len(r) /\ Len(q) \in Nat /\ Len(r) \in Nat
      /\ \A i \in 1 .. Len(q) : p[i] = q[i] /\ q[i] \in Messages
      /\ \A i \in 1 .. Len(r) : r[i] \in Messages
      BY <1>0
<1>2. \A i \in Len(q) + 1 .. Len(p) : p[i] = r[i - Len(q)] /\ i - Len(q) \in 1 .. Len(r)
      BY <1>0, <1>1
<1> HIDE DEF p
<1>3. ASSUME NEW i \in 1 .. Len(p), NEW j \in 1 .. Len(p), i < j,
             NEW g \in About(p[i]), g \in About(p[j])
      PROVE  Rank(p[i]) < Rank(p[j])
  <2>1. CASE j \in 1 .. Len(q)
    <3>1. i \in 1 .. Len(q)
          BY <1>1, <1>3, <2>1
    <3> QED  BY <1>1, <1>3, <2>1, <3>1 DEF Good
  <2>2. CASE i \in Len(q) + 1 .. Len(p)
    <3>1. j \in Len(q) + 1 .. Len(p)
          BY <1>1, <1>3, <2>2
    <3>2. /\ i - Len(q) \in 1 .. Len(r) /\ j - Len(q) \in 1 .. Len(r)
          /\ p[i] = r[i - Len(q)] /\ p[j] = r[j - Len(q)] /\ i - Len(q) < j - Len(q)
          BY <1>1, <1>2, <1>3, <2>2, <3>1
    <3> QED  BY <1>3, <3>2 DEF Good
  <2>3. CASE i \in 1 .. Len(q) /\ j \in Len(q) + 1 .. Len(p)
    <3>1. p[i] \in Pend(q, g)
          BY <1>1, <1>3, <2>3 DEF Pend
    <3>2. p[j] \in Pend(r, g)
          BY <1>1, <1>2, <1>3, <2>3 DEF Pend
    <3>3. g \in Graphs
          BY <1>1, <1>3, <2>3, MessageFacts
    <3> QED  BY <3>1, <3>2, <3>3
  <2> QED  BY <1>1, <1>3, <2>1, <2>2, <2>3
<1>4. Good(p)
      BY <1>1, <1>3 DEF Good
<1>5. ASSUME NEW x
      PROVE  (\E i \in 1 .. Len(p) : p[i] = x)
               <=> (\E i \in 1 .. Len(q) : q[i] = x) \/ (\E i \in 1 .. Len(r) : r[i] = x)
  <2>1. ASSUME NEW i \in 1 .. Len(p), p[i] = x
        PROVE  (\E k \in 1 .. Len(q) : q[k] = x) \/ (\E k \in 1 .. Len(r) : r[k] = x)
    <3>1. i \in 1 .. Len(q) \/ i \in Len(q) + 1 .. Len(p)
          BY <1>1
    <3> QED  BY <1>1, <1>2, <2>1, <3>1
  <2>2. ASSUME NEW i \in 1 .. Len(q), q[i] = x PROVE \E k \in 1 .. Len(p) : p[k] = x
        BY <1>1, <2>2
  <2>3. ASSUME NEW i \in 1 .. Len(r), r[i] = x PROVE \E k \in 1 .. Len(p) : p[k] = x
    <3>1. Len(q) + i \in Len(q) + 1 .. Len(p) /\ (Len(q) + i) - Len(q) = i
          BY <1>1
    <3>2. p[Len(q) + i] = x /\ Len(q) + i \in 1 .. Len(p)
          BY <1>1, <1>2, <2>3, <3>1
    <3> QED  BY <3>2
  <2> QED  BY <2>1, <2>2, <2>3
<1>6. ASSUME NEW g PROVE Pend(p, g) = Pend(q, g) \cup Pend(r, g)
      BY <1>5 DEF Pend
<1> QED  BY <1>4, <1>6 DEF p

\* SetToSeq lists each element of a finite set once.
LEMMA SetToSeqLists ==
  ASSUME NEW S, IsFiniteSet(S)
  PROVE  /\ SetToSeq(S) \in Seq(S)
         /\ \A i, j \in 1 .. Len(SetToSeq(S)) : SetToSeq(S)[i] = SetToSeq(S)[j] => i = j
         /\ \A x \in S : \E i \in 1 .. Len(SetToSeq(S)) : SetToSeq(S)[i] = x
<1> DEFINE n == Cardinality(S)
           f == SetToSeq(S)
<1>1. n \in Nat /\ ExistsBijection(1 .. n, S)
      BY FS_CardinalityType
<1>2. \E b \in [1 .. n -> S] : IsInjective(b)
      BY <1>1 DEF ExistsBijection, Bijection, Injection, IsInjective, Surjection
<1>3. f \in [1 .. n -> S] /\ IsInjective(f)
      BY <1>2 DEF SetToSeq
<1> HIDE DEF f
<1>4. f \in Injection(1 .. n, S)
      BY <1>3 DEF Injection, IsInjective
<1>5. Cardinality(1 .. n) = n
      BY <1>1, FS_Interval
<1>6. f \in Surjection(1 .. n, S)
      BY <1>4, <1>5, FS_Injection
<1>7. f \in Seq(S) /\ Len(f) = n
      BY <1>1, <1>3
<1>8. \A x \in S : \E i \in 1 .. n : f[i] = x
      BY <1>6 DEF Surjection
<1>9. \A i, j \in 1 .. n : f[i] = f[j] => i = j
      BY <1>3 DEF IsInjective
<1> QED  BY <1>7, <1>8, <1>9 DEF f

\* Messages about different graphs, in any order.
LEMMA ListGood ==
  ASSUME NEW S, IsFiniteSet(S), S \subseteq Messages,
         \A x, y \in S : \A g \in About(x) : g \in About(y) => x = y
  PROVE  /\ Good(SetToSeq(S))
         /\ \A g : Pend(SetToSeq(S), g) = {m \in S : g \in About(m)}
<1> DEFINE f == SetToSeq(S)
<1>1. /\ f \in Seq(S)
      /\ \A i, j \in 1 .. Len(f) : f[i] = f[j] => i = j
      /\ \A x \in S : \E i \in 1 .. Len(f) : f[i] = x
      BY SetToSeqLists
<1> HIDE DEF f
<1>2. f \in Seq(Messages) /\ \A i \in 1 .. Len(f) : f[i] \in S
      BY <1>1
<1>3. ASSUME NEW i \in 1 .. Len(f), NEW j \in 1 .. Len(f), i < j,
             NEW g \in About(f[i]), g \in About(f[j])
      PROVE  FALSE
  <2>1. f[i] = f[j]
        BY <1>2, <1>3
  <2>2. i = j
        BY <1>1, <2>1
  <2>3. Len(f) \in Nat
        BY <1>1
  <2> QED  BY <1>3, <2>2, <2>3
<1>4. Good(f)
      BY <1>2, <1>3 DEF Good
<1>5. ASSUME NEW g PROVE Pend(f, g) = {m \in S : g \in About(m)}
      BY <1>1, <1>2 DEF Pend
<1> QED  BY <1>4, <1>5 DEF f

------------------------------------------------------------------------------
(* Graphs. *)

LEMMA GraphFacts ==
  ASSUME NEW g \in Graphs
  PROVE  /\ g[1] \in Databases /\ g \in GraphsOf(g[1])
         /\ \/ g = Main(g[1])
            \/ g = JobOf(g[1]) /\ g[1] \in JobDatabases
BY RecoveryAssumption DEF Graphs, GraphsOf, Main, JobOf

LEMMA DatabaseFacts ==
  ASSUME NEW d \in Databases
  PROVE  /\ Main(d) \in Graphs /\ Main(d)[1] = d /\ JobOf(d)[1] = d
         /\ Main(d) # JobOf(d)
         /\ JobOf(d) \in Graphs <=> d \in JobDatabases
         /\ GraphsOf(d) \subseteq Graphs
         /\ \A g \in Graphs : g \in GraphsOf(d) <=> g[1] = d
         /\ \A g \in GraphsOf(d) : g = Main(d) \/ (g = JobOf(d) /\ d \in JobDatabases)
BY RecoveryAssumption DEF Graphs, GraphsOf, Main, JobOf

LEMMA FiniteGraphs == IsFiniteSet(Graphs)
<1>1. IsFiniteSet(Databases) /\ JobDatabases \subseteq Databases
      BY RecoveryAssumption
<1>2. IsFiniteSet(JobDatabases)
      BY <1>1, FS_Subset
<1>3. IsFiniteSet({Main(d) : d \in Databases})
  <2> DEFINE f == [d \in Databases |-> Main(d)]
  <2>1. f \in Surjection(Databases, {Main(d) : d \in Databases})
        BY DEF Surjection
  <2> QED  BY <1>1, <2>1, FS_Surjection
<1>4. IsFiniteSet({JobOf(d) : d \in JobDatabases})
  <2> DEFINE f == [d \in JobDatabases |-> JobOf(d)]
  <2>1. f \in Surjection(JobDatabases, {JobOf(d) : d \in JobDatabases})
        BY DEF Surjection
  <2> QED  BY <1>2, <2>1, FS_Surjection
<1> QED  BY <1>3, <1>4, FS_Union DEF Graphs

------------------------------------------------------------------------------
(* What each operation does to a cell.  First the compute node's.             *)

\* The head of a queue about a graph comes before what its rank says.
LEMMA HeadFirst ==
  ASSUME NEW R, NEW m \in R, R \subseteq Messages,
         \A x \in R : x = m \/ Rank(m) < Rank(x)
  PROVE  /\ m.type = "inject" => ~Has(R, "create")
         /\ m.type \in {"remove", "reset"} => R = {m}
<1>1. \A x \in R : Rank(x) \in {1, 2, 3}
      BY MessageFacts
<1>2. ASSUME m.type = "inject", NEW x \in R, x.type = "create" PROVE FALSE
      BY <1>1, <1>2 DEF Rank
<1>3. ASSUME m.type \in {"remove", "reset"}, NEW x \in R, x # m PROVE FALSE
      BY <1>1, <1>3 DEF Rank
<1> QED  BY <1>2, <1>3 DEF Has

\* add_partial_graph at a compute node.
LEMMA CellCreate ==
  ASSUME NEW w, NEW g, NEW c, NEW R, NEW A, CnOK(c), CellWith(w, g, c, R, A),
         NEW m \in R, m.type = "create", NEW c2,
         c2.st = "running", c2.term = m.term, ~c2.actors, c2.issued = <<>>
  PROVE  CellWith(w, g, c2, R \ {m}, A)
<1> USE DEF CellWith, CellOK, Has, CnOK
<1>1. \A x \in R \ {m} : x.type # "create"
      OBVIOUS
<1>2. \A ty : ty # "create" => (Has(R \ {m}, ty) <=> Has(R, ty))
      OBVIOUS
<1> QED  BY <1>1, <1>2

\* send_barrier at a compute node, of a graph that runs.
LEMMA CellInject ==
  ASSUME NEW w, NEW g, NEW c, NEW R, NEW A, CnOK(c), CellWith(w, g, c, R, A),
         NEW m \in R, m.type = "inject", c.st = "running", NEW c2, NEW b \in Issue,
         c2.st = "running", c2.term = c.term, c2.actors, c2.issued = <<b>>,
         b.epoch = m.epoch, b.stop <=> m.kind = "stop"
  PROVE  CellWith(w, g, c2, R \ {m}, A)
<1> USE DEF CellWith, CellOK, Has, CnOK
<1>1. \A x \in R \ {m} : x.type # "inject"
      OBVIOUS
<1>2. \A ty : ty # "inject" => (Has(R \ {m}, ty) <=> Has(R, ty))
      OBVIOUS
<1> QED  BY <1>1, <1>2

\* send_barrier at a compute node, of a graph that is suspended.
LEMMA CellInjectIgnored ==
  ASSUME NEW w, NEW g, NEW c, NEW R, NEW A, CnOK(c), CellWith(w, g, c, R, A),
         NEW m \in R, m.type = "inject", c.st = "suspended"
  PROVE  CellWith(w, g, c, R \ {m}, A)
<1> USE DEF CellWith, CellOK, Has, CnOK, RequestTypes, AnswerTypes
<1>1. \A x \in R \ {m} : x.type # "inject"
      OBVIOUS
<1>2. \A ty : ty # "inject" => (Has(R \ {m}, ty) <=> Has(R, ty))
      OBVIOUS
<1> QED  BY <1>1, <1>2

\* remove_partial_graphs at a compute node.
LEMMA CellRemove ==
  ASSUME NEW w, NEW g, NEW c, NEW R, NEW A, CnOK(c), CellWith(w, g, c, R, A),
         NEW m \in R, m.type = "remove", R = {m}, NEW c2, c2.st = "none", ~c2.actors,
         c2.issued = <<>>
  PROVE  CellWith(w, g, c2, R \ {m}, A)
<1> USE DEF CellWith, CellOK, Has, CnOK, RequestTypes, AnswerTypes
<1> QED  OBVIOUS

\* reset_partial_graphs at a compute node, of a graph that is not there.
LEMMA CellResetGone ==
  ASSUME NEW w, NEW g, NEW c, NEW R, NEW A, CnOK(c), CellWith(w, g, c, R, A),
         NEW m \in R, m.type = "reset", R = {m}, c.st = "none", NEW a, a.type = "done"
  PROVE  CellWith(w, g, c, R \ {m}, A \cup {a})
<1> USE DEF CellWith, CellOK, Has, CnOK, RequestTypes, AnswerTypes
<1> QED  OBVIOUS

\* reset_partial_graphs at a compute node, of a graph that is there.
LEMMA CellResetHere ==
  ASSUME NEW w, NEW g, NEW c, NEW R, NEW A, CnOK(c), CellWith(w, g, c, R, A),
         NEW m \in R, m.type = "reset", R = {m}, c.st # "none", NEW c2,
         c2.st = "resetting", c2.issued = <<>>
  PROVE  CellWith(w, g, c2, R \ {m}, A)
<1> USE DEF CellWith, CellOK, Has, CnOK, RequestTypes, AnswerTypes
<1> QED  OBVIOUS

\* The reset of a graph is done at a compute node.
LEMMA CellResetDone ==
  ASSUME NEW w, NEW g, NEW c, NEW R, NEW A, CnOK(c), CellWith(w, g, c, R, A),
         c.st = "resetting", NEW c2, c2.st = "none", ~c2.actors, c2.issued = <<>>,
         NEW a, a.type = "done"
  PROVE  CellWith(w, g, c2, R, A \cup {a})
<1> USE DEF CellWith, CellOK, Has, CnOK, RequestTypes, AnswerTypes
<1> QED  OBVIOUS

\* A barrier is complete at a compute node.
LEMMA CellComplete ==
  ASSUME NEW w, NEW g, NEW c, NEW R, NEW A, CnOK(c), CellWith(w, g, c, R, A),
         c.st = "running", NEW b \in Issue, c.issued = <<b>>, NEW c2, c2.st = "running",
         c2.term = c.term, c2.actors <=> ~b.stop, c2.issued = <<>>,
         NEW a, a.type = "complete", a.term = c.term, a.epoch = b.epoch
  PROVE  CellWith(w, g, c2, R, A \cup {a})
<1> USE DEF CellWith, CellOK, Has, CnOK, RequestTypes, AnswerTypes
<1>1. c.issued # <<>> /\ c.actors
      OBVIOUS
<1>2. A = {} /\ ~Has(R, "inject") /\ ~Has(R, "create") /\ ~Has(R, "remove") /\ Kind(graph[g].st) # "none"
      BY <1>1
<1> QED  BY <1>1, <1>2

\* An actor fails at a compute node.
LEMMA CellFail ==
  ASSUME NEW w, NEW g, NEW c, NEW R, NEW A, CnOK(c), CellWith(w, g, c, R, A),
         c.st = "running", c.actors, NEW c2, c2.st = "suspended", c2.term = c.term, c2.actors,
         c2.issued = <<>>, NEW a, a.type = "failure", a.term = c.term
  PROVE  CellWith(w, g, c2, R, A \cup {a})
<1> USE DEF CellWith, CellOK, Has, CnOK, RequestTypes, AnswerTypes
<1>1. ~Has(R, "create") /\ ~Has(R, "remove") /\ Kind(graph[g].st) # "none"
      OBVIOUS
<1>2. \A x \in A : x.type = "complete"
      OBVIOUS
<1> QED  BY <1>1, <1>2

\* An exchange request is kept or handed out.
LEMMA CellDeliver ==
  ASSUME NEW w, NEW g, NEW c, NEW R, NEW A, CnOK(c), CellWith(w, g, c, R, A),
         NEW c2, c2.st = c.st \/ (c.st = "none" /\ c2.st = "received"), c2.term = c.term,
         c2.actors <=> c.actors, c2.issued = c.issued
  PROVE  CellWith(w, g, c2, R, A)
<1> USE DEF CellWith, CellOK, Has, CnOK, RequestTypes, AnswerTypes
<1> QED  OBVIOUS

------------------------------------------------------------------------------
(* Then the meta node's. *)

\* What the meta node knows of a graph does not change for the worker.
LEMMA CellSame ==
  ASSUME NEW w, NEW s, NEW N, NEW j, NEW c, NEW R, NEW A, CnOK(c),
         CellOK(w, s, N, j, c, R, A),
         NEW s2, Kind(s2.st) = Kind(s.st), s2.term = s.term, s2.epoch = s.epoch,
         w \in s2.left <=> w \in s.left, NEW j2, j2 = "finishing" <=> j = "finishing"
  PROVE  CellOK(w, s2, N, j2, c, R, A)
<1> USE DEF CellOK, Has, CnOK, RequestTypes, AnswerTypes
<1> QED  OBVIOUS

\* Nothing is known of a graph, and nothing under way.
LEMMA CellFresh ==
  ASSUME NEW w, NEW s, NEW N, NEW j, NEW c, c.st = "none", ~c.actors, c.issued = <<>>,
         s.st \in {"none", "resetting"}, s.st = "resetting" => w \notin s.left
  PROVE  CellOK(w, s, N, j, c, {}, {})
BY DEF CellOK, Has, Kind

\* A worker that reconnects is told of a graph that exists.
LEMMA CellToldAgain ==
  ASSUME NEW w, NEW s, NEW N, NEW j, NEW c, c.st = "none", ~c.actors, c.issued = <<>>,
         s.st \in {"running", "initializing"}, NEW m, m.type = "create", m.term = s.term
  PROVE  CellOK(w, s, N, j, c, {m}, {})
<1>1. c.issued = <<>> => \A b \in Issue : c.issued # <<b>>
      OBVIOUS
<1> QED  BY <1>1 DEF CellOK, Has, RequestTypes, Kind

\* Of a graph that the meta node does not have nothing is under way, unless it
\* is being removed.
LEMMA CellNone ==
  ASSUME NEW w, NEW s, NEW N, NEW j, NEW c, NEW R, NEW A, CnOK(c),
         CellOK(w, s, N, j, c, R, A), s.st = "none", ~Has(R, "remove")
  PROVE  /\ R = {} /\ A = {} /\ c.st \in {"none", "received"} /\ ~c.actors
         /\ c.issued = <<>> /\ \A b \in Issue : c.issued # <<b>>
<1> USE DEF CellOK, Has, CnOK, RequestTypes, AnswerTypes, Kind
<1>1. R = {} /\ A = {} /\ c.st \in {"none", "received"} /\ ~c.actors /\ c.issued = <<>>
      OBVIOUS
<1> QED  BY <1>1

\* The requests of a graph as it is added or recovered: the initial barrier is
\* sent or not.
Starting(R, w, s, N) ==
  /\ \A x, y \in R : x.type = y.type => x = y
  /\ Has(R, "create")
  /\ \A m \in R : \/ m.type = "create" /\ m.term = s.term
                  \/ /\ m.type = "inject" /\ w \in s.left /\ w \in N
                     /\ m.term = s.term /\ m.epoch = s.epoch /\ m.kind # "stop"

LEMMA CellStart ==
  ASSUME NEW w, NEW s, NEW N, NEW j, NEW c, NEW R, NEW A, CnOK(c),
         CellOK(w, s, N, j, c, R, A), s.st = "none", ~Has(R, "remove"),
         NEW s2, s2.st \in {"running", "initializing"}, NEW N2, NEW j2, j2 # "finishing",
         NEW R2, Starting(R2, w, s2, N2)
  PROVE  CellOK(w, s2, N2, j2, c, R2, A)
<1>1. /\ A = {} /\ c.st \in {"none", "received"} /\ ~c.actors /\ c.issued = <<>>
      /\ \A b \in Issue : c.issued # <<b>>
      BY CellNone
<1> QED  BY <1>1 DEF CellOK, Has, RequestTypes, Kind, Starting

\* inject_barrier of a graph that waits for no worker, to a worker or to others.
LEMMA CellBarrier ==
  ASSUME NEW w, NEW s, NEW N, NEW j, NEW c, NEW R, NEW A, CnOK(c),
         CellOK(w, s, N, j, c, R, A), Kind(s.st) = "live", w \notin s.left, j # "finishing",
         NEW s2, Kind(s2.st) = "live", s2.term = s.term, w \in s2.left <=> w \in N,
         NEW j2, NEW m, m.type = "inject", m.term = s.term, m.epoch = s2.epoch,
         m.kind = "stop" <=> j2 = "finishing"
  PROVE  CellOK(w, s2, N, j2, c, IF w \in N THEN R \cup {m} ELSE R, A)
<1> USE DEF CellOK, Has, CnOK, RequestTypes, AnswerTypes
<1>1. c.issued = <<>> /\ ~Has(R, "inject") /\ ~Has(A, "complete")
      OBVIOUS
<1>2. \A b \in Issue : c.issued # <<b>>
      BY <1>1
<1>3. CASE w \in N
      BY <1>1, <1>2, <1>3
<1>4. CASE w \notin N
      BY <1>1, <1>2, <1>4
<1> QED  BY <1>3, <1>4

\* reset_partial_graphs of a graph that is live, perhaps at an answer.
LEMMA CellReset ==
  ASSUME NEW w, NEW s, NEW N, NEW j, NEW c, NEW R, NEW A, CnOK(c),
         CellOK(w, s, N, j, c, R, A), Kind(s.st) = "live",
         NEW s2, s2.st = "resetting", w \in s2.left, NEW N2, NEW j2,
         NEW m, m.type = "reset", NEW A2, A2 \subseteq A
  PROVE  CellOK(w, s2, N2, j2, c, R \cup {m}, A2)
<1> USE DEF CellOK, Has, CnOK, RequestTypes, AnswerTypes, Kind
<1> QED  OBVIOUS

\* remove_partial_graphs of a job whose last barrier is complete.
LEMMA CellFinish ==
  ASSUME NEW w, NEW s, NEW N, NEW j, NEW c, NEW R, NEW A, CnOK(c),
         CellOK(w, s, N, j, c, R, A), Kind(s.st) = "live", w \notin s.left, j = "finishing",
         NEW s2, s2.st = "none", NEW j2, NEW m, m.type = "remove"
  PROVE  CellOK(w, s2, N, j2, c, R \cup {m}, A)
<1> USE DEF CellOK, Has, CnOK, RequestTypes, AnswerTypes, Kind
<1>1. ~c.actors /\ c.issued = <<>> /\ c.st # "suspended"
      OBVIOUS
<1>2. A = {}
      BY <1>1
<1>3. \A x \in R : x.type = "create"
      OBVIOUS
<1> QED  BY <1>1, <1>2, <1>3

\* The meta node takes the completion of a barrier.
LEMMA CellCollect ==
  ASSUME NEW w, NEW s, NEW N, NEW j, NEW c, NEW R, NEW A, CnOK(c),
         CellOK(w, s, N, j, c, R, A), Kind(s.st) = "live",
         NEW a \in A, a.type = "complete", NEW s2, Kind(s2.st) = "live", s2.term = s.term,
         s2.epoch = s.epoch, w \notin s2.left
  PROVE  CellOK(w, s2, N, j, c, R, A \ {a})
<1> USE DEF CellOK, Has, CnOK, RequestTypes, AnswerTypes
<1>1. /\ c.issued = <<>> /\ ~Has(R, "inject") /\ ~Has(A \ {a}, "complete")
      /\ j = "finishing" => ~c.actors
      OBVIOUS
<1>2. \A b \in Issue : c.issued # <<b>>
      BY <1>1
<1>3. Has(A, "failure") => Has(A \ {a}, "failure")
      OBVIOUS
<1> QED  BY <1>1, <1>2, <1>3

\* The meta node ignores an answer of a graph that is being reset.
LEMMA CellDrop ==
  ASSUME NEW w, NEW s, NEW N, NEW j, NEW c, NEW R, NEW A, CnOK(c),
         CellOK(w, s, N, j, c, R, A), s.st = "resetting", NEW a \in A, a.type # "done"
  PROVE  CellOK(w, s, N, j, c, R, A \ {a})
<1> USE DEF CellOK, Has, CnOK, RequestTypes, AnswerTypes, Kind
<1> QED  OBVIOUS

\* The meta node takes the last answer of a worker to a reset.
LEMMA CellAnswered ==
  ASSUME NEW w, NEW s, NEW N, NEW j, NEW c, NEW R, NEW A, CnOK(c),
         CellOK(w, s, N, j, c, R, A), s.st = "resetting",
         NEW a \in A, a.type = "done", A = {a}, NEW s2, s2.st = "resetting",
         w \notin s2.left
  PROVE  CellOK(w, s2, N, j, c, R, A \ {a})
<1> USE DEF CellOK, Has, CnOK, RequestTypes, AnswerTypes, Kind
<1> QED  OBVIOUS

\* A graph is reset on all workers.
LEMMA CellResetEnds ==
  ASSUME NEW w, NEW s, NEW N, NEW j, NEW c, NEW R, NEW A, CnOK(c),
         CellOK(w, s, N, j, c, R, A), s.st = "resetting", w \notin s.left,
         NEW s2, s2.st = "none", NEW N2, NEW j2
  PROVE  CellOK(w, s2, N2, j2, c, R, A)
<1> USE DEF CellOK, Has, CnOK, RequestTypes, AnswerTypes, Kind
<1> QED  OBVIOUS

\* Nothing else of a graph matters that the meta node does not have.
LEMMA CellAbsent ==
  ASSUME NEW w, NEW s, NEW N, NEW j, NEW c, NEW R, NEW A, CnOK(c),
         CellOK(w, s, N, j, c, R, A), s.st = "none", NEW s2, s2.st = "none", NEW N2, NEW j2
  PROVE  CellOK(w, s2, N2, j2, c, R, A)
<1> USE DEF CellOK, Has, CnOK, RequestTypes, AnswerTypes, Kind
<1> QED  OBVIOUS

------------------------------------------------------------------------------
(* Updates. *)

\* Only graph g of worker w changes.
OnlyCell(w, g) ==
  /\ DOMAIN cn' = Workers /\ \A v \in Workers : DOMAIN cn'[v] = Graphs
  /\ \A v \in Workers : v # w => cn'[v] = cn[v]
  /\ \A h \in Graphs : h # g => cn'[w][h] = cn[w][h]

LEMMA CnPut ==
  ASSUME TypeInv, NEW w \in Workers, NEW g \in Graphs, NEW x,
         cn' = [cn EXCEPT ![w][g] = x]
  PROVE  OnlyCell(w, g) /\ cn'[w][g] = x
BY Zenon DEF TypeInv, OnlyCell

LEMMA NoStateFields ==
  /\ NoState.st = "none" /\ NoState.term = 0 /\ ~NoState.actors /\ NoState.issued = <<>>
  /\ NoState.outs = {}
  /\ DOMAIN NoState = {"st", "term", "actors", "issued", "outs"}
  /\ CnOK(NoState)
BY DEF NoState, CnOK

\* A graph as it is created.
Created(t, o) == [NoState EXCEPT !.st = "running", !.term = t, !.outs = o]

LEMMA CnCreated ==
  ASSUME NEW t, NEW o
  PROVE  /\ DOMAIN Created(t, o) = {"st", "term", "actors", "issued", "outs"}
         /\ Created(t, o).st = "running" /\ Created(t, o).term = t
         /\ ~Created(t, o).actors /\ Created(t, o).actors \in BOOLEAN
         /\ Created(t, o).issued = <<>> /\ Created(t, o).outs = o
<1>0. PICK c : c = Created(t, o)
      OBVIOUS
<1>1. "st" # "term" /\ "st" # "outs" /\ "term" # "outs"
      OBVIOUS
<1>2. /\ DOMAIN c = DOMAIN NoState
      /\ c.st = "running" /\ c.term = t /\ c.outs = o
      BY <1>0, <1>1, NoStateFields, Zenon DEF Created
<1>3. "actors" # "st" /\ "actors" # "term" /\ "actors" # "outs"
      OBVIOUS
<1>4. "issued" # "st" /\ "issued" # "term" /\ "issued" # "outs"
      OBVIOUS
<1>5. c.actors = NoState.actors
      BY <1>0, <1>3, NoStateFields, Zenon DEF Created
<1>6. c.issued = NoState.issued
      BY <1>0, <1>4, NoStateFields, Zenon DEF Created
<1>7. NoState.actors \in BOOLEAN
      BY DEF NoState
<1> QED  BY <1>0, <1>2, <1>5, <1>6, <1>7, NoStateFields

\* A graph whose barrier was issued.
LEMMA CnInjected ==
  ASSUME TypeInv, NEW w \in Workers, NEW g \in Graphs, NEW x, CnOK(cn[w][g]),
         cn' = [cn EXCEPT ![w][g].actors = TRUE, ![w][g].issued = Append(@, x)]
  PROVE  /\ OnlyCell(w, g)
         /\ DOMAIN cn'[w][g] = DOMAIN cn[w][g]
         /\ cn'[w][g].st = cn[w][g].st /\ cn'[w][g].term = cn[w][g].term
         /\ cn'[w][g].actors = TRUE /\ cn'[w][g].issued = Append(cn[w][g].issued, x)
         /\ cn'[w][g].outs = cn[w][g].outs
<1>1. PICK c : c = cn[w][g]
      OBVIOUS
<1>2. DOMAIN c = {"st", "term", "actors", "issued", "outs"}
      BY <1>1 DEF CnOK
<1>3. cn'[w][g] = [c EXCEPT !.actors = TRUE, !.issued = Append(@, x)]
      BY <1>1, Zenon DEF TypeInv
<1>4. OnlyCell(w, g)
      BY Zenon DEF TypeInv, OnlyCell
<1>5. PICK c2 : c2 = [c EXCEPT !.actors = TRUE, !.issued = Append(@, x)]
      OBVIOUS
<1>6. "st" # "actors" /\ "st" # "issued" /\ "term" # "actors" /\ "term" # "issued"
      /\ "outs" # "actors" /\ "outs" # "issued" /\ "issued" # "actors"
      OBVIOUS
<1>7. DOMAIN c2 = DOMAIN c /\ c2.actors = TRUE /\ c2.issued = Append(c.issued, x)
      BY <1>2, <1>5, <1>6, Zenon
<1>8. c2.st = c.st /\ c2.term = c.term /\ c2.outs = c.outs
      BY <1>2, <1>5, <1>6, Zenon
<1> QED  BY <1>1, <1>3, <1>4, <1>5, <1>7, <1>8

\* A graph whose barrier was collected.
LEMMA CnCompleted ==
  ASSUME TypeInv, NEW w \in Workers, NEW g \in Graphs, NEW x, CnOK(cn[w][g]),
         cn' = [cn EXCEPT ![w][g].issued = Tail(@), ![w][g].actors = x]
  PROVE  /\ OnlyCell(w, g)
         /\ DOMAIN cn'[w][g] = DOMAIN cn[w][g]
         /\ cn'[w][g].st = cn[w][g].st /\ cn'[w][g].term = cn[w][g].term
         /\ cn'[w][g].actors = x /\ cn'[w][g].issued = Tail(cn[w][g].issued)
         /\ cn'[w][g].outs = cn[w][g].outs
<1>1. PICK c : c = cn[w][g]
      OBVIOUS
<1>2. DOMAIN c = {"st", "term", "actors", "issued", "outs"}
      BY <1>1 DEF CnOK
<1>3. cn'[w][g] = [c EXCEPT !.issued = Tail(@), !.actors = x]
      BY <1>1, Zenon DEF TypeInv
<1>4. OnlyCell(w, g)
      BY Zenon DEF TypeInv, OnlyCell
<1>5. PICK c2 : c2 = [c EXCEPT !.issued = Tail(@), !.actors = x]
      OBVIOUS
<1>6. "st" # "actors" /\ "st" # "issued" /\ "term" # "actors" /\ "term" # "issued"
      /\ "outs" # "actors" /\ "outs" # "issued" /\ "issued" # "actors"
      OBVIOUS
<1>7. DOMAIN c2 = DOMAIN c /\ c2.actors = x /\ c2.issued = Tail(c.issued)
      BY <1>2, <1>5, <1>6, Zenon
<1>8. c2.st = c.st /\ c2.term = c.term /\ c2.outs = c.outs
      BY <1>2, <1>5, <1>6, Zenon
<1> QED  BY <1>1, <1>3, <1>4, <1>5, <1>7, <1>8

\* A graph that is suspended.
LEMMA CnSuspended ==
  ASSUME TypeInv, NEW w \in Workers, NEW g \in Graphs, CnOK(cn[w][g]),
         cn' = [cn EXCEPT ![w][g].st = "suspended", ![w][g].issued = <<>>]
  PROVE  /\ OnlyCell(w, g)
         /\ DOMAIN cn'[w][g] = DOMAIN cn[w][g]
         /\ cn'[w][g].st = "suspended" /\ cn'[w][g].term = cn[w][g].term
         /\ cn'[w][g].actors = cn[w][g].actors /\ cn'[w][g].issued = <<>>
         /\ cn'[w][g].outs = cn[w][g].outs
<1>1. PICK c : c = cn[w][g]
      OBVIOUS
<1>2. DOMAIN c = {"st", "term", "actors", "issued", "outs"}
      BY <1>1 DEF CnOK
<1>3. cn'[w][g] = [c EXCEPT !.st = "suspended", !.issued = <<>>]
      BY <1>1, Zenon DEF TypeInv
<1>4. OnlyCell(w, g)
      BY Zenon DEF TypeInv, OnlyCell
<1>5. PICK c2 : c2 = [c EXCEPT !.st = "suspended", !.issued = <<>>]
      OBVIOUS
<1>6. "st" # "issued" /\ "term" # "st" /\ "term" # "issued"
      /\ "outs" # "st" /\ "outs" # "issued" /\ "actors" # "issued" /\ "actors" # "st"
      OBVIOUS
<1>7. DOMAIN c2 = DOMAIN c /\ c2.st = "suspended" /\ c2.issued = <<>>
      BY <1>2, <1>5, <1>6, Zenon
<1>8. c2.actors = c.actors /\ c2.term = c.term /\ c2.outs = c.outs
      BY <1>2, <1>5, <1>6, Zenon
<1> QED  BY <1>1, <1>3, <1>4, <1>5, <1>7, <1>8

\* A graph that takes an exchange request.
LEMMA CnReceived ==
  ASSUME TypeInv, NEW w \in Workers, NEW g \in Graphs, NEW t, CnOK(cn[w][g]),
         cn' = [cn EXCEPT ![w][g].outs = @ \cup {t},
                          ![w][g].st = IF @ = "none" THEN "received" ELSE @]
  PROVE  /\ OnlyCell(w, g)
         /\ DOMAIN cn'[w][g] = DOMAIN cn[w][g]
         /\ cn'[w][g].st = (IF cn[w][g].st = "none" THEN "received" ELSE cn[w][g].st)
         /\ cn'[w][g].term = cn[w][g].term
         /\ cn'[w][g].actors = cn[w][g].actors /\ cn'[w][g].issued = cn[w][g].issued
         /\ cn'[w][g].outs = cn[w][g].outs \cup {t}
<1>1. PICK c : c = cn[w][g]
      OBVIOUS
<1>2. DOMAIN c = {"st", "term", "actors", "issued", "outs"}
      BY <1>1 DEF CnOK
<1>3. cn'[w][g] = [c EXCEPT !.outs = @ \cup {t}, !.st = IF @ = "none" THEN "received" ELSE @]
      BY <1>1, Zenon DEF TypeInv
<1>4. OnlyCell(w, g)
      BY Zenon DEF TypeInv, OnlyCell
<1>5. PICK c2 : c2 = [c EXCEPT !.outs = @ \cup {t}, !.st = IF @ = "none" THEN "received" ELSE @]
      OBVIOUS
<1>6. "st" # "outs" /\ "term" # "st" /\ "term" # "outs"
      /\ "issued" # "st" /\ "issued" # "outs" /\ "actors" # "outs" /\ "actors" # "st"
      OBVIOUS
<1>7. /\ DOMAIN c2 = DOMAIN c /\ c2.outs = c.outs \cup {t}
      /\ c2.st = (IF c.st = "none" THEN "received" ELSE c.st)
      BY <1>2, <1>5, <1>6, Zenon
<1>8. c2.actors = c.actors /\ c2.term = c.term /\ c2.issued = c.issued
      BY <1>2, <1>5, <1>6, Zenon
<1> QED  BY <1>1, <1>3, <1>4, <1>5, <1>7, <1>8

\* A graph that is being reset.
LEMMA CnResetting ==
  ASSUME NEW c, CnOK(c), NEW c2,
         c2 = [c EXCEPT !.st = "resetting", !.issued = <<>>, !.outs = {}]
  PROVE  /\ DOMAIN c2 = DOMAIN c
         /\ c2.st = "resetting" /\ c2.term = c.term /\ c2.actors = c.actors
         /\ c2.issued = <<>> /\ c2.outs = {}
<1>2. DOMAIN c = {"st", "term", "actors", "issued", "outs"}
      BY DEF CnOK
<1>6. "st" # "outs" /\ "st" # "issued" /\ "issued" # "outs" /\ "term" # "st" /\ "term" # "outs"
      /\ "term" # "issued" /\ "actors" # "outs" /\ "actors" # "st" /\ "actors" # "issued"
      OBVIOUS
<1>7. DOMAIN c2 = DOMAIN c /\ c2.st = "resetting" /\ c2.issued = <<>> /\ c2.outs = {}
      BY <1>2, <1>6, Zenon
<1>8. c2.actors = c.actors /\ c2.term = c.term
      BY <1>2, <1>6, Zenon
<1> QED  BY <1>7, <1>8

------------------------------------------------------------------------------
(* Steps of a compute node. *)

\* A step of the compute node w that keeps its side of the invariant.
WorkerStep(w) ==
  /\ UNCHANGED <<metaVars, conn>>
  /\ panic' \in BOOLEAN
  /\ xreq' \subseteq [to : Workers, g : Graphs, term : Nat]
  /\ DOMAIN reqs' = Workers /\ DOMAIN resps' = Workers
  /\ DOMAIN cn' = Workers /\ \A v \in Workers : DOMAIN cn'[v] = Graphs
  /\ batches' \in [Workers -> SUBSET SUBSET Graphs]
  /\ \A v \in Workers : v # w => /\ reqs'[v] = reqs[v] /\ resps'[v] = resps[v]
                                 /\ cn'[v] = cn[v] /\ batches'[v] = batches[v]
  /\ Good(reqs'[w]) /\ Good(resps'[w])
  /\ conn[w] => \A g \in Graphs :
                  CellWith(w, g, cn'[w][g], Pend(reqs'[w], g), Pend(resps'[w], g))
  /\ ~conn[w] => reqs'[w] = <<>> /\ resps'[w] = <<>>
  /\ \A g \in Graphs : Pend(reqs'[w], g) \subseteq Pend(reqs[w], g)
  /\ \A g \in Graphs : CnOK(cn'[w][g]) /\ BatchOK(w, g)'

LEMMA WorkerStepKeeps ==
  ASSUME RInv, NEW w \in Workers, WorkerStep(w)
  PROVE  RInv'
<1> USE DEF RInv, WorkerStep
<1>1. /\ phase' = phase /\ stage' = stage /\ waits' = waits /\ job' = job /\ graph' = graph
      /\ nodes' = nodes /\ lastTerm' = lastTerm /\ conn' = conn
      BY DEF metaVars
<1>2. TypeInv'
      BY <1>1 DEF TypeInv
<1>3. StreamsOK'
  <2> SUFFICES ASSUME NEW v \in Workers
               PROVE  /\ Good(reqs'[v]) /\ Good(resps'[v])
                      /\ conn'[v] => \A g \in Graphs : Cell(v, g)'
                      /\ ~conn'[v] => reqs'[v] = <<>> /\ resps'[v] = <<>>
        BY DEF StreamsOK
  <2>1. CASE v = w
        BY <1>1, <2>1 DEF Cell, CellWith, JobKind
  <2>2. CASE v # w
    <3>1. reqs'[v] = reqs[v] /\ resps'[v] = resps[v] /\ cn'[v] = cn[v]
          BY <2>2
    <3>2. \A g \in Graphs : Cell(v, g)' <=> Cell(v, g)
          BY <1>1, <3>1 DEF Cell, CellWith, JobKind
    <3> QED  BY <1>1, <3>1, <3>2 DEF StreamsOK
  <2> QED  BY <2>1, <2>2
<1>4. RemovedForGood'
  <2> SUFFICES ASSUME NEW v \in Workers, NEW g \in Graphs, Has(Pend(reqs'[v], g), "remove")
               PROVE  g = JobOf(g[1]) /\ job[g[1]] = "gone"
        BY <1>1 DEF RemovedForGood
  <2>1. Pend(reqs'[v], g) \subseteq Pend(reqs[v], g)
        OBVIOUS
  <2>2. Has(Pend(reqs[v], g), "remove")
        BY <2>1 DEF Has
  <2> QED  BY <2>2 DEF RemovedForGood
<1>5. CnsOK'
  <2> SUFFICES ASSUME NEW v \in Workers, NEW g \in Graphs
               PROVE  CnOK(cn'[v][g]) /\ BatchOK(v, g)'
        BY DEF CnsOK
  <2>1. CASE v = w
        BY <2>1
  <2>2. CASE v # w
        BY <2>2 DEF CnsOK, BatchOK
  <2> QED  BY <2>1, <2>2
<1>6. MetasOK'
  <2>1. Connected' = Connected
        BY <1>1 DEF Connected
  <2>2. \A g \in Graphs : GraphOK(g)'
        BY <1>1, <2>1 DEF MetasOK, GraphOK
  <2>3. ASSUME NEW d \in Databases PROVE MetaOK(d)'
    <3>1. MetaOK(d)
          BY DEF MetasOK
    <3> QED  BY <1>1, <3>1, Zenon DEF MetaOK
  <2> QED  BY <2>2, <2>3 DEF MetasOK
<1> QED  BY <1>2, <1>3, <1>4, <1>5, <1>6

\* The request m is taken from worker w's queue.
Taken(w, m) ==
  /\ m \in Messages /\ m.type \in RequestTypes
  /\ DOMAIN reqs' = Workers /\ \A v \in Workers : v # w => reqs'[v] = reqs[v]
  /\ Good(reqs'[w])
  /\ \A g \in About(m) :
       /\ m \in Pend(reqs[w], g)
       /\ Pend(reqs'[w], g) = Pend(reqs[w], g) \ {m}
       /\ \A x \in Pend(reqs[w], g) : x = m \/ Rank(m) < Rank(x)
  /\ \A g : g \notin About(m) => Pend(reqs'[w], g) = Pend(reqs[w], g)

LEMMA TakeRequest ==
  ASSUME RInv, NEW w \in Workers, conn[w], reqs[w] # <<>>,
         reqs' = [reqs EXCEPT ![w] = Tail(@)]
  PROVE  Taken(w, Head(reqs[w]))
<1>1. PICK q : q = reqs[w]
      OBVIOUS
<1>2. Good(q) /\ q # <<>>
      BY <1>1 DEF RInv, StreamsOK
<1>3. /\ DOMAIN reqs' = Workers /\ reqs'[w] = Tail(q)
      /\ \A v \in Workers : v # w => reqs'[v] = reqs[v]
      BY <1>1 DEF RInv, TypeInv
<1>4. /\ Head(q) \in Messages
      /\ Good(Tail(q))
      /\ \A g \in About(Head(q)) :
           /\ Head(q) \in Pend(q, g)
           /\ Pend(Tail(q), g) = Pend(q, g) \ {Head(q)}
           /\ \A x \in Pend(q, g) : x = Head(q) \/ Rank(Head(q)) < Rank(x)
      /\ \A g : g \notin About(Head(q)) => Pend(Tail(q), g) = Pend(q, g)
      BY <1>2, TailGood
<1>5. PICK g \in Graphs : g \in About(Head(q))
      BY <1>4, MessageFacts
<1>6. Cell(w, g)
      BY DEF RInv, StreamsOK
<1>7. Head(q).type \in RequestTypes
      BY <1>1, <1>4, <1>5, <1>6 DEF Cell, CellWith, CellOK
<1> QED  BY <1>1, <1>3, <1>4, <1>7 DEF Taken

\* Worker w's answers do not change.
LEMMA SameAnswers ==
  ASSUME RInv, NEW w \in Workers, resps' = resps
  PROVE  DOMAIN resps' = Workers /\ Good(resps'[w])
BY DEF RInv, TypeInv, StreamsOK

\* What a message of one graph is about.
LEMMA AboutOne ==
  ASSUME NEW m \in Messages, m.type # "reset"
  PROVE  m.g \in Graphs /\ About(m) = {m.g}
BY MessageFacts

\* Only graph g changes at worker w.
LEMMA OneCell ==
  ASSUME RInv, NEW w \in Workers, conn[w], NEW g \in Graphs, OnlyCell(w, g),
         \A h \in Graphs : h # g => /\ Pend(reqs'[w], h) = Pend(reqs[w], h)
                                    /\ Pend(resps'[w], h) = Pend(resps[w], h),
         CellWith(w, g, cn'[w][g], Pend(reqs'[w], g), Pend(resps'[w], g))
  PROVE  \A h \in Graphs : CellWith(w, h, cn'[w][h], Pend(reqs'[w], h), Pend(resps'[w], h))
<1> TAKE h \in Graphs
<1>1. CASE h = g
      BY <1>1
<1>2. CASE h # g
  <2>1. Cell(w, h)
        BY DEF RInv, StreamsOK
  <2> QED  BY <1>2, <2>1 DEF Cell, CellWith, OnlyCell
<1> QED  BY <1>1, <1>2

\* Only graph g changes at worker w, and it was not being reset and is not.
LEMMA OneBatch ==
  ASSUME RInv, NEW w \in Workers, NEW g \in Graphs, OnlyCell(w, g), batches' = batches,
         CnOK(cn'[w][g]), cn[w][g].st = "resetting" <=> cn'[w][g].st = "resetting"
  PROVE  \A h \in Graphs : CnOK(cn'[w][h]) /\ BatchOK(w, h)'
<1> TAKE h \in Graphs
<1>1. CnOK(cn[w][h]) /\ BatchOK(w, h)
      BY DEF RInv, CnsOK
<1> QED  BY <1>1 DEF OnlyCell, BatchOK

LEMMA CnCreateKeeps ==
  ASSUME RInv, NEW w \in Workers, NEW m, conn[w], Taken(w, m), m.type = "create",
         CnCreate(w, m), UNCHANGED <<metaVars, conn, xVars>>
  PROVE  RInv' /\ (panic' => panic)
<1> DEFINE g == m.g
           c == cn[w][g]
           R == Pend(reqs[w], g)
           A == Pend(resps[w], g)
<1>1. g \in Graphs /\ About(m) = {g} /\ m \in Messages
      BY AboutOne DEF Taken
<1>2. /\ panic' = (panic \/ c.st \notin {"none", "received"})
      /\ cn' = [cn EXCEPT ![w][g] = [NoState EXCEPT !.st = "running", !.term = m.term,
                                                   !.outs = c.outs \cap {m.term}]]
      /\ batches' = batches /\ resps' = resps
      BY DEF CnCreate
<1>3. PICK c2 : c2 = Created(m.term, c.outs \cap {m.term})
      OBVIOUS
<1>4. OnlyCell(w, g) /\ cn'[w][g] = c2
  <2>1. cn' = [cn EXCEPT ![w][g] = c2]
        BY <1>2, <1>3 DEF Created
  <2> HIDE DEF g
  <2> QED  BY <1>1, <2>1, CnPut DEF RInv
<1>5. /\ DOMAIN c2 = {"st", "term", "actors", "issued", "outs"}
      /\ c2.st = "running" /\ c2.term = m.term /\ ~c2.actors /\ c2.issued = <<>>
      /\ c2.outs = c.outs \cap {m.term}
      BY <1>3, CnCreated
<1>6. c2.actors \in BOOLEAN
      BY <1>3, CnCreated
<1>7. m.term \in Nat
      BY <1>1 DEF Messages
<1>8. CnOK(c2)
      BY <1>5, <1>6, <1>7 DEF CnOK
<1>9. CnOK(c) /\ Cell(w, g) /\ m \in R /\ Pend(reqs'[w], g) = R \ {m}
      BY <1>1 DEF RInv, StreamsOK, CnsOK, Taken
<1>10. CellWith(w, g, c2, R \ {m}, A)
      BY <1>5, <1>9, CellCreate DEF Cell
<1>11. c.st \in {"none", "received"}
      BY <1>9 DEF Cell, CellWith, CellOK
<1>12. \A h \in Graphs : h # g => /\ Pend(reqs'[w], h) = Pend(reqs[w], h)
                                  /\ Pend(resps'[w], h) = Pend(resps[w], h)
      BY <1>1, <1>2 DEF Taken
<1>13. \A h \in Graphs : CellWith(w, h, cn'[w][h], Pend(reqs'[w], h), Pend(resps'[w], h))
      BY <1>1, <1>2, <1>3, <1>4, <1>9, <1>10, <1>12, OneCell
<1>14. \A h \in Graphs : CnOK(cn'[w][h]) /\ BatchOK(w, h)'
      BY <1>1, <1>2, <1>3, <1>4, <1>5, <1>8, <1>11, OneBatch
<1>15. \A h \in Graphs : Pend(reqs'[w], h) \subseteq Pend(reqs[w], h)
      BY <1>1, <1>9, <1>12
<1> HIDE DEF g, c, R, A
<1>16. WorkerStep(w)
      BY <1>2, <1>3, <1>13, <1>14, <1>15, SameAnswers
         DEF WorkerStep, Taken, OnlyCell, RInv, TypeInv, xVars
<1>17. panic' => panic
      BY <1>2, <1>11
<1> QED  BY <1>16, <1>17, WorkerStepKeeps

LEMMA CnInjectKeeps ==
  ASSUME RInv, NEW w \in Workers, NEW m, conn[w], Taken(w, m), m.type = "inject",
         CnInject(w, m), UNCHANGED <<metaVars, conn, xVars>>
  PROVE  /\ RInv'
         /\ panic' /\ (m.kind # "build" => cn[w][m.g].actors \/ cn[w][m.g].st = "suspended")
              => panic
<1> DEFINE g == m.g
           c == cn[w][g]
           R == Pend(reqs[w], g)
           A == Pend(resps[w], g)
           b == [epoch |-> m.epoch, stop |-> m.kind = "stop"]
<1>1. g \in Graphs /\ About(m) = {g} /\ m \in Messages
      BY AboutOne DEF Taken
<1>2. /\ panic' \in BOOLEAN
      /\ cn' = IF c.st # "running" THEN cn
               ELSE [cn EXCEPT ![w][g].actors = TRUE, ![w][g].issued = Append(@, b)]
      /\ batches' = batches /\ resps' = resps
      BY Zenon DEF CnInject
<1>3. CnOK(c) /\ Cell(w, g) /\ m \in R /\ Pend(reqs'[w], g) = R \ {m}
      BY <1>1 DEF RInv, StreamsOK, CnsOK, Taken
<1>4. R \subseteq Messages
      BY PendIn
<1>5. ~Has(R, "create")
  <2>1. \A x \in R : x = m \/ Rank(m) < Rank(x)
        BY <1>1 DEF Taken
  <2> QED  BY <1>3, <1>4, <2>1, HeadFirst
<1>6. c.st \in {"running", "suspended"} /\ c.issued = <<>>
      BY <1>3, <1>5 DEF Cell, CellWith, CellOK
<1>7. m.epoch \in Nat
      BY <1>1 DEF Messages
<1>8. b \in Issue /\ b.epoch = m.epoch /\ (b.stop <=> m.kind = "stop")
      BY <1>7 DEF Issue
<1>9. \A h \in Graphs : h # g => /\ Pend(reqs'[w], h) = Pend(reqs[w], h)
                                 /\ Pend(resps'[w], h) = Pend(resps[w], h)
      BY <1>1, <1>2 DEF Taken
<1>10. PICK b0 : b0 = b
      OBVIOUS
<1>11. /\ OnlyCell(w, g) /\ CellWith(w, g, cn'[w][g], R \ {m}, A) /\ CnOK(cn'[w][g])
       /\ cn'[w][g].st = c.st
  <2>1. CASE c.st = "suspended"
    <3>1. cn' = cn
          BY <1>2, <2>1
    <3>2. CellWith(w, g, c, R \ {m}, A)
          BY <1>3, <2>1, CellInjectIgnored DEF Cell
    <3> QED  BY <1>1, <1>3, <3>1, <3>2 DEF OnlyCell, RInv, TypeInv
  <2>2. CASE c.st = "running"
    <3>1. cn' = [cn EXCEPT ![w][g].actors = TRUE, ![w][g].issued = Append(@, b0)]
          BY <1>2, <1>10, <2>2, Zenon
    <3>2. PICK c2 : c2 = cn'[w][g]
          OBVIOUS
    <3>3. /\ OnlyCell(w, g) /\ DOMAIN c2 = DOMAIN c
          /\ c2.st = c.st /\ c2.term = c.term /\ c2.actors = TRUE
          /\ c2.issued = Append(c.issued, b0) /\ c2.outs = c.outs
      <4> HIDE DEF g, b
      <4>1. TypeInv /\ g \in Graphs /\ CnOK(cn[w][g])
            BY <1>1, <1>3 DEF RInv
      <4>2. /\ OnlyCell(w, g)
            /\ DOMAIN cn'[w][g] = DOMAIN cn[w][g]
            /\ cn'[w][g].st = cn[w][g].st /\ cn'[w][g].term = cn[w][g].term
            /\ cn'[w][g].actors = TRUE /\ cn'[w][g].issued = Append(cn[w][g].issued, b0)
            /\ cn'[w][g].outs = cn[w][g].outs
            BY <3>1, <4>1, CnInjected, Zenon
      <4> QED  BY <3>2, <4>2
    <3>4. c2.issued = <<b0>> /\ c2.issued # <<>>
          BY <1>6, <3>3
    <3>5. CnOK(c2)
          BY <1>3, <1>8, <1>10, <2>2, <3>3, <3>4 DEF CnOK
    <3>6. CellWith(w, g, c2, R \ {m}, A)
      <4> HIDE DEF b, g, c, R, A
      <4>1. b0 \in Issue /\ b0.epoch = m.epoch /\ (b0.stop <=> m.kind = "stop")
            BY <1>8, <1>10
      <4>2. CellWith(w, g, c, R, A)
            BY <1>3 DEF Cell, c, R, A
      <4> QED  BY <1>3, <2>2, <3>3, <3>4, <4>1, <4>2, CellInject
    <3> QED  BY <3>2, <3>3, <3>5, <3>6
  <2> QED  BY <1>6, <2>1, <2>2
<1>12. \A h \in Graphs : CellWith(w, h, cn'[w][h], Pend(reqs'[w], h), Pend(resps'[w], h))
      BY <1>1, <1>2, <1>3, <1>9, <1>11, OneCell
<1>13. \A h \in Graphs : CnOK(cn'[w][h]) /\ BatchOK(w, h)'
      BY <1>1, <1>2, <1>6, <1>11, OneBatch
<1>14. \A h \in Graphs : Pend(reqs'[w], h) \subseteq Pend(reqs[w], h)
      BY <1>1, <1>3, <1>9
<1>15. batches' = batches /\ resps' = resps /\ panic' \in BOOLEAN
      BY <1>2
<1>17. panic' => panic \/ (c.st = "running" /\ m.kind # "build" /\ ~c.actors)
      BY <1>6 DEF CnInject
<1> HIDE DEF g, c, R, A, b
<1>16. WorkerStep(w)
      BY <1>11, <1>12, <1>13, <1>14, <1>15, SameAnswers
         DEF WorkerStep, Taken, OnlyCell, RInv, TypeInv, xVars
<1> QED  BY <1>16, <1>17, WorkerStepKeeps DEF c, g

LEMMA CnRemoveKeeps ==
  ASSUME RInv, NEW w \in Workers, NEW m, conn[w], Taken(w, m), m.type = "remove",
         CnRemove(w, m), UNCHANGED <<metaVars, conn, xVars>>
  PROVE  RInv' /\ (panic' => panic)
<1> DEFINE g == m.g
           c == cn[w][g]
           R == Pend(reqs[w], g)
           A == Pend(resps[w], g)
<1>1. g \in Graphs /\ About(m) = {g} /\ m \in Messages
      BY AboutOne DEF Taken
<1>2. /\ panic' \in BOOLEAN
      /\ cn' = [cn EXCEPT ![w][g] = NoState]
      /\ batches' = batches /\ resps' = resps
      BY DEF CnRemove
<1>3. CnOK(c) /\ Cell(w, g) /\ m \in R /\ Pend(reqs'[w], g) = R \ {m}
      BY <1>1 DEF RInv, StreamsOK, CnsOK, Taken
<1>4. R \subseteq Messages
      BY PendIn
<1>5. R = {m} /\ ~Has(R, "create")
  <2>1. \A x \in R : x = m \/ Rank(m) < Rank(x)
        BY <1>1 DEF Taken
  <2>2. R = {m}
        BY <1>3, <1>4, <2>1, HeadFirst
  <2> QED  BY <2>2 DEF Has
<1>6. c.st = "running" /\ c.issued = <<>>
      BY <1>3, <1>5 DEF Cell, CellWith, CellOK
<1>9. \A h \in Graphs : h # g => /\ Pend(reqs'[w], h) = Pend(reqs[w], h)
                                 /\ Pend(resps'[w], h) = Pend(resps[w], h)
      BY <1>1, <1>2 DEF Taken
<1>10. OnlyCell(w, g) /\ cn'[w][g] = NoState
  <2> HIDE DEF g
  <2> QED  BY <1>1, <1>2, CnPut DEF RInv
<1>11. CellWith(w, g, NoState, R \ {m}, A)
      BY <1>3, <1>5, CellRemove, NoStateFields DEF Cell
<1>12. \A h \in Graphs : CellWith(w, h, cn'[w][h], Pend(reqs'[w], h), Pend(resps'[w], h))
      BY <1>1, <1>2, <1>3, <1>9, <1>10, <1>11, OneCell
<1>13. \A h \in Graphs : CnOK(cn'[w][h]) /\ BatchOK(w, h)'
      BY <1>1, <1>2, <1>6, <1>10, NoStateFields, OneBatch
<1>14. \A h \in Graphs : Pend(reqs'[w], h) \subseteq Pend(reqs[w], h)
      BY <1>1, <1>3, <1>9
<1>15. panic' => panic
      BY <1>6 DEF CnRemove
<1> HIDE DEF g, c, R, A
<1>16. WorkerStep(w)
      BY <1>2, <1>10, <1>12, <1>13, <1>14, SameAnswers
         DEF WorkerStep, Taken, OnlyCell, RInv, TypeInv, xVars
<1> QED  BY <1>15, <1>16, WorkerStepKeeps

\* The acknowledgements of the graphs G.
LEMMA DoneList ==
  ASSUME NEW G, G \subseteq Graphs
  PROVE  /\ Good(SetToSeq({ResetDone(g) : g \in G}))
         /\ \A g \in Graphs : Pend(SetToSeq({ResetDone(h) : h \in G}), g)
                                = IF g \in G THEN {ResetDone(g)} ELSE {}
<1> DEFINE S == {ResetDone(g) : g \in G}
<1>1. IsFiniteSet(S)
  <2>1. IsFiniteSet(G)
        BY FiniteGraphs, FS_Subset
  <2> DEFINE f == [g \in G |-> ResetDone(g)]
  <2>2. f \in Surjection(G, S)
        BY DEF Surjection
  <2> QED  BY <2>1, <2>2, FS_Surjection
<1>2. \A g \in Graphs : /\ ResetDone(g) \in Messages /\ About(ResetDone(g)) = {g}
                        /\ ResetDone(g).type = "done"
      BY DEF ResetDone, Messages, About
<1>3. S \subseteq Messages /\ \A x, y \in S : \A g \in About(x) : g \in About(y) => x = y
      BY <1>2
<1>4. Good(SetToSeq(S)) /\ \A g : Pend(SetToSeq(S), g) = {m \in S : g \in About(m)}
      BY <1>1, <1>3, ListGood
<1>5. ASSUME NEW g \in Graphs
      PROVE  {m \in S : g \in About(m)} = IF g \in G THEN {ResetDone(g)} ELSE {}
      BY <1>2
<1> QED  BY <1>4, <1>5

\* Queue q after the graphs G are acknowledged.
Acked(q, G) == q \o SetToSeq({ResetDone(g) : g \in G})

LEMMA AckGood ==
  ASSUME NEW q, Good(q), NEW G, G \subseteq Graphs,
         \A g \in G : \A x \in Pend(q, g) : x.type \in {"complete", "failure"}
  PROVE  /\ Good(Acked(q, G))
         /\ \A g \in Graphs : Pend(Acked(q, G), g)
                                = IF g \in G THEN Pend(q, g) \cup {ResetDone(g)} ELSE Pend(q, g)
<1> DEFINE r == SetToSeq({ResetDone(g) : g \in G})
<1>1. /\ Good(r)
      /\ \A g \in Graphs : Pend(r, g) = IF g \in G THEN {ResetDone(g)} ELSE {}
      BY DoneList
<1> HIDE DEF r
<1>2. ASSUME NEW g \in Graphs, NEW x \in Pend(q, g), NEW y \in Pend(r, g)
      PROVE  Rank(x) < Rank(y)
  <2>1. g \in G /\ y = ResetDone(g)
        BY <1>1
  <2>2. Rank(y) = 3
        BY <2>1 DEF Rank, ResetDone
  <2>3. x.type \in {"complete", "failure"}
        BY <2>1
  <2>4. Rank(x) \in {1, 2}
        BY <2>3 DEF Rank
  <2> QED  BY <2>2, <2>4
<1>3. Good(q \o r) /\ \A g : Pend(q \o r, g) = Pend(q, g) \cup Pend(r, g)
      BY <1>1, <1>2, ConcatGood
<1>4. Acked(q, G) = q \o r
      BY DEF Acked, r
<1> QED  BY <1>1, <1>3, <1>4

LEMMA CnResetKeeps ==
  ASSUME RInv, NEW w \in Workers, NEW m, conn[w], Taken(w, m), m.type = "reset",
         CnReset(w, m), UNCHANGED <<metaVars, conn, xVars>>
  PROVE  RInv' /\ (panic' => panic)
<1> DEFINE gone == {g \in m.gs : cn[w][g].st = "none"}
           here == m.gs \ gone
<1>1. m.gs \subseteq Graphs /\ About(m) = m.gs /\ m \in Messages
      BY MessageFacts DEF Taken, About
<1>2. /\ panic' \in BOOLEAN
      /\ cn' = [cn EXCEPT ![w] = [g \in Graphs |->
                 IF g \in here THEN [cn[w][g] EXCEPT !.st = "resetting", !.issued = <<>>,
                                                     !.outs = {}]
                 ELSE cn[w][g]]]
      /\ batches' = [batches EXCEPT ![w] = IF here = {} THEN @ ELSE @ \cup {here}]
      /\ resps' = [resps EXCEPT ![w] = Acked(@, gone)]
      BY Zenon DEF CnReset, Acked
<1>3. /\ DOMAIN cn' = Workers /\ \A v \in Workers : DOMAIN cn'[v] = Graphs
      /\ \A v \in Workers : v # w => cn'[v] = cn[v]
      /\ \A g \in Graphs : cn'[w][g] = IF g \in here
                THEN [cn[w][g] EXCEPT !.st = "resetting", !.issued = <<>>, !.outs = {}]
                ELSE cn[w][g]
  <2>1. DOMAIN cn = Workers /\ \A v \in Workers : DOMAIN cn[v] = Graphs
        BY DEF RInv, TypeInv
  <2> HIDE DEF gone, here
  <2> QED  BY <1>2, <2>1, Zenon
<1>4. ASSUME NEW g \in m.gs
      PROVE  /\ CnOK(cn[w][g]) /\ Cell(w, g)
             /\ m \in Pend(reqs[w], g) /\ Pend(reqs[w], g) = {m}
             /\ Pend(reqs'[w], g) = {}
             /\ cn[w][g].st # "resetting"
             /\ \A x \in Pend(resps[w], g) : x.type \in {"complete", "failure"}
  <2>0. g \in Graphs /\ g \in About(m)
        BY <1>1
  <2>1. /\ CnOK(cn[w][g]) /\ Cell(w, g)
        /\ m \in Pend(reqs[w], g) /\ Pend(reqs'[w], g) = Pend(reqs[w], g) \ {m}
        /\ \A x \in Pend(reqs[w], g) : x = m \/ Rank(m) < Rank(x)
        BY <2>0 DEF RInv, StreamsOK, CnsOK, Taken
  <2>2. Pend(reqs[w], g) \subseteq Messages
        BY PendIn
  <2>3. Pend(reqs[w], g) = {m}
        BY <2>1, <2>2, HeadFirst
  <2>4. cn[w][g].st # "resetting" /\ ~Has(Pend(resps[w], g), "done")
        BY <2>1 DEF Cell, CellWith, CellOK
  <2>5. \A x \in Pend(resps[w], g) : x.type \in AnswerTypes
        BY <2>1 DEF Cell, CellWith, CellOK
  <2>6. \A x \in Pend(resps[w], g) : x.type \in {"complete", "failure"}
        BY <2>4, <2>5 DEF Has, AnswerTypes
  <2> QED  BY <2>1, <2>3, <2>4, <2>6
<1>5. gone \subseteq Graphs
      BY <1>1
<1>6. /\ DOMAIN resps' = Workers /\ resps'[w] = Acked(resps[w], gone)
      /\ \A v \in Workers : v # w => resps'[v] = resps[v]
      BY <1>2 DEF RInv, TypeInv
<1>7. /\ Good(Acked(resps[w], gone))
      /\ \A g \in Graphs : Pend(Acked(resps[w], gone), g)
            = IF g \in gone THEN Pend(resps[w], g) \cup {ResetDone(g)} ELSE Pend(resps[w], g)
  <2>1. Good(resps[w])
        BY DEF RInv, StreamsOK
  <2>2. \A g \in gone : \A x \in Pend(resps[w], g) : x.type \in {"complete", "failure"}
        BY <1>4
  <2> HIDE DEF gone
  <2> QED  BY <1>5, <2>1, <2>2, AckGood
<1>8. ASSUME NEW g \in Graphs
      PROVE  CellWith(w, g, cn'[w][g], Pend(reqs'[w], g), Pend(resps'[w], g))
  <2>0. Cell(w, g) /\ CnOK(cn[w][g])
        BY DEF RInv, StreamsOK, CnsOK
  <2>1. CASE g \in gone
    <3>1. cn'[w][g] = cn[w][g] /\ cn[w][g].st = "none" /\ g \in m.gs
          BY <1>3, <2>1
    <3>2. /\ Pend(reqs'[w], g) = Pend(reqs[w], g) \ {m}
          /\ Pend(resps'[w], g) = Pend(resps[w], g) \cup {ResetDone(g)}
          BY <1>4, <1>6, <1>7, <2>1, <3>1
    <3>3. ResetDone(g).type = "done"
          BY DEF ResetDone
    <3> HIDE DEF gone, here
    <3>4. CellWith(w, g, cn[w][g], Pend(reqs[w], g) \ {m}, Pend(resps[w], g) \cup {ResetDone(g)})
          BY <1>4, <2>0, <3>1, <3>3, CellResetGone DEF Cell
    <3> QED  BY <3>1, <3>2, <3>4
  <2>2. CASE g \in here
    <3>1. PICK c2 : c2 = cn'[w][g]
          OBVIOUS
    <3>2. c2 = [cn[w][g] EXCEPT !.st = "resetting", !.issued = <<>>, !.outs = {}]
      <4> HIDE DEF here
      <4> QED  BY <1>3, <2>2, <3>1, Zenon
    <3>3. c2.st = "resetting" /\ c2.issued = <<>>
          BY <2>0, <3>2, CnResetting, Zenon
    <3>4. /\ Pend(reqs'[w], g) = Pend(reqs[w], g) \ {m}
          /\ Pend(resps'[w], g) = Pend(resps[w], g)
          BY <1>4, <1>6, <1>7, <2>2
    <3>5. g \in m.gs /\ cn[w][g].st # "none"
          BY <2>2
    <3> HIDE DEF gone, here
    <3>6. CellWith(w, g, c2, Pend(reqs[w], g) \ {m}, Pend(resps[w], g))
          BY <1>4, <2>0, <3>3, <3>5, CellResetHere DEF Cell
    <3> QED  BY <3>1, <3>4, <3>6
  <2>3. CASE g \notin m.gs
    <3>1. g \notin gone /\ g \notin here
          BY <2>3
    <3>2. /\ Pend(reqs'[w], g) = Pend(reqs[w], g) /\ cn'[w][g] = cn[w][g]
          /\ Pend(resps'[w], g) = Pend(resps[w], g)
      <4> HIDE DEF gone, here
      <4>1. cn'[w][g] = cn[w][g]
            BY <1>3, <3>1, Zenon
      <4>2. Pend(resps'[w], g) = Pend(resps[w], g)
            BY <1>6, <1>7, <3>1
      <4> QED  BY <1>1, <2>3, <4>1, <4>2 DEF Taken
    <3> QED  BY <2>0, <3>2 DEF Cell
  <2> QED  BY <2>1, <2>2, <2>3
<1>9. ASSUME NEW g \in Graphs PROVE CnOK(cn'[w][g]) /\ BatchOK(w, g)'
  <2>0. CnOK(cn[w][g]) /\ BatchOK(w, g)
        BY DEF RInv, CnsOK
  <2>1. batches'[w] = IF here = {} THEN batches[w] ELSE batches[w] \cup {here}
        BY <1>2 DEF RInv, TypeInv
  <2>2. CASE g \in here
    <3>1. PICK c2 : c2 = cn'[w][g]
          OBVIOUS
    <3>2. c2 = [cn[w][g] EXCEPT !.st = "resetting", !.issued = <<>>, !.outs = {}]
      <4> HIDE DEF here
      <4> QED  BY <1>3, <2>2, <3>1, Zenon
    <3>3. /\ DOMAIN c2 = DOMAIN cn[w][g]
          /\ c2.st = "resetting" /\ c2.term = cn[w][g].term /\ c2.actors = cn[w][g].actors
          /\ c2.issued = <<>> /\ c2.outs = {}
      <4>1. PICK c : c = cn[w][g]
            OBVIOUS
      <4>2. CnOK(c) /\ c2 = [c EXCEPT !.st = "resetting", !.issued = <<>>, !.outs = {}]
            BY <2>0, <3>2, <4>1, Zenon
      <4>3. /\ DOMAIN c2 = DOMAIN c
            /\ c2.st = "resetting" /\ c2.term = c.term /\ c2.actors = c.actors
            /\ c2.issued = <<>> /\ c2.outs = {}
            BY <4>2, CnResetting, Zenon
      <4> QED  BY <4>1, <4>3, Zenon
    <3>4. CnOK(c2)
          BY <2>0, <3>3 DEF CnOK
    <3>5. cn[w][g].st # "resetting"
          BY <1>4, <2>2
    <3>6. {X \in batches'[w] : g \in X} = {here} /\ here \in batches'[w]
          BY <2>0, <2>1, <2>2, <3>5 DEF BatchOK
    <3> QED  BY <3>1, <3>3, <3>4, <3>6 DEF BatchOK
  <2>3. CASE g \notin here
    <3>1. cn'[w][g] = cn[w][g]
      <4> HIDE DEF here
      <4> QED  BY <1>3, <2>3, Zenon
    <3>2. {X \in batches'[w] : g \in X} = {X \in batches[w] : g \in X}
          BY <2>1, <2>3
    <3>3. batches[w] \subseteq batches'[w]
          BY <2>1
    <3> HIDE DEF here
    <3> QED  BY <2>0, <3>1, <3>2, <3>3 DEF BatchOK
  <2> QED  BY <2>2, <2>3
<1>10. /\ batches' \in [Workers -> SUBSET SUBSET Graphs]
       /\ \A v \in Workers : v # w => batches'[v] = batches[v]
  <2>1. here \in SUBSET Graphs
        BY <1>1
  <2> HIDE DEF here
  <2> QED  BY <1>2, <2>1 DEF RInv, TypeInv
<1>11. \A g \in Graphs : Pend(reqs'[w], g) \subseteq Pend(reqs[w], g)
      BY <1>1, <1>4 DEF Taken
<1>12. Good(resps'[w]) /\ panic' \in BOOLEAN
      BY <1>2, <1>6, <1>7
<1>14. panic' => panic
      BY <1>4 DEF CnReset
<1> HIDE DEF gone, here
<1>13. WorkerStep(w)
      BY <1>3, <1>6, <1>8, <1>9, <1>10, <1>11, <1>12
         DEF WorkerStep, Taken, RInv, TypeInv, xVars
<1> QED  BY <1>13, <1>14, WorkerStepKeeps

\* CnHandle: a compute node takes a request.
LEMMA CnHandleKeeps ==
  ASSUME RInv, NEW w \in Workers, CnHandle(w)
  PROVE  RInv' /\ (panic' /\ InjectedActorsExist => panic)
<1>1. PICK m : m = Head(reqs[w])
      OBVIOUS
<1>2. /\ conn[w] /\ reqs[w] # <<>> /\ reqs' = [reqs EXCEPT ![w] = Tail(@)]
      /\ UNCHANGED <<metaVars, conn, xVars>>
      BY DEF CnHandle
<1>3. Taken(w, m)
      BY <1>1, <1>2, TakeRequest
<1>4. m.type \in {"create", "inject", "remove", "reset"}
      BY <1>3 DEF Taken, RequestTypes
<1>5. /\ m.type = "create" => CnCreate(w, m)
      /\ m.type = "inject" => CnInject(w, m)
      /\ m.type = "remove" => CnRemove(w, m)
      /\ m.type = "reset" => CnReset(w, m)
  <2>1. CASE m.type = "create"  BY <1>1, <2>1 DEF CnHandle
  <2>2. CASE m.type = "inject"  BY <1>1, <2>2 DEF CnHandle
  <2>3. CASE m.type = "remove"  BY <1>1, <2>3 DEF CnHandle
  <2>4. CASE m.type = "reset"   BY <1>1, <2>4 DEF CnHandle
  <2> QED  BY <1>4, <2>1, <2>2, <2>3, <2>4
<1>6. CASE m.type = "create"
      BY <1>2, <1>3, <1>5, <1>6, CnCreateKeeps
<1>7. CASE m.type = "inject"
  <2>1. InjectedActorsExist /\ m.kind # "build" => cn[w][m.g].actors \/ cn[w][m.g].st = "suspended"
        BY <1>1, <1>2, <1>7 DEF InjectedActorsExist
  <2>2. /\ RInv'
        /\ panic' /\ (m.kind # "build" => cn[w][m.g].actors \/ cn[w][m.g].st = "suspended")
             => panic
        BY <1>2, <1>3, <1>5, <1>7, CnInjectKeeps
  <2> QED  BY <2>1, <2>2
<1>8. CASE m.type = "remove"
      BY <1>2, <1>3, <1>5, <1>8, CnRemoveKeeps
<1>9. CASE m.type = "reset"
      BY <1>2, <1>3, <1>5, <1>9, CnResetKeeps
<1> QED  BY <1>4, <1>6, <1>7, <1>8, <1>9

\* Compute node w answers m: whether it is connected or not.
Answered(w, m) ==
  /\ DOMAIN resps' = Workers /\ \A v \in Workers : v # w => resps'[v] = resps[v]
  /\ Good(resps'[w])
  /\ conn[w] => Pend(resps'[w], m.g) = Pend(resps[w], m.g) \cup {m}
  /\ conn[w] => \A h \in Graphs : h # m.g => Pend(resps'[w], h) = Pend(resps[w], h)
  /\ ~conn[w] => resps'[w] = <<>>

LEMMA AnswerGood ==
  ASSUME RInv, NEW w \in Workers, NEW m \in Messages, m.type # "reset", Answer(w, m),
         conn[w] => \A x \in Pend(resps[w], m.g) : Rank(x) < Rank(m)
  PROVE  Answered(w, m)
<1>1. PICK q : q = resps[w]
      OBVIOUS
<1>2. /\ DOMAIN resps' = Workers /\ resps'[w] = IF conn[w] THEN Append(q, m) ELSE q
      /\ \A v \in Workers : v # w => resps'[v] = resps[v]
      BY <1>1 DEF RInv, TypeInv, Answer
<1>3. Good(q) /\ (~conn[w] => q = <<>>)
      BY <1>1 DEF RInv, StreamsOK
<1>4. About(m) = {m.g}
      BY AboutOne
<1>5. CASE conn[w]
  <2>1. \A g \in About(m) : \A x \in Pend(q, g) : Rank(x) < Rank(m)
        BY <1>1, <1>4, <1>5
  <2>2. /\ Good(Append(q, m))
        /\ \A g \in About(m) : Pend(Append(q, m), g) = Pend(q, g) \cup {m}
        /\ \A g : g \notin About(m) => Pend(Append(q, m), g) = Pend(q, g)
        BY <1>3, <2>1, AppendGood
  <2> QED  BY <1>1, <1>2, <1>4, <1>5, <2>2 DEF Answered
<1>6. CASE ~conn[w]
      BY <1>1, <1>2, <1>3, <1>6 DEF Answered
<1> QED  BY <1>5, <1>6

\* Compute node w changes its graph g and answers m.
LEMMA AnswerStep ==
  ASSUME RInv, NEW w \in Workers, NEW g \in Graphs, NEW m, m.g = g, Answered(w, m),
         UNCHANGED <<metaVars, conn, xVars, batches, reqs, panic>>, OnlyCell(w, g),
         CnOK(cn'[w][g]), cn[w][g].st = "resetting" <=> cn'[w][g].st = "resetting",
         conn[w] => CellWith(w, g, cn'[w][g], Pend(reqs[w], g), Pend(resps[w], g) \cup {m})
  PROVE  RInv' /\ (panic' => panic)
<1>1. batches' = batches /\ reqs' = reqs /\ panic' = panic /\ xreq' = xreq /\ conn' = conn
      BY DEF xVars
<1>2. conn[w] => \A h \in Graphs :
                   CellWith(w, h, cn'[w][h], Pend(reqs'[w], h), Pend(resps'[w], h))
  <2> SUFFICES ASSUME conn[w]
               PROVE  \A h \in Graphs :
                        CellWith(w, h, cn'[w][h], Pend(reqs'[w], h), Pend(resps'[w], h))
        OBVIOUS
  <2>1. CellWith(w, g, cn'[w][g], Pend(reqs'[w], g), Pend(resps'[w], g))
        BY <1>1 DEF Answered
  <2>2. \A h \in Graphs : h # g => /\ Pend(reqs'[w], h) = Pend(reqs[w], h)
                                   /\ Pend(resps'[w], h) = Pend(resps[w], h)
        BY <1>1 DEF Answered
  <2> QED  BY <2>1, <2>2, OneCell
<1>3. \A h \in Graphs : CnOK(cn'[w][h]) /\ BatchOK(w, h)'
      BY <1>1, OneBatch
<1>4. Good(reqs[w]) /\ (~conn[w] => reqs[w] = <<>>)
      BY DEF RInv, StreamsOK
<1>5. WorkerStep(w)
      BY <1>1, <1>2, <1>3, <1>4 DEF WorkerStep, Answered, OnlyCell, RInv, TypeInv
<1> QED  BY <1>1, <1>5, WorkerStepKeeps

\* CnComplete: the barrier of a graph is complete on a compute node.
LEMMA CnCompleteKeeps ==
  ASSUME RInv, NEW w \in Workers, NEW g \in Graphs, CnComplete(w, g)
  PROVE  RInv' /\ (panic' => panic)
<1>1. PICK c : c = cn[w][g]
      OBVIOUS
<1>2. CnOK(c) /\ c.st = "running" /\ c.issued # <<>>
      BY <1>1 DEF RInv, CnsOK, CnComplete
<1>3. PICK b \in Issue : c.issued = <<b>>
      BY <1>2 DEF CnOK
<1>4. Head(c.issued) = b /\ Tail(c.issued) = <<>>
      BY <1>3
<1>5. PICK x : x = ~b.stop
      OBVIOUS
<1>6. PICK m : m = Complete(g, c.term, b.epoch)
      OBVIOUS
<1>7. /\ cn' = [cn EXCEPT ![w][g].issued = Tail(@), ![w][g].actors = x]
      /\ Answer(w, m)
      /\ UNCHANGED <<metaVars, conn, xVars, batches, reqs, panic>>
      BY <1>1, <1>4, <1>5, <1>6 DEF CnComplete
<1>8. c.term \in Nat /\ b.epoch \in Nat /\ x \in BOOLEAN
      BY <1>2, <1>3, <1>5 DEF CnOK, Issue
<1>9. m \in Messages /\ m.type = "complete" /\ m.g = g /\ m.term = c.term /\ m.epoch = b.epoch
      BY <1>6, <1>8 DEF Complete, Messages
<1>10. PICK c2 : c2 = cn'[w][g]
      OBVIOUS
<1>11. /\ OnlyCell(w, g) /\ DOMAIN c2 = DOMAIN c
       /\ c2.st = c.st /\ c2.term = c.term /\ c2.actors = x /\ c2.issued = Tail(c.issued)
       /\ c2.outs = c.outs
  <2>1. TypeInv /\ CnOK(cn[w][g])
        BY <1>1, <1>2 DEF RInv
  <2>2. /\ OnlyCell(w, g)
        /\ DOMAIN cn'[w][g] = DOMAIN cn[w][g]
        /\ cn'[w][g].st = cn[w][g].st /\ cn'[w][g].term = cn[w][g].term
        /\ cn'[w][g].actors = x /\ cn'[w][g].issued = Tail(cn[w][g].issued)
        /\ cn'[w][g].outs = cn[w][g].outs
        BY <1>7, <2>1, CnCompleted, Zenon
  <2> QED  BY <1>1, <1>10, <2>2
<1>12. CnOK(c2)
      BY <1>2, <1>4, <1>8, <1>11 DEF CnOK
<1>13. ASSUME conn[w]
       PROVE  /\ CellWith(w, g, c2, Pend(reqs[w], g), Pend(resps[w], g) \cup {m})
              /\ \A y \in Pend(resps[w], m.g) : Rank(y) < Rank(m)
  <2>1. CellWith(w, g, c, Pend(reqs[w], g), Pend(resps[w], g))
        BY <1>1, <1>13 DEF RInv, StreamsOK, Cell
  <2>2. c2.actors <=> ~b.stop
        BY <1>5, <1>11
  <2>3. CellWith(w, g, c2, Pend(reqs[w], g), Pend(resps[w], g) \cup {m})
        BY <1>2, <1>3, <1>4, <1>9, <1>11, <2>1, <2>2, CellComplete
  <2>4. Pend(resps[w], g) = {}
        BY <1>2, <1>3, <2>1 DEF CellWith, CellOK, AnswerTypes
  <2> QED  BY <1>9, <2>3, <2>4
<1>14. Answered(w, m)
      BY <1>7, <1>9, <1>13, AnswerGood
<1> QED  BY <1>1, <1>2, <1>7, <1>9, <1>10, <1>11, <1>12, <1>13, <1>14, AnswerStep

\* CnFail: an actor of a graph fails on a compute node.
LEMMA CnFailKeeps ==
  ASSUME RInv, NEW w \in Workers, NEW g \in Graphs, CnFail(w, g)
  PROVE  RInv' /\ (panic' => panic)
<1>1. PICK c : c = cn[w][g]
      OBVIOUS
<1>2. CnOK(c) /\ c.st = "running" /\ c.actors
      BY <1>1 DEF RInv, CnsOK, CnFail
<1>6. PICK m : m = Failure(g, c.term)
      OBVIOUS
<1>7. /\ cn' = [cn EXCEPT ![w][g].st = "suspended", ![w][g].issued = <<>>]
      /\ Answer(w, m)
      /\ UNCHANGED <<metaVars, conn, xVars, batches, reqs, panic>>
      BY <1>1, <1>6 DEF CnFail
<1>9. m \in Messages /\ m.type = "failure" /\ m.g = g /\ m.term = c.term
  <2>1. c.term \in Nat
        BY <1>2 DEF CnOK
  <2> QED  BY <1>6, <2>1 DEF Failure, Messages
<1>10. PICK c2 : c2 = cn'[w][g]
      OBVIOUS
<1>11. /\ OnlyCell(w, g) /\ DOMAIN c2 = DOMAIN c
       /\ c2.st = "suspended" /\ c2.term = c.term /\ c2.actors = c.actors /\ c2.issued = <<>>
       /\ c2.outs = c.outs
  <2>1. TypeInv /\ CnOK(cn[w][g])
        BY <1>1, <1>2 DEF RInv
  <2>2. /\ OnlyCell(w, g)
        /\ DOMAIN cn'[w][g] = DOMAIN cn[w][g]
        /\ cn'[w][g].st = "suspended" /\ cn'[w][g].term = cn[w][g].term
        /\ cn'[w][g].actors = cn[w][g].actors /\ cn'[w][g].issued = <<>>
        /\ cn'[w][g].outs = cn[w][g].outs
        BY <1>7, <2>1, CnSuspended, Zenon
  <2> QED  BY <1>1, <1>10, <2>2
<1>12. CnOK(c2)
      BY <1>2, <1>11 DEF CnOK
<1>13. ASSUME conn[w]
       PROVE  /\ CellWith(w, g, c2, Pend(reqs[w], g), Pend(resps[w], g) \cup {m})
              /\ \A y \in Pend(resps[w], m.g) : Rank(y) < Rank(m)
  <2>1. CellWith(w, g, c, Pend(reqs[w], g), Pend(resps[w], g))
        BY <1>1, <1>13 DEF RInv, StreamsOK, Cell
  <2>2. c2.actors
        BY <1>2, <1>11
  <2>3. CellWith(w, g, c2, Pend(reqs[w], g), Pend(resps[w], g) \cup {m})
        BY <1>2, <1>9, <1>11, <2>1, <2>2, CellFail
  <2>4. \A y \in Pend(resps[w], g) : y.type = "complete"
        BY <1>2, <2>1 DEF CellWith, CellOK, AnswerTypes
  <2>5. Rank(m) = 2 /\ \A y \in Pend(resps[w], g) : Rank(y) = 1
        BY <1>9, <2>4 DEF Rank
  <2> QED  BY <1>9, <2>3, <2>5
<1>14. Answered(w, m)
      BY <1>7, <1>9, <1>13, AnswerGood
<1> QED  BY <1>1, <1>2, <1>7, <1>9, <1>10, <1>11, <1>12, <1>13, <1>14, AnswerStep

\* CnResetDone: the graphs of a batch are gone from a compute node.
LEMMA CnResetDoneKeeps ==
  ASSUME RInv, NEW w \in Workers, CnResetDone(w)
  PROVE  RInv' /\ (panic' => panic)
<1>1. PICK B \in batches[w] :
        /\ batches' = [batches EXCEPT ![w] = @ \ {B}]
        /\ cn' = [cn EXCEPT ![w] = [g \in Graphs |-> IF g \in B THEN NoState ELSE @[g]]]
        /\ resps' = [resps EXCEPT ![w] = IF conn[w] THEN Acked(@, B) ELSE @]
      BY DEF CnResetDone, Acked
<1>2. /\ reqs' = reqs /\ panic' = panic /\ UNCHANGED <<metaVars, conn, xVars>>
      BY DEF CnResetDone
<1>3. B \subseteq Graphs
      BY DEF RInv, TypeInv
<1>4. ASSUME NEW g \in Graphs
      PROVE  g \in B => cn[w][g].st = "resetting" /\ {X \in batches[w] : g \in X} = {B}
      BY DEF RInv, CnsOK, BatchOK
<1>5. /\ DOMAIN cn' = Workers /\ \A v \in Workers : DOMAIN cn'[v] = Graphs
      /\ \A v \in Workers : v # w => cn'[v] = cn[v]
      /\ \A g \in Graphs : cn'[w][g] = IF g \in B THEN NoState ELSE cn[w][g]
      BY <1>1 DEF RInv, TypeInv
<1>6. /\ DOMAIN resps' = Workers
      /\ resps'[w] = IF conn[w] THEN Acked(resps[w], B) ELSE resps[w]
      /\ \A v \in Workers : v # w => resps'[v] = resps[v]
      BY <1>1 DEF RInv, TypeInv
<1>7. Good(resps[w]) /\ Good(reqs[w]) /\ (~conn[w] => reqs[w] = <<>> /\ resps[w] = <<>>)
      BY DEF RInv, StreamsOK
<1>8. ASSUME conn[w]
      PROVE  /\ Good(resps'[w])
             /\ \A g \in Graphs : Pend(resps'[w], g)
                  = IF g \in B THEN Pend(resps[w], g) \cup {ResetDone(g)} ELSE Pend(resps[w], g)
  <2>1. ASSUME NEW g \in B, NEW x \in Pend(resps[w], g)
        PROVE  x.type \in {"complete", "failure"}
    <3>1. Cell(w, g) /\ cn[w][g].st = "resetting"
          BY <1>3, <1>4, <1>8, <2>1 DEF RInv, StreamsOK
    <3> QED  BY <2>1, <3>1 DEF Cell, CellWith, CellOK, AnswerTypes, Has
  <2>2. /\ Good(Acked(resps[w], B))
        /\ \A g \in Graphs : Pend(Acked(resps[w], B), g)
             = IF g \in B THEN Pend(resps[w], g) \cup {ResetDone(g)} ELSE Pend(resps[w], g)
        BY <1>3, <1>7, <2>1, AckGood
  <2> QED  BY <1>6, <1>8, <2>2
<1>9. ASSUME conn[w], NEW g \in Graphs
      PROVE  CellWith(w, g, cn'[w][g], Pend(reqs'[w], g), Pend(resps'[w], g))
  <2>1. CellWith(w, g, cn[w][g], Pend(reqs[w], g), Pend(resps[w], g)) /\ CnOK(cn[w][g])
        BY <1>9 DEF RInv, StreamsOK, Cell, CnsOK
  <2>2. CASE g \in B
    <3>1. /\ cn'[w][g] = NoState /\ cn[w][g].st = "resetting"
          /\ Pend(resps'[w], g) = Pend(resps[w], g) \cup {ResetDone(g)}
          BY <1>4, <1>5, <1>8, <1>9, <2>2
    <3>2. ResetDone(g).type = "done"
          BY DEF ResetDone
    <3>3. CellWith(w, g, NoState, Pend(reqs[w], g), Pend(resps[w], g) \cup {ResetDone(g)})
          BY <2>1, <3>1, <3>2, NoStateFields, CellResetDone
    <3> QED  BY <1>2, <3>1, <3>3
  <2>3. CASE g \notin B
        BY <1>2, <1>5, <1>8, <1>9, <2>1, <2>3
  <2> QED  BY <2>2, <2>3
<1>10. batches'[w] = batches[w] \ {B}
      BY <1>1 DEF RInv, TypeInv
<1>11. ASSUME NEW g \in Graphs PROVE CnOK(cn'[w][g]) /\ BatchOK(w, g)'
  <2>0. CnOK(cn[w][g]) /\ BatchOK(w, g)
        BY DEF RInv, CnsOK
  <2>1. CASE g \in B
    <3>1. cn'[w][g] = NoState /\ {X \in batches[w] : g \in X} = {B}
          BY <1>4, <1>5, <2>1
    <3>2. {X \in batches'[w] : g \in X} = {}
          BY <1>10, <3>1
    <3> QED  BY <3>1, <3>2, NoStateFields DEF BatchOK
  <2>2. CASE g \notin B
    <3>1. cn'[w][g] = cn[w][g] /\ {X \in batches'[w] : g \in X} = {X \in batches[w] : g \in X}
          BY <1>5, <1>10, <2>2
    <3>2. ASSUME NEW X \in batches[w], {Y \in batches[w] : g \in Y} = {X}
          PROVE  X \in batches'[w]
          BY <1>10, <2>2, <3>2
    <3> QED  BY <2>0, <3>1, <3>2 DEF BatchOK
  <2> QED  BY <2>1, <2>2
<1>12. /\ batches' \in [Workers -> SUBSET SUBSET Graphs]
       /\ \A v \in Workers : v # w => batches'[v] = batches[v]
      BY <1>1 DEF RInv, TypeInv
<1>13. Good(resps'[w])
      BY <1>6, <1>7, <1>8
<1>14. WorkerStep(w)
      BY <1>2, <1>5, <1>6, <1>7, <1>9, <1>11, <1>12, <1>13
         DEF WorkerStep, RInv, TypeInv, xVars
<1> QED  BY <1>2, <1>14, WorkerStepKeeps

\* XSend: an actor asks for the output of another.
LEMMA XSendKeeps ==
  ASSUME RInv, NEW w \in Workers, NEW v \in Workers, NEW g \in Graphs, XSend(w, v, g)
  PROVE  RInv' /\ (panic' => panic)
<1>1. cn[w][g].term \in Nat
      BY DEF RInv, CnsOK, CnOK
<1>2. /\ xreq' = xreq \cup {[to |-> v, g |-> g, term |-> cn[w][g].term]}
      /\ UNCHANGED <<metaVars, conn>> /\ cn' = cn /\ batches' = batches /\ reqs' = reqs
      /\ resps' = resps /\ panic' = panic
      BY DEF XSend, cnVars
<1>3. xreq' \subseteq [to : Workers, g : Graphs, term : Nat]
      BY <1>1, <1>2 DEF RInv, TypeInv
<1>4. /\ Good(reqs'[w]) /\ Good(resps'[w])
      /\ ~conn[w] => reqs'[w] = <<>> /\ resps'[w] = <<>>
      /\ conn[w] => \A h \in Graphs :
                      CellWith(w, h, cn'[w][h], Pend(reqs'[w], h), Pend(resps'[w], h))
      BY <1>2 DEF RInv, StreamsOK, Cell
<1>5. \A h \in Graphs : CnOK(cn'[w][h]) /\ BatchOK(w, h)'
      BY <1>2 DEF RInv, CnsOK, BatchOK
<1>6. WorkerStep(w)
      BY <1>2, <1>3, <1>4, <1>5 DEF WorkerStep, RInv, TypeInv
<1> QED  BY <1>2, <1>6, WorkerStepKeeps

\* XDeliver: a compute node takes an exchange request, or refuses it.
LEMMA XDeliverKeeps ==
  ASSUME RInv, XDeliver
  PROVE  RInv' /\ (panic' => panic)
<1>1. PICK x \in xreq :
        /\ xreq' = xreq \ {x}
        /\ cn' = IF XAccepts(cn[x.to][x.g], x.term)
                 THEN [cn EXCEPT ![x.to][x.g].outs = @ \cup {x.term},
                                 ![x.to][x.g].st = IF @ = "none" THEN "received" ELSE @]
                 ELSE cn
        /\ UNCHANGED <<metaVars, batches, xsent, conn, reqs, resps, faults, panic>>
      BY Zenon DEF XDeliver
<1>2. x.to \in Workers /\ x.g \in Graphs /\ x.term \in Nat
      BY DEF RInv, TypeInv
<1>3. PICK w \in Workers, g \in Graphs, t \in Nat : w = x.to /\ g = x.g /\ t = x.term
      BY <1>2
<1>4. /\ UNCHANGED <<metaVars, conn>> /\ batches' = batches /\ reqs' = reqs
      /\ resps' = resps /\ panic' = panic
      /\ xreq' \subseteq [to : Workers, g : Graphs, term : Nat]
      BY <1>1 DEF RInv, TypeInv
<1>5. PICK c, c2 : c = cn[w][g] /\ c2 = cn'[w][g]
      OBVIOUS
<1>6. CnOK(c) /\ TypeInv
      BY <1>5 DEF RInv, CnsOK
<1>7. /\ OnlyCell(w, g) /\ CnOK(c2)
      /\ c2.st = c.st \/ (c.st = "none" /\ c2.st = "received")
      /\ c2.term = c.term /\ c2.actors = c.actors /\ c2.issued = c.issued
  <2>1. CASE XAccepts(c, t)
    <3>1. cn' = [cn EXCEPT ![w][g].outs = @ \cup {t},
                           ![w][g].st = IF @ = "none" THEN "received" ELSE @]
          BY <1>1, <1>3, <1>5, <2>1, Zenon
    <3>2. /\ OnlyCell(w, g)
          /\ DOMAIN cn'[w][g] = DOMAIN cn[w][g]
          /\ cn'[w][g].st = (IF cn[w][g].st = "none" THEN "received" ELSE cn[w][g].st)
          /\ cn'[w][g].term = cn[w][g].term
          /\ cn'[w][g].actors = cn[w][g].actors /\ cn'[w][g].issued = cn[w][g].issued
          /\ cn'[w][g].outs = cn[w][g].outs \cup {t}
      <4>1. CnOK(cn[w][g])
            BY <1>5, <1>6
      <4> QED  BY <1>6, <3>1, <4>1, CnReceived, Zenon
    <3>3. /\ OnlyCell(w, g) /\ DOMAIN c2 = DOMAIN c
          /\ c2.st = (IF c.st = "none" THEN "received" ELSE c.st)
          /\ c2.term = c.term /\ c2.actors = c.actors /\ c2.issued = c.issued
          /\ c2.outs = c.outs \cup {t}
          BY <1>5, <3>2, Zenon
    <3>4. CnOK(c2)
          BY <1>6, <2>1, <3>3 DEF CnOK, XAccepts
    <3> QED  BY <3>3, <3>4
  <2>2. CASE ~XAccepts(c, t)
    <3>1. cn' = cn
          BY <1>1, <1>3, <1>5, <2>2, Zenon
    <3> QED  BY <1>5, <1>6, <3>1 DEF OnlyCell, TypeInv
  <2> QED  BY <2>1, <2>2
<1>8. ASSUME conn[w]
      PROVE  \A h \in Graphs :
               CellWith(w, h, cn'[w][h], Pend(reqs'[w], h), Pend(resps'[w], h))
  <2>1. CellWith(w, g, c, Pend(reqs[w], g), Pend(resps[w], g))
        BY <1>5, <1>8 DEF RInv, StreamsOK, Cell
  <2>2. CellWith(w, g, c2, Pend(reqs[w], g), Pend(resps[w], g))
        BY <1>6, <1>7, <2>1, CellDeliver
  <2> QED  BY <1>4, <1>5, <1>7, <1>8, <2>2, OneCell
<1>9. \A h \in Graphs : CnOK(cn'[w][h]) /\ BatchOK(w, h)'
      BY <1>4, <1>5, <1>7, OneBatch
<1>10. /\ Good(reqs'[w]) /\ Good(resps'[w])
       /\ ~conn[w] => reqs'[w] = <<>> /\ resps'[w] = <<>>
      BY <1>4 DEF RInv, StreamsOK
<1>11. WorkerStep(w)
      BY <1>4, <1>7, <1>8, <1>9, <1>10 DEF WorkerStep, OnlyCell, RInv, TypeInv
<1> QED  BY <1>4, <1>11, WorkerStepKeeps

------------------------------------------------------------------------------
(* Steps of the meta node. *)

\* What the meta node has of graph g on worker w after a step.
CellAfter(w, g) ==
  CellOK(w, graph'[g], nodes'[g], JobKind(g)', cn[w][g], Pend(reqs'[w], g), Pend(resps'[w], g))

\* A step of the meta node that concerns database d and keeps the invariant of it.
DbStep(d) ==
  /\ conn' = conn /\ cn' = cn /\ batches' = batches /\ xreq' = xreq
  /\ phase' = phase \/ (phase = "injecting" /\ phase' = "global")
  /\ stage' \in [Databases -> Stages] /\ waits' \in [Databases -> SUBSET Graphs]
  /\ job' \in [Databases -> JobStates] /\ graph' \in [Graphs -> GraphState]
  /\ nodes' \in [Graphs -> SUBSET Workers] /\ lastTerm' \in Nat /\ panic' \in BOOLEAN
  /\ DOMAIN reqs' = Workers /\ DOMAIN resps' = Workers
  /\ \A e \in Databases :
       e # d => stage'[e] = stage[e] /\ waits'[e] = waits[e] /\ job'[e] = job[e]
  /\ \A g \in Graphs : g[1] # d => graph'[g] = graph[g] /\ nodes'[g] = nodes[g]
  /\ \A w \in Workers : Good(reqs'[w]) /\ Good(resps'[w])
  /\ \A w \in Workers : ~conn[w] => reqs'[w] = <<>> /\ resps'[w] = <<>>
  /\ \A w \in Workers, g \in Graphs :
       g[1] # d => /\ Pend(reqs'[w], g) = Pend(reqs[w], g)
                   /\ Pend(resps'[w], g) = Pend(resps[w], g)
  /\ \A w \in Workers, g \in Graphs : conn[w] /\ g[1] = d => CellAfter(w, g)
  /\ \A w \in Workers, g \in Graphs :
       g[1] = d /\ Has(Pend(reqs'[w], g), "remove") => g = JobOf(d) /\ job'[d] = "gone"
  /\ \A g \in Graphs : g[1] = d => GraphOK(g)'
  /\ MetaOK(d)'

\* A database that nothing of changes.
LEMMA SameDatabase ==
  ASSUME NEW d \in Databases, MetaOK(d), stage'[d] = stage[d], waits'[d] = waits[d],
         job'[d] = job[d], \A g \in GraphsOf(d) : graph'[g] = graph[g],
         \/ phase' = phase
         \/ phase = "injecting" /\ phase' = "global"
         \/ phase = "global" /\ phase' = "running"
  PROVE  MetaOK(d)'
<1>1. Main(d) \in GraphsOf(d) /\ (d \in JobDatabases => JobOf(d) \in GraphsOf(d))
      BY DatabaseFacts
<1>2. /\ graph'[Main(d)] = graph[Main(d)]
      /\ d \in JobDatabases => graph'[JobOf(d)] = graph[JobOf(d)]
      BY <1>1
<1>3. \A x : {g \in GraphsOf(d) : graph'[g].st = x} = {g \in GraphsOf(d) : graph[g].st = x}
      OBVIOUS
<1>4. waits'[d] = IF stage'[d] = "resetting" THEN {g \in GraphsOf(d) : graph'[g].st = "resetting"}
                  ELSE IF stage'[d] = "initializing"
                  THEN {g \in GraphsOf(d) : graph'[g].st = "initializing"} ELSE {}
      BY <1>3 DEF MetaOK
<1>5. stage'[d] = "running" =>
         /\ graph'[Main(d)].st = "running"
         /\ d \in JobDatabases =>
              CASE job'[d] \in {"running", "finishing"} -> graph'[JobOf(d)].st = "running"
                [] job'[d] = "resetting" -> graph'[JobOf(d)].st = "resetting"
                [] OTHER -> graph'[JobOf(d)].st = "none"
      BY <1>2 DEF MetaOK
<1> QED  BY <1>2, <1>4, <1>5 DEF MetaOK

LEMMA DbStepKeeps ==
  ASSUME RInv, NEW d \in Databases, DbStep(d)
  PROVE  RInv'
<1>1. TypeInv'
      BY DEF RInv, TypeInv, DbStep
<1>2. ASSUME NEW g \in Graphs, g[1] # d
      PROVE  /\ graph'[g] = graph[g] /\ nodes'[g] = nodes[g] /\ job'[g[1]] = job[g[1]]
             /\ JobKind(g)' = JobKind(g)
      BY <1>2, GraphFacts DEF DbStep, JobKind
<1>3. StreamsOK'
  <2> SUFFICES ASSUME NEW w \in Workers
               PROVE  /\ Good(reqs'[w]) /\ Good(resps'[w])
                      /\ conn'[w] => \A g \in Graphs : Cell(w, g)'
                      /\ ~conn'[w] => reqs'[w] = <<>> /\ resps'[w] = <<>>
        BY DEF StreamsOK
  <2>1. ASSUME conn[w], NEW g \in Graphs PROVE Cell(w, g)'
    <3>1. cn'[w][g] = cn[w][g]
          BY DEF DbStep
    <3>2. CASE g[1] = d
          BY <2>1, <3>1, <3>2 DEF DbStep, CellAfter, Cell, CellWith
    <3>3. CASE g[1] # d
      <4>1. Cell(w, g)
            BY <2>1 DEF RInv, StreamsOK
      <4>2. Pend(reqs'[w], g) = Pend(reqs[w], g) /\ Pend(resps'[w], g) = Pend(resps[w], g)
            BY <3>3 DEF DbStep
      <4> QED  BY <1>2, <3>1, <3>3, <4>1, <4>2 DEF Cell, CellWith
    <3> QED  BY <3>2, <3>3
  <2> QED  BY <2>1 DEF DbStep
<1>4. RemovedForGood'
  <2> SUFFICES ASSUME NEW w \in Workers, NEW g \in Graphs, Has(Pend(reqs'[w], g), "remove")
               PROVE  g = JobOf(g[1]) /\ job'[g[1]] = "gone"
        BY DEF RemovedForGood
  <2>1. CASE g[1] = d
        BY <2>1 DEF DbStep
  <2>2. CASE g[1] # d
    <3>1. Pend(reqs'[w], g) = Pend(reqs[w], g)
          BY <2>2 DEF DbStep
    <3> QED  BY <1>2, <2>2, <3>1 DEF RInv, RemovedForGood
  <2> QED  BY <2>1, <2>2
<1>5. CnsOK'
      BY DEF RInv, CnsOK, DbStep, BatchOK
<1>6. ASSUME NEW g \in Graphs PROVE GraphOK(g)'
  <2>1. CASE g[1] = d
        BY <2>1 DEF DbStep
  <2>2. CASE g[1] # d
        BY <1>2, <2>2 DEF DbStep, GraphOK, Connected, RInv, MetasOK
  <2> QED  BY <2>1, <2>2
<1>7. ASSUME NEW e \in Databases PROVE MetaOK(e)'
  <2>1. CASE e = d
        BY <2>1 DEF DbStep
  <2>2. CASE e # d
    <3>1. MetaOK(e)
          BY DEF RInv, MetasOK
    <3>2. \A g \in GraphsOf(e) : graph'[g] = graph[g]
          BY <1>2, <2>2 DEF GraphsOf
    <3> QED  BY <2>2, <3>1, <3>2, SameDatabase DEF DbStep
  <2> QED  BY <2>1, <2>2
<1> QED  BY <1>1, <1>3, <1>4, <1>5, <1>6, <1>7 DEF RInv, MetasOK

(* The request queues. *)

QueuesOK(r) == DOMAIN r = Workers /\ \A w \in Workers : Good(r[w])

LEMMA PostGood ==
  ASSUME NEW r, QueuesOK(r), NEW C, NEW m \in Messages,
         \A w \in C \cap Workers : \A g \in About(m) : \A x \in Pend(r[w], g) : Rank(x) < Rank(m)
  PROVE  /\ QueuesOK(Post(r, C, m))
         /\ \A w \in Workers : w \notin C => Post(r, C, m)[w] = r[w]
         /\ \A w \in Workers, g \in Graphs :
              Pend(Post(r, C, m)[w], g) = IF w \in C /\ g \in About(m) THEN Pend(r[w], g) \cup {m}
                                          ELSE Pend(r[w], g)
<1> DEFINE p == Post(r, C, m)
<1>1. /\ DOMAIN p = Workers
      /\ \A w \in Workers : p[w] = IF w \in C THEN Append(r[w], m) ELSE r[w]
      BY DEF Post
<1> HIDE DEF p
<1>2. ASSUME NEW w \in Workers, w \in C
      PROVE  /\ Good(Append(r[w], m))
             /\ \A g \in About(m) : Pend(Append(r[w], m), g) = Pend(r[w], g) \cup {m}
             /\ \A g : g \notin About(m) => Pend(Append(r[w], m), g) = Pend(r[w], g)
  <2>1. Good(r[w]) /\ \A g \in About(m) : \A x \in Pend(r[w], g) : Rank(x) < Rank(m)
        BY <1>2 DEF QueuesOK
  <2> QED  BY <2>1, AppendGood
<1>3. QueuesOK(p)
      BY <1>1, <1>2 DEF QueuesOK
<1>4. ASSUME NEW w \in Workers, NEW g \in Graphs
      PROVE  Pend(p[w], g) = IF w \in C /\ g \in About(m) THEN Pend(r[w], g) \cup {m}
                             ELSE Pend(r[w], g)
  <2>1. CASE w \in C
        BY <1>1, <1>2, <2>1
  <2>2. CASE w \notin C
        BY <1>1, <2>2
  <2> QED  BY <2>1, <2>2
<1>5. \A w \in Workers : w \notin C => p[w] = r[w]
      BY <1>1
<1> QED  BY <1>3, <1>4, <1>5 DEF p

\* A graph is started: created on the workers C, and its initial barrier sent.
Started(r, C, g, t, N, early) ==
  InjectTo(Post(r, C, CreateGraph(g, t)), C, g, t, 1, "build", N, early)

\* The queues r2 are r with graph g started.
StartedOK(r, r2, C, g, t, N) ==
  /\ QueuesOK(r2)
  /\ \A w \in Workers : w \notin C => r2[w] = r[w]
  /\ \A w \in Workers, h \in Graphs : h # g => Pend(r2[w], h) = Pend(r[w], h)
  /\ \A w \in Workers : w \in C =>
       \A s, L : s.term = t /\ s.epoch = 1 /\ (w \in N => w \in s.left) /\ (w \in N => w \in L)
                   => Starting(Pend(r2[w], g), w, s, L)

LEMMA StartGood ==
  ASSUME NEW r, QueuesOK(r), NEW C, NEW g \in Graphs, NEW t \in Nat, NEW N, NEW early,
         \A w \in Workers : w \in C => Pend(r[w], g) = {}
  PROVE  StartedOK(r, Started(r, C, g, t, N, early), C, g, t, N)
<1>1. PICK m : m = CreateGraph(g, t)
      OBVIOUS
<1>2. PICK i : i = Inject(g, t, 1, "build")
      OBVIOUS
<1>3. /\ m \in Messages /\ About(m) = {g} /\ m.type = "create" /\ m.term = t /\ Rank(m) = 1
      BY <1>1 DEF CreateGraph, Messages, About, Rank
<1>4. /\ i \in Messages /\ About(i) = {g} /\ i.type = "inject" /\ i.term = t /\ i.epoch = 1
      /\ i.kind = "build" /\ Rank(i) = 2
      BY <1>2 DEF Inject, Messages, About, Rank
<1>5. PICK p : p = Post(r, C, m)
      OBVIOUS
<1>6. \A w \in C \cap Workers : \A h \in About(m) : \A x \in Pend(r[w], h) : Rank(x) < Rank(m)
      BY <1>3
<1>7. /\ QueuesOK(p)
      /\ \A w \in Workers : w \notin C => p[w] = r[w]
      /\ \A w \in Workers, h \in Graphs :
           Pend(p[w], h) = IF w \in C /\ h \in About(m) THEN Pend(r[w], h) \cup {m}
                           ELSE Pend(r[w], h)
      BY <1>3, <1>5, <1>6, PostGood
<1>8. \A w \in Workers : w \in C => Pend(p[w], g) = {m}
      BY <1>3, <1>7
<1>17. PICK D : D = N \cap C
      OBVIOUS
<1>9. \A w \in D \cap Workers : \A h \in About(i) : \A x \in Pend(p[w], h) : Rank(x) < Rank(i)
      BY <1>3, <1>4, <1>8, <1>17
<1>10. PICK q : q = Post(p, D, i)
      OBVIOUS
<1>11. /\ QueuesOK(q)
       /\ \A w \in Workers : w \notin D => q[w] = p[w]
       /\ \A w \in Workers, h \in Graphs :
            Pend(q[w], h) = IF w \in D /\ h \in About(i) THEN Pend(p[w], h) \cup {i}
                            ELSE Pend(p[w], h)
  <2>1. QueuesOK(p) /\ i \in Messages
        BY <1>4, <1>7
  <2>2. /\ QueuesOK(Post(p, D, i))
        /\ \A w \in Workers : w \notin D => Post(p, D, i)[w] = p[w]
        /\ \A w \in Workers, h \in Graphs :
             Pend(Post(p, D, i)[w], h) = IF w \in D /\ h \in About(i) THEN Pend(p[w], h) \cup {i}
                                         ELSE Pend(p[w], h)
        BY <1>9, <2>1, PostGood
  <2> QED  BY <1>10, <2>2
<1>12. PICK z : z = Started(r, C, g, t, N, early)
      OBVIOUS
<1>13. z = p \/ z = q
      BY <1>1, <1>2, <1>5, <1>10, <1>12, <1>17 DEF Started, InjectTo
<1>14. /\ QueuesOK(z)
       /\ \A w \in Workers : w \notin C => z[w] = r[w]
       /\ \A w \in Workers, h \in Graphs : h # g => Pend(z[w], h) = Pend(r[w], h)
  <2>1. CASE z = p
        BY <1>3, <1>7, <2>1
  <2>2. CASE z = q
        BY <1>3, <1>4, <1>7, <1>11, <1>17, <2>2
  <2> QED  BY <1>13, <2>1, <2>2
<1>15. ASSUME NEW w \in Workers, w \in C
       PROVE  Pend(z[w], g) = {m} \/ (w \in N /\ Pend(z[w], g) = {m, i})
      BY <1>4, <1>8, <1>11, <1>13, <1>15, <1>17
<1>16. ASSUME NEW w \in Workers, w \in C, NEW s, NEW L, s.term = t, s.epoch = 1,
              w \in N => w \in s.left, w \in N => w \in L
       PROVE  Starting(Pend(z[w], g), w, s, L)
      BY <1>3, <1>4, <1>15, <1>16 DEF Starting, Has
<1> QED  BY <1>12, <1>14, <1>16 DEF StartedOK

\* The queues r2 are r with a reset of the graphs G sent to the workers C.
ResetSent(r, r2, C, G) ==
  /\ QueuesOK(r2)
  /\ \A w \in Workers : w \notin C => r2[w] = r[w]
  /\ \A w \in Workers, g \in Graphs :
       Pend(r2[w], g) = IF w \in C /\ g \in G THEN Pend(r[w], g) \cup {ResetGraphs(G)}
                        ELSE Pend(r[w], g)

\* On worker w graph g is, or would be, live with requests R and answers A.
LiveCell(w, g, R, A) ==
  \E s, N, j : Kind(s.st) = "live" /\ CellOK(w, s, N, j, cn[w][g], R, A)

LEMMA LiveRanks ==
  ASSUME NEW w, NEW g, NEW R, NEW A, LiveCell(w, g, R, A), R \subseteq Messages,
         NEW x \in R
  PROVE  Rank(x) < 3 /\ x.type \in {"create", "inject"}
<1>1. x.type \in {"create", "inject"}
      BY DEF LiveCell, CellOK, RequestTypes
<1> QED  BY <1>1 DEF Rank

LEMMA ResetGood ==
  ASSUME NEW r, QueuesOK(r), NEW C, NEW G, G \subseteq Graphs, G # {},
         \A w \in Workers, g \in G : w \in C => \E A : LiveCell(w, g, Pend(r[w], g), A)
  PROVE  ResetSent(r, Post(r, C, ResetGraphs(G)), C, G)
<1>1. PICK m : m = ResetGraphs(G)
      OBVIOUS
<1>2. m \in Messages /\ About(m) = G /\ m.type = "reset" /\ Rank(m) = 3
      BY <1>1 DEF ResetGraphs, Messages, About, Rank
<1>3. ASSUME NEW w \in C \cap Workers, NEW g \in About(m), NEW x \in Pend(r[w], g)
      PROVE  Rank(x) < Rank(m)
  <2>1. Pend(r[w], g) \subseteq Messages
        BY PendIn
  <2>2. PICK A : LiveCell(w, g, Pend(r[w], g), A)
        BY <1>2
  <2> QED  BY <1>2, <2>1, <2>2, LiveRanks
<1> QED  BY <1>1, <1>2, <1>3, PostGood DEF ResetSent

\* Worker w has all that graph g needs to be live from its start, in term t and
\* with actors on the workers N.
FreshCell(w, g, t, N, R, A) ==
  \A s, L, j :
    /\ s.st \in {"running", "initializing"} /\ s.term = t /\ s.epoch = 1
    /\ w \in N => w \in s.left /\ w \in L
    /\ j # "finishing"
    => CellOK(w, s, L, j, cn[w][g], R, A)

\* The same for a graph that is being reset.
ResetCell(w, g, R, A) ==
  \A s, L, j : s.st = "resetting" /\ w \in s.left => CellOK(w, s, L, j, cn[w][g], R, A)

\* Nothing of a graph that the meta node does not have is under way.
LEMMA NothingPends ==
  ASSUME RInv, NEW g \in Graphs, graph[g].st = "none",
         g = JobOf(g[1]) => job[g[1]] # "gone", NEW w \in Workers
  PROVE  /\ ~Has(Pend(reqs[w], g), "remove")
         /\ Pend(reqs[w], g) = {}
<1>1. ~Has(Pend(reqs[w], g), "remove")
      BY DEF RInv, RemovedForGood
<1>2. CASE conn[w]
  <2>1. Cell(w, g) /\ CnOK(cn[w][g])
        BY <1>2 DEF RInv, StreamsOK, CnsOK
  <2> QED  BY <1>1, <2>1, CellNone DEF Cell, CellWith
<1>3. CASE ~conn[w]
      BY <1>1, <1>3, EmptyGood DEF RInv, StreamsOK
<1> QED  BY <1>1, <1>2, <1>3

\* A graph that the meta node does not have is started, with queues r.
LEMMA StartCells ==
  ASSUME RInv, NEW g \in Graphs, graph[g].st = "none",
         g = JobOf(g[1]) => job[g[1]] # "gone",
         NEW r, QueuesOK(r), \A w \in Workers : Pend(r[w], g) = Pend(reqs[w], g),
         NEW t \in Nat, NEW N, NEW early, NEW r2, r2 = Started(r, Connected, g, t, N, early)
  PROVE  /\ StartedOK(r, r2, Connected, g, t, N)
         /\ \A w \in Workers :
              conn[w] => FreshCell(w, g, t, N, Pend(r2[w], g), Pend(resps[w], g))
<1>1. \A w \in Workers : w \in Connected => Pend(r[w], g) = {}
      BY NothingPends
<1>2. StartedOK(r, r2, Connected, g, t, N)
      BY <1>1, StartGood
<1>3. ASSUME NEW w \in Workers, conn[w]
      PROVE  FreshCell(w, g, t, N, Pend(r2[w], g), Pend(resps[w], g))
  <2> SUFFICES ASSUME NEW s, NEW L, NEW j, s.st \in {"running", "initializing"},
                      s.term = t, s.epoch = 1, w \in N => w \in s.left /\ w \in L,
                      j # "finishing"
               PROVE  CellOK(w, s, L, j, cn[w][g], Pend(r2[w], g), Pend(resps[w], g))
        BY DEF FreshCell
  <2>1. Starting(Pend(r2[w], g), w, s, L)
        BY <1>2, <1>3 DEF StartedOK, Connected
  <2>2. Cell(w, g) /\ CnOK(cn[w][g])
        BY <1>3 DEF RInv, StreamsOK, CnsOK
  <2>3. CellOK(w, graph[g], nodes[g], JobKind(g), cn[w][g], Pend(reqs[w], g), Pend(resps[w], g))
        BY <2>2 DEF Cell, CellWith
  <2>4. ~Has(Pend(reqs[w], g), "remove")
        BY NothingPends
  <2> QED  BY <2>1, <2>2, <2>3, <2>4, CellStart
<1> QED  BY <1>2, <1>3

LEMMA FreshLive ==
  ASSUME NEW w, NEW g, NEW t, NEW N, NEW R, NEW A, FreshCell(w, g, t, N, R, A)
  PROVE  LiveCell(w, g, R, A)
<1>1. PICK s : s = [st |-> "running", term |-> t, epoch |-> 1, left |-> N]
      OBVIOUS
<1>2. /\ s.st = "running" /\ s.term = t /\ s.epoch = 1 /\ s.left = N
      BY <1>1
<1>3. CellOK(w, s, N, "none", cn[w][g], R, A)
      BY <1>2 DEF FreshCell
<1>4. Kind(s.st) = "live"
      BY <1>2 DEF Kind
<1> QED  BY <1>3, <1>4 DEF LiveCell

\* Graphs that are, or would be, live are reset, with queues r.
LEMMA ResetCells ==
  ASSUME RInv, NEW G, G \subseteq Graphs, G # {}, NEW r, QueuesOK(r),
         \A w \in Workers, g \in G : conn[w] => LiveCell(w, g, Pend(r[w], g), Pend(resps[w], g)),
         NEW r2, r2 = Post(r, Connected, ResetGraphs(G))
  PROVE  /\ ResetSent(r, r2, Connected, G)
         /\ \A w \in Workers, g \in G : conn[w] =>
              /\ ResetCell(w, g, Pend(r2[w], g), Pend(resps[w], g))
              /\ ~Has(Pend(r2[w], g), "remove")
<1>1. \A w \in Workers, g \in G : w \in Connected => \E A : LiveCell(w, g, Pend(r[w], g), A)
      BY DEF Connected
<1>2. ResetSent(r, r2, Connected, G)
      BY <1>1, ResetGood
<1>3. ASSUME NEW w \in Workers, NEW g \in G, conn[w]
      PROVE  /\ ResetCell(w, g, Pend(r2[w], g), Pend(resps[w], g))
             /\ ~Has(Pend(r2[w], g), "remove")
  <2>1. g \in Graphs /\ w \in Connected /\ CnOK(cn[w][g])
        BY <1>3 DEF RInv, CnsOK, Connected
  <2>2. PICK m : m = ResetGraphs(G)
        OBVIOUS
  <2>3. m.type = "reset" /\ Pend(r2[w], g) = Pend(r[w], g) \cup {m}
        BY <1>2, <2>1, <2>2 DEF ResetSent, ResetGraphs
  <2>4. LiveCell(w, g, Pend(r[w], g), Pend(resps[w], g))
        BY <1>3
  <2>5. PICK s, N, j :
          Kind(s.st) = "live"
            /\ CellOK(w, s, N, j, cn[w][g], Pend(r[w], g), Pend(resps[w], g))
        BY <2>4 DEF LiveCell
  <2>6. ASSUME NEW s2, NEW L, NEW j2, s2.st = "resetting", w \in s2.left
        PROVE  CellOK(w, s2, L, j2, cn[w][g], Pend(r2[w], g), Pend(resps[w], g))
        BY <2>1, <2>3, <2>5, <2>6, CellReset
  <2>7. Pend(r[w], g) \subseteq Messages
        BY PendIn
  <2>8. \A x \in Pend(r[w], g) : x.type \in {"create", "inject"}
        BY <2>4, <2>7, LiveRanks
  <2> QED  BY <2>3, <2>6, <2>8 DEF ResetCell, Has
<1> QED  BY <1>2, <1>3

\* The outcome s of inject_database_initial_barrier of database d, placed as p.
InitialOK(d, p, t, s) ==
  /\ s.bad = FALSE /\ s.ok \in BOOLEAN
  /\ Main(d) \in s.added /\ s.added \subseteq DOMAIN p
  /\ s.ok => s.added = DOMAIN p /\ \A g \in DOMAIN p : p[g] \subseteq Connected
  /\ s.graph = [g \in Graphs |-> s.graph[g]]
  /\ \A g \in Graphs : g \notin s.added => s.graph[g] = graph[g]
  /\ \A g \in s.added :
       s.graph[g] = IF s.ok THEN [st |-> "initializing", term |-> t, epoch |-> 1, left |-> p[g]]
                    ELSE [st |-> "resetting", term |-> 0, epoch |-> 0, left |-> Connected]
  /\ QueuesOK(s.reqs)
  /\ \A w \in Workers : ~conn[w] => s.reqs[w] = reqs[w]
  /\ \A w \in Workers, g \in Graphs : g \notin s.added => Pend(s.reqs[w], g) = Pend(reqs[w], g)
  /\ \A w \in Workers, g \in s.added : conn[w] =>
       IF s.ok THEN FreshCell(w, g, t, p[g], Pend(s.reqs[w], g), Pend(resps[w], g))
       ELSE ResetCell(w, g, Pend(s.reqs[w], g), Pend(resps[w], g))
  /\ \A w \in Workers, g \in s.added : conn[w] => ~Has(Pend(s.reqs[w], g), "remove")

\* A graph that starts is not being removed.
LEMMA FreshNotRemoved ==
  ASSUME NEW w, NEW g, NEW t, NEW N, NEW q, NEW A, FreshCell(w, g, t, N, Pend(q, g), A)
  PROVE  ~Has(Pend(q, g), "remove")
<1>1. LiveCell(w, g, Pend(q, g), A)
      BY FreshLive
<1>2. Pend(q, g) \subseteq Messages
      BY PendIn
<1> QED  BY <1>1, <1>2, LiveRanks DEF Has

\* Where a database's actors go.
LEMMA PlacementFacts ==
  ASSUME NEW d \in Databases, NEW p \in Placements(d)
  PROVE  /\ Main(d) \in DOMAIN p /\ DOMAIN p \subseteq GraphsOf(d)
         /\ \A g \in DOMAIN p : p[g] \subseteq Workers
         /\ JobOf(d) \in DOMAIN p =>
              d \in JobDatabases /\ JobLost(d) # "gone" /\ DOMAIN p = {Main(d), JobOf(d)}
         /\ JobOf(d) \notin DOMAIN p => DOMAIN p = {Main(d)}
<1>1. CASE p \in [{Main(d)} -> (SUBSET Workers) \ {{}}]
      BY <1>1, DatabaseFacts
<1>2. CASE /\ d \in JobDatabases /\ JobLost(d) # "gone"
           /\ p \in [{Main(d), JobOf(d)} -> (SUBSET Workers) \ {{}}]
      BY <1>2, DatabaseFacts
<1> QED  BY <1>1, <1>2 DEF Placements

\* inject_database_initial_barrier of a database without graphs.
LEMMA InitialBarriers ==
  ASSUME RInv, NEW d \in Databases, \A g \in GraphsOf(d) : graph[g].st = "none",
         NEW p \in Placements(d), NEW t \in Nat, NEW early, NEW s,
         s = InjectDatabaseInitialBarrier(
               [graph |-> graph, reqs |-> reqs, added |-> {}, bad |-> FALSE],
               Connected, d, t, p, early)
  PROVE  InitialOK(d, p, t, s)
<1>0. PICK C : C = Connected
      OBVIOUS
<1>1. PICK m, j : m = Main(d) /\ j = JobOf(d)
      OBVIOUS
<1>2. /\ m \in Graphs /\ m # j /\ graph[m].st = "none" /\ m[1] = d /\ j[1] = d
      /\ JobOf(d) = j /\ m # JobOf(m[1])
      BY <1>1, DatabaseFacts
<1>3. /\ m \in DOMAIN p /\ DOMAIN p \subseteq GraphsOf(d)
      /\ \A g \in DOMAIN p : p[g] \subseteq Workers
      /\ j \in DOMAIN p => d \in JobDatabases /\ JobLost(d) # "gone" /\ DOMAIN p = {m, j}
      /\ j \notin DOMAIN p => DOMAIN p = {m}
      BY <1>1, PlacementFacts
<1>4. j \in DOMAIN p => j \in Graphs /\ graph[j].st = "none" /\ job[j[1]] # "gone"
  <2>1. j \in DOMAIN p => j \in GraphsOf(d) /\ d \in JobDatabases
        BY <1>3
  <2>2. JobLost(d) # "gone" => job[d] # "gone"
        BY DEF JobLost
  <2> QED  BY <1>1, <1>2, <1>3, <2>1, <2>2, DatabaseFacts
<1>5. graph = [g \in Graphs |-> graph[g]] /\ QueuesOK(reqs)
      BY DEF RInv, TypeInv, StreamsOK, QueuesOK
<1>6. PICK s0 : s0 = [graph |-> graph, reqs |-> reqs, added |-> {}, bad |-> FALSE]
      OBVIOUS
<1>7. s0.graph = graph /\ s0.reqs = reqs /\ s0.added = {} /\ s0.bad = FALSE
      BY <1>6
<1>8. PICK a : a = RecoverGraph(s0, C, m, t, p[m], early)
      OBVIOUS
<1>9. /\ a.graph = IF p[m] \subseteq C
                   THEN [graph EXCEPT ![m] = [st |-> "initializing", term |-> t,
                                              epoch |-> 1, left |-> p[m]]]
                   ELSE graph
      /\ a.reqs = Started(reqs, C, m, t, p[m], early)
      /\ a.ok = (p[m] \subseteq C) /\ a.added = {m} /\ a.bad = FALSE
  <2>1. /\ a.graph = IF p[m] \subseteq C
                     THEN [s0.graph EXCEPT ![m] = [st |-> "initializing", term |-> t,
                                                   epoch |-> 1, left |-> p[m]]]
                     ELSE s0.graph
        /\ a.reqs = Started(s0.reqs, C, m, t, p[m], early)
        /\ a.ok = (p[m] \subseteq C) /\ a.added = s0.added \cup {m}
        /\ a.bad = (s0.bad \/ s0.graph[m].st # "none")
        BY <1>8 DEF RecoverGraph, Started
  <2> QED  BY <1>2, <1>7, <2>1
<1>10. PICK b : b = RecoverGraph(a, C, j, t, p[j], early)
      OBVIOUS
<1>11. PICK all : all = IF a.ok /\ j \in DOMAIN p THEN b ELSE a
      OBVIOUS
<1>12. PICK back : back = ResetPartialGraphs(all.graph, all.reqs, C, all.added)
      OBVIOUS
<1>13. s = IF all.ok THEN all
           ELSE [graph |-> back.graph, reqs |-> back.reqs, ok |-> FALSE,
                 added |-> all.added, bad |-> all.bad \/ back.bad]
      BY <1>0, <1>1, <1>6, <1>8, <1>10, <1>11, <1>12 DEF InjectDatabaseInitialBarrier
<1>14. /\ StartedOK(reqs, a.reqs, C, m, t, p[m])
       /\ \A w \in Workers :
            conn[w] => FreshCell(w, m, t, p[m], Pend(a.reqs[w], m), Pend(resps[w], m))
      BY <1>0, <1>2, <1>5, <1>9, StartCells
<1>15. \A w \in Workers : w \in C <=> conn[w]
      BY <1>0 DEF Connected
<1>16. QueuesOK(a.reqs) /\ \A w \in Workers : ~conn[w] => a.reqs[w] = reqs[w]
      BY <1>14, <1>15 DEF StartedOK
<1>17. \A w \in Workers, g \in Graphs : g # m => Pend(a.reqs[w], g) = Pend(reqs[w], g)
      BY <1>14 DEF StartedOK
<1>20. CASE a.ok /\ j \notin DOMAIN p
  <2>1. s = a
        BY <1>11, <1>13, <1>20
  <2>2. /\ a.graph = [g \in Graphs |-> a.graph[g]]
        /\ \A g \in Graphs : g # m => a.graph[g] = graph[g]
        /\ a.graph[m] = [st |-> "initializing", term |-> t, epoch |-> 1, left |-> p[m]]
        BY <1>2, <1>5, <1>9, <1>20
  <2>3. \A w \in Workers : conn[w] => ~Has(Pend(a.reqs[w], m), "remove")
        BY <1>14, FreshNotRemoved
  <2>4. DOMAIN p = {m} /\ p[m] \subseteq Connected /\ s.added = {m} /\ s.ok = TRUE
        BY <1>0, <1>3, <1>9, <1>20, <2>1
  <2>5. /\ s.graph = [g \in Graphs |-> s.graph[g]] /\ s.bad = FALSE
        /\ \A g \in Graphs : g \notin s.added => s.graph[g] = graph[g]
        /\ \A g \in s.added :
             s.graph[g] = [st |-> "initializing", term |-> t, epoch |-> 1, left |-> p[g]]
        BY <1>9, <2>1, <2>2, <2>4
  <2>6. /\ \A w \in Workers, g \in s.added : conn[w] =>
             FreshCell(w, g, t, p[g], Pend(s.reqs[w], g), Pend(resps[w], g))
        /\ \A w \in Workers, g \in s.added : conn[w] => ~Has(Pend(s.reqs[w], g), "remove")
        BY <1>14, <2>1, <2>3, <2>4
  <2>7. /\ Main(d) \in s.added /\ s.added = DOMAIN p
        /\ \A g \in DOMAIN p : p[g] \subseteq Connected
        BY <1>1, <2>4
  <2>8. /\ QueuesOK(s.reqs)
        /\ \A w \in Workers : ~conn[w] => s.reqs[w] = reqs[w]
        /\ \A w \in Workers, g \in Graphs : g \notin s.added => Pend(s.reqs[w], g) = Pend(reqs[w], g)
        BY <1>16, <1>17, <2>1, <2>4
  <2> QED  BY <2>4, <2>5, <2>6, <2>7, <2>8 DEF InitialOK
<1>21. CASE ~a.ok
  <2>1. all = a /\ all.ok = FALSE
        BY <1>9, <1>11, <1>21
  <2>2. back = ResetPartialGraphs(graph, a.reqs, C, {m})
        BY <1>9, <1>12, <1>21, <2>1
  <2>3. /\ back.graph = [g \in Graphs |-> back.graph[g]]
        /\ \A g \in Graphs :
             back.graph[g] = IF g \in {m} THEN [st |-> "resetting", term |-> 0, epoch |-> 0,
                                                left |-> C]
                             ELSE graph[g]
        /\ back.reqs = Post(a.reqs, C, ResetGraphs({m}))
        /\ back.bad = (\E g \in {m} : graph[g].st = "resetting")
        BY <2>2 DEF ResetPartialGraphs, RemainingWorkers
  <2>4. s.graph = back.graph /\ s.reqs = back.reqs /\ s.ok = FALSE /\ s.added = {m} /\ s.bad = FALSE
    <3>1. back.bad = FALSE /\ all.bad = FALSE
          BY <1>2, <1>9, <2>1, <2>3
    <3>2. PICK x : x = (all.bad \/ back.bad)
          OBVIOUS
    <3>3. s = [graph |-> back.graph, reqs |-> back.reqs, ok |-> FALSE, added |-> all.added,
               bad |-> x]
          BY <1>13, <2>1, <3>2
    <3>4. x = FALSE
          BY <3>1, <3>2
    <3>5. /\ s.graph = back.graph /\ s.reqs = back.reqs /\ s.ok = FALSE
          /\ s.added = all.added /\ s.bad = x
          BY <3>3
    <3>6. all.added = {m}
          BY <1>9, <2>1
    <3> QED  BY <3>4, <3>5, <3>6
  <2>5. \A w \in Workers, g \in {m} :
          conn[w] => LiveCell(w, g, Pend(a.reqs[w], g), Pend(resps[w], g))
        BY <1>14, FreshLive
  <2>6. PICK G : G = {m}
        OBVIOUS
  <2>7. /\ ResetSent(a.reqs, s.reqs, Connected, G)
        /\ \A w \in Workers, g \in G : conn[w] =>
             /\ ResetCell(w, g, Pend(s.reqs[w], g), Pend(resps[w], g))
             /\ ~Has(Pend(s.reqs[w], g), "remove")
    <3>1. G \subseteq Graphs /\ G # {} /\ QueuesOK(a.reqs)
          BY <1>2, <1>16, <2>6
    <3>2. s.reqs = Post(a.reqs, Connected, ResetGraphs(G))
          BY <1>0, <2>3, <2>4, <2>6
    <3>3. \A w \in Workers, g \in G :
            conn[w] => LiveCell(w, g, Pend(a.reqs[w], g), Pend(resps[w], g))
          BY <2>5, <2>6
    <3> QED  BY <3>1, <3>2, <3>3, ResetCells
  <2>8. /\ QueuesOK(s.reqs)
        /\ \A w \in Workers : ~conn[w] => s.reqs[w] = reqs[w]
        /\ \A w \in Workers, g \in Graphs : g \notin G => Pend(s.reqs[w], g) = Pend(reqs[w], g)
    <3>1. \A w \in Workers : ~conn[w] => s.reqs[w] = a.reqs[w]
          BY <2>7 DEF ResetSent, Connected
    <3>2. \A w \in Workers, g \in Graphs : g \notin G => Pend(s.reqs[w], g) = Pend(a.reqs[w], g)
          BY <2>7 DEF ResetSent
    <3> QED  BY <1>16, <1>17, <2>6, <2>7, <3>1, <3>2 DEF ResetSent
  <2>9. \A g \in s.added :
          s.graph[g] = [st |-> "resetting", term |-> 0, epoch |-> 0, left |-> Connected]
        BY <1>0, <1>2, <2>3, <2>4
  <2>10. \A g \in Graphs : g \notin s.added => s.graph[g] = graph[g]
        BY <2>3, <2>4
  <2>11. s.graph = [g \in Graphs |-> s.graph[g]] /\ Main(d) \in s.added /\ s.added \subseteq DOMAIN p
        BY <1>1, <1>3, <2>3, <2>4
  <2> QED  BY <2>4, <2>6, <2>7, <2>8, <2>9, <2>10, <2>11 DEF InitialOK
<1>22. CASE a.ok /\ j \in DOMAIN p
  <2>0. PICK gr : gr = a.graph
        OBVIOUS
  <2>1. all = b /\ j \in Graphs /\ DOMAIN p = {m, j} /\ p[m] \subseteq C
        BY <1>3, <1>4, <1>9, <1>11, <1>22
  <2>2. /\ gr = [g \in Graphs |-> gr[g]]
        /\ \A g \in Graphs : g # m => gr[g] = graph[g]
        /\ gr[m] = [st |-> "initializing", term |-> t, epoch |-> 1, left |-> p[m]]
        BY <1>2, <1>5, <1>9, <1>22, <2>0
  <2>3. /\ b.graph = IF p[j] \subseteq C
                     THEN [gr EXCEPT ![j] = [st |-> "initializing", term |-> t,
                                             epoch |-> 1, left |-> p[j]]]
                     ELSE gr
        /\ b.reqs = Started(a.reqs, C, j, t, p[j], early)
        /\ b.ok = (p[j] \subseteq C) /\ b.added = {m, j}
        /\ b.bad = FALSE
    <3>1. /\ b.graph = IF p[j] \subseteq C
                       THEN [a.graph EXCEPT ![j] = [st |-> "initializing", term |-> t,
                                                    epoch |-> 1, left |-> p[j]]]
                       ELSE a.graph
          /\ b.reqs = Started(a.reqs, C, j, t, p[j], early)
          /\ b.ok = (p[j] \subseteq C) /\ b.added = a.added \cup {j}
          /\ b.bad = (a.bad \/ a.graph[j].st # "none")
          BY <1>10 DEF RecoverGraph, Started
    <3>2. gr[j].st = "none"
          BY <1>2, <1>4, <1>22, <2>1, <2>2
    <3> QED  BY <1>9, <2>0, <3>1, <3>2
  <2>4. /\ StartedOK(a.reqs, b.reqs, C, j, t, p[j])
        /\ \A w \in Workers :
             conn[w] => FreshCell(w, j, t, p[j], Pend(b.reqs[w], j), Pend(resps[w], j))
    <3>1. \A w \in Workers : Pend(a.reqs[w], j) = Pend(reqs[w], j)
          BY <1>2, <1>17, <2>1
    <3> QED  BY <1>0, <1>4, <1>16, <1>22, <2>1, <2>3, <3>1, StartCells
  <2>5. /\ QueuesOK(b.reqs) /\ \A w \in Workers : ~conn[w] => b.reqs[w] = reqs[w]
        /\ \A w \in Workers : Pend(b.reqs[w], m) = Pend(a.reqs[w], m)
        /\ \A w \in Workers, g \in Graphs :
             g \notin {m, j} => Pend(b.reqs[w], g) = Pend(reqs[w], g)
        BY <1>2, <1>15, <1>16, <1>17, <2>4 DEF StartedOK
  <2>6. \A w \in Workers, g \in {m, j} :
          conn[w] => FreshCell(w, g, t, p[g], Pend(b.reqs[w], g), Pend(resps[w], g))
        BY <1>14, <2>4, <2>5
  <2>7. CASE b.ok
    <3>1. s = b /\ p[j] \subseteq C /\ s.ok = TRUE
          BY <1>13, <2>1, <2>3, <2>7
    <3>2. /\ s.graph = [g \in Graphs |-> s.graph[g]]
          /\ \A g \in Graphs : g \notin {m, j} => s.graph[g] = graph[g]
          /\ \A g \in {m, j} :
               s.graph[g] = [st |-> "initializing", term |-> t, epoch |-> 1, left |-> p[g]]
      <4>1. PICK x : x = [st |-> "initializing", term |-> t, epoch |-> 1, left |-> p[j]]
            OBVIOUS
      <4>2. s.graph = [gr EXCEPT ![j] = x]
            BY <2>3, <3>1, <4>1
      <4>3. /\ s.graph = [g \in Graphs |-> s.graph[g]] /\ s.graph[j] = x
            /\ \A g \in Graphs : g # j => s.graph[g] = gr[g]
            BY <2>1, <2>2, <4>2
      <4> QED  BY <1>2, <2>2, <4>1, <4>3
    <3>3. \A w \in Workers, g \in {m, j} : conn[w] => ~Has(Pend(b.reqs[w], g), "remove")
          BY <2>6, FreshNotRemoved
    <3>4. s.added = {m, j} /\ \A g \in DOMAIN p : p[g] \subseteq Connected
          BY <1>0, <2>1, <2>3, <3>1
    <3>5. s.reqs = b.reqs /\ s.bad = FALSE /\ Main(d) \in s.added
          BY <1>1, <2>3, <3>1, <3>4
    <3>6. /\ \A w \in Workers, g \in s.added : conn[w] =>
               FreshCell(w, g, t, p[g], Pend(s.reqs[w], g), Pend(resps[w], g))
          /\ \A w \in Workers, g \in s.added : conn[w] => ~Has(Pend(s.reqs[w], g), "remove")
          BY <2>6, <3>3, <3>4, <3>5
    <3>7. s.added = DOMAIN p
          BY <2>1, <3>4
    <3>8. /\ QueuesOK(s.reqs)
          /\ \A w \in Workers : ~conn[w] => s.reqs[w] = reqs[w]
          /\ \A w \in Workers, g \in Graphs : g \notin s.added => Pend(s.reqs[w], g) = Pend(reqs[w], g)
          BY <2>5, <3>4, <3>5
    <3>9. /\ \A g \in Graphs : g \notin s.added => s.graph[g] = graph[g]
          /\ \A g \in s.added :
               s.graph[g] = [st |-> "initializing", term |-> t, epoch |-> 1, left |-> p[g]]
          BY <3>2, <3>4
    <3> QED  BY <3>1, <3>2, <3>4, <3>5, <3>6, <3>7, <3>8, <3>9 DEF InitialOK
  <2>8. CASE ~b.ok
    <3>1. back = ResetPartialGraphs(gr, b.reqs, C, {m, j}) /\ all.ok = FALSE
          BY <1>12, <2>1, <2>3, <2>8
    <3>2. /\ back.graph = [g \in Graphs |-> back.graph[g]]
          /\ \A g \in Graphs :
               back.graph[g] = IF g \in {m, j} THEN [st |-> "resetting", term |-> 0,
                                                     epoch |-> 0, left |-> C]
                               ELSE gr[g]
          /\ back.reqs = Post(b.reqs, C, ResetGraphs({m, j}))
          /\ back.bad = (\E g \in {m, j} : gr[g].st = "resetting")
          BY <3>1 DEF ResetPartialGraphs, RemainingWorkers
    <3>3. gr[m].st = "initializing" /\ gr[j].st = "none"
          BY <1>2, <1>4, <1>22, <2>1, <2>2
    <3>4. s.graph = back.graph /\ s.reqs = back.reqs /\ s.ok = FALSE /\ s.added = {m, j} /\ s.bad = FALSE
      <4>1. back.bad = FALSE /\ all.bad = FALSE
            BY <2>1, <2>3, <3>2, <3>3
      <4>2. PICK x : x = (all.bad \/ back.bad)
            OBVIOUS
      <4>3. s = [graph |-> back.graph, reqs |-> back.reqs, ok |-> FALSE, added |-> all.added,
                 bad |-> x]
            BY <1>13, <3>1, <4>2
      <4>4. x = FALSE
            BY <4>1, <4>2
      <4>5. /\ s.graph = back.graph /\ s.reqs = back.reqs /\ s.ok = FALSE
            /\ s.added = all.added /\ s.bad = x
            BY <4>3
      <4>6. all.added = {m, j}
            BY <2>1, <2>3
      <4> QED  BY <4>4, <4>5, <4>6
    <3>5. PICK G : G = {m, j}
          OBVIOUS
    <3>6. /\ ResetSent(b.reqs, s.reqs, Connected, G)
          /\ \A w \in Workers, g \in G : conn[w] =>
               /\ ResetCell(w, g, Pend(s.reqs[w], g), Pend(resps[w], g))
               /\ ~Has(Pend(s.reqs[w], g), "remove")
      <4>1. G \subseteq Graphs /\ G # {} /\ QueuesOK(b.reqs)
            BY <1>2, <2>1, <2>5, <3>5
      <4>2. s.reqs = Post(b.reqs, Connected, ResetGraphs(G))
            BY <1>0, <3>2, <3>4, <3>5
      <4>3. \A w \in Workers, g \in G :
              conn[w] => LiveCell(w, g, Pend(b.reqs[w], g), Pend(resps[w], g))
            BY <2>6, <3>5, FreshLive
      <4> QED  BY <4>1, <4>2, <4>3, ResetCells
    <3>7. /\ QueuesOK(s.reqs)
          /\ \A w \in Workers : ~conn[w] => s.reqs[w] = reqs[w]
          /\ \A w \in Workers, g \in Graphs : g \notin G => Pend(s.reqs[w], g) = Pend(reqs[w], g)
      <4>1. \A w \in Workers : ~conn[w] => s.reqs[w] = b.reqs[w]
            BY <3>6 DEF ResetSent, Connected
      <4>2. \A w \in Workers, g \in Graphs : g \notin G => Pend(s.reqs[w], g) = Pend(b.reqs[w], g)
            BY <3>6 DEF ResetSent
      <4> QED  BY <2>5, <3>5, <3>6, <4>1, <4>2 DEF ResetSent
    <3>8. \A g \in s.added :
            s.graph[g] = [st |-> "resetting", term |-> 0, epoch |-> 0, left |-> Connected]
          BY <1>0, <1>2, <2>1, <3>2, <3>4
    <3>9. \A g \in Graphs : g \notin s.added => s.graph[g] = graph[g]
          BY <2>2, <3>2, <3>4
    <3>10. s.graph = [g \in Graphs |-> s.graph[g]] /\ Main(d) \in s.added /\ s.added \subseteq DOMAIN p
          BY <1>1, <2>1, <3>2, <3>4
    <3> QED  BY <3>4, <3>5, <3>6, <3>7, <3>8, <3>9, <3>10 DEF InitialOK
  <2> QED  BY <2>3, <2>7, <2>8
<1> QED  BY <1>9, <1>20, <1>21, <1>22

\* The step that injects the initial barriers of database d, with outcome s.
InitialStep(d, p, s) ==
  /\ conn' = conn /\ cn' = cn /\ batches' = batches /\ xreq' = xreq /\ resps' = resps
  /\ phase \in {"injecting", "running"}
  /\ phase' = phase \/ (phase = "injecting" /\ phase' = "global")
  /\ graph' = s.graph /\ reqs' = s.reqs /\ panic' = (panic \/ s.bad)
  /\ waits' = [waits EXCEPT ![d] = s.added]
  /\ stage' = [stage EXCEPT ![d] = IF s.ok THEN "initializing" ELSE "resetting"]
  /\ nodes' = IF s.ok THEN Placed(p) ELSE nodes
  /\ job' = IF s.ok THEN [job EXCEPT ![d] = JobAfter(d, p)] ELSE job
  /\ lastTerm' = lastTerm + 1

LEMMA InitialKeeps ==
  ASSUME RInv, NEW d \in Databases, stage[d] \in {"pending", "resetting"},
         \A g \in GraphsOf(d) : graph[g].st = "none", NEW p \in Placements(d), NEW s,
         InitialOK(d, p, lastTerm + 1, s), InitialStep(d, p, s)
  PROVE  RInv' /\ (panic' => panic)
<1>1. PICK m, j, t : m = Main(d) /\ j = JobOf(d) /\ t = lastTerm + 1
      OBVIOUS
<1>2. /\ m \in Graphs /\ m # j /\ m[1] = d /\ j[1] = d /\ JobOf(d) = j /\ Main(d) = m
      /\ m \in GraphsOf(d) /\ (d \in JobDatabases => j \in Graphs /\ j \in GraphsOf(d))
      /\ \A g \in Graphs : g \in GraphsOf(d) <=> g[1] = d
      /\ \A g \in GraphsOf(d) : g \in Graphs /\ (g = m \/ (g = j /\ d \in JobDatabases))
      BY <1>1, DatabaseFacts
<1>3. /\ m \in DOMAIN p /\ DOMAIN p \subseteq GraphsOf(d)
      /\ \A g \in DOMAIN p : p[g] \subseteq Workers
      /\ j \in DOMAIN p => d \in JobDatabases /\ JobLost(d) # "gone" /\ DOMAIN p = {m, j}
      /\ j \notin DOMAIN p => DOMAIN p = {m}
      BY <1>1, PlacementFacts
<1>4. PICK ok, added : ok = s.ok /\ added = s.added
      OBVIOUS
<1>5. /\ ok \in BOOLEAN /\ m \in added /\ added \subseteq DOMAIN p /\ s.bad = FALSE
      /\ ok => added = DOMAIN p /\ \A g \in DOMAIN p : p[g] \subseteq Connected
      /\ graph' = [g \in Graphs |-> graph'[g]]
      /\ \A g \in Graphs : g \notin added => graph'[g] = graph[g]
      BY <1>1, <1>4 DEF InitialOK, InitialStep
<1>22. ASSUME NEW g \in added, ok
       PROVE  /\ graph'[g] = [st |-> "initializing", term |-> t, epoch |-> 1, left |-> p[g]]
              /\ graph'[g].st = "initializing" /\ graph'[g].term = t /\ graph'[g].epoch = 1
              /\ graph'[g].left = p[g]
  <2>1. graph'[g] = [st |-> "initializing", term |-> t, epoch |-> 1, left |-> p[g]]
        BY <1>1, <1>4, <1>22 DEF InitialOK, InitialStep
  <2> QED  BY <2>1
<1>23. ASSUME NEW g \in added, ~ok
       PROVE  /\ graph'[g] = [st |-> "resetting", term |-> 0, epoch |-> 0, left |-> Connected]
              /\ graph'[g].st = "resetting" /\ graph'[g].left = Connected
  <2>1. graph'[g] = [st |-> "resetting", term |-> 0, epoch |-> 0, left |-> Connected]
        BY <1>1, <1>4, <1>23 DEF InitialOK, InitialStep
  <2> QED  BY <2>1
<1>6. /\ QueuesOK(reqs')
      /\ \A w \in Workers : ~conn[w] => reqs'[w] = reqs[w]
      /\ \A w \in Workers, g \in Graphs : g \notin added => Pend(reqs'[w], g) = Pend(reqs[w], g)
      BY <1>4 DEF InitialOK, InitialStep
<1>7. /\ \A w \in Workers, g \in added : conn[w] =>
           IF ok THEN FreshCell(w, g, t, p[g], Pend(reqs'[w], g), Pend(resps'[w], g))
           ELSE ResetCell(w, g, Pend(reqs'[w], g), Pend(resps'[w], g))
      /\ \A w \in Workers, g \in added : conn[w] => ~Has(Pend(reqs'[w], g), "remove")
      BY <1>1, <1>4 DEF InitialOK, InitialStep
<1>8. TypeInv /\ MetaOK(d) /\ t \in Nat /\ Connected \subseteq Workers
      BY <1>1 DEF RInv, TypeInv, MetasOK, Connected
<1>9. /\ job' \in [Databases -> JobStates] /\ job[d] \in {"none", "gone"}
      /\ \A e \in Databases : e # d => job'[e] = job[e]
      /\ job'[d] = IF ok THEN (IF j \in DOMAIN p THEN "running" ELSE JobLost(d)) ELSE job[d]
      /\ JobLost(d) = job[d]
  <2>1. job[d] \in {"none", "gone"}
        BY <1>8 DEF MetaOK
  <2>2. JobLost(d) = job[d]
        BY <2>1 DEF JobLost
  <2>3. PICK x : x = JobAfter(d, p)
        OBVIOUS
  <2>4. x = IF j \in DOMAIN p THEN "running" ELSE JobLost(d)
        BY <1>1, <2>3 DEF JobAfter
  <2>5. x \in JobStates
        BY <2>1, <2>2, <2>4 DEF JobStates
  <2>6. job' = IF ok THEN [job EXCEPT ![d] = x] ELSE job
        BY <1>4, <2>3 DEF InitialStep
  <2> QED  BY <1>8, <2>1, <2>2, <2>4, <2>5, <2>6 DEF TypeInv
<1>10. /\ stage' \in [Databases -> Stages] /\ waits' \in [Databases -> SUBSET Graphs]
       /\ stage'[d] = (IF ok THEN "initializing" ELSE "resetting") /\ waits'[d] = added
       /\ \A e \in Databases : e # d => stage'[e] = stage[e] /\ waits'[e] = waits[e]
  <2>1. added \in SUBSET Graphs
        BY <1>2, <1>3, <1>5
  <2>2. PICK x \in Stages : x = IF ok THEN "initializing" ELSE "resetting"
        BY DEF Stages
  <2> QED  BY <1>4, <1>8, <2>1, <2>2 DEF TypeInv, InitialStep
<1>11. /\ nodes' \in [Graphs -> SUBSET Workers]
       /\ \A g \in Graphs : g \notin DOMAIN p => nodes'[g] = nodes[g]
       /\ ok => \A g \in DOMAIN p : nodes'[g] = p[g]
  <2>1. nodes' = IF ok THEN [g \in Graphs |-> IF g \in DOMAIN p THEN p[g] ELSE nodes[g]]
                 ELSE nodes
        BY <1>4 DEF InitialStep, Placed
  <2> QED  BY <1>2, <1>3, <1>8, <2>1 DEF TypeInv
<1>12. graph' \in [Graphs -> GraphState]
  <2>1. ASSUME NEW g \in Graphs PROVE graph'[g] \in GraphState
    <3>1. CASE g \in added /\ ok
      <4>1. p[g] \in SUBSET Workers
            BY <1>3, <1>5, <3>1
      <4>2. graph'[g] = [st |-> "initializing", term |-> t, epoch |-> 1, left |-> p[g]]
            BY <1>22, <3>1
      <4>3. t \in Nat /\ 1 \in Nat
            BY <1>8
      <4> QED  BY <4>1, <4>2, <4>3 DEF GraphState
    <3>2. CASE g \in added /\ ~ok
          BY <1>8, <1>23, <3>2 DEF GraphState
    <3>3. CASE g \notin added
          BY <1>5, <1>8, <3>3 DEF TypeInv
    <3> QED  BY <3>1, <3>2, <3>3
  <2> QED  BY <1>5, <2>1
<1>13. \A g \in added : g \in Graphs /\ g[1] = d /\ g \in DOMAIN p /\ (g = m \/ g = j)
      BY <1>2, <1>3, <1>5
<1>14. ASSUME NEW w \in Workers, NEW g \in Graphs, conn[w], g[1] = d PROVE CellAfter(w, g)
  <2>1. CASE g \in added /\ ok
    <3>1. FreshCell(w, g, t, p[g], Pend(reqs'[w], g), Pend(resps'[w], g))
          BY <1>7, <1>14, <2>1
    <3>2. /\ graph'[g].st = "initializing" /\ graph'[g].term = t /\ graph'[g].epoch = 1
          /\ graph'[g].left = p[g] /\ nodes'[g] = p[g]
          BY <1>11, <1>13, <1>22, <2>1
    <3>3. JobKind(g)' # "finishing"
          BY <1>9, <1>14, <2>1 DEF JobKind
    <3> QED  BY <3>1, <3>2, <3>3 DEF FreshCell, CellAfter
  <2>2. CASE g \in added /\ ~ok
    <3>1. ResetCell(w, g, Pend(reqs'[w], g), Pend(resps'[w], g))
          BY <1>7, <1>14, <2>2
    <3>2. graph'[g].st = "resetting" /\ w \in graph'[g].left
          BY <1>14, <1>23, <2>2 DEF Connected
    <3> QED  BY <3>1, <3>2 DEF ResetCell, CellAfter
  <2>3. CASE g \notin added
    <3>1. graph'[g] = graph[g] /\ graph[g].st = "none"
          BY <1>2, <1>5, <1>14, <2>3
    <3>2. Pend(reqs'[w], g) = Pend(reqs[w], g) /\ resps' = resps
          BY <1>6, <2>3 DEF InitialStep
    <3>3. Cell(w, g) /\ CnOK(cn[w][g])
          BY <1>14 DEF RInv, StreamsOK, CnsOK
    <3> QED  BY <3>1, <3>2, <3>3, CellAbsent DEF Cell, CellWith, CellAfter
  <2> QED  BY <1>5, <2>1, <2>2, <2>3
<1>15. \A w \in Workers : ~conn[w] => reqs'[w] = <<>> /\ resps'[w] = <<>>
      BY <1>6 DEF InitialStep, RInv, StreamsOK
<1>16. ASSUME NEW w \in Workers, NEW g \in Graphs, g[1] = d, Has(Pend(reqs'[w], g), "remove")
       PROVE  g = JobOf(d) /\ job'[d] = "gone"
  <2>1. CASE g \in added
    <3>1. conn[w]
          BY <1>15, <1>16, EmptyGood DEF Has
    <3> QED  BY <1>7, <1>16, <2>1, <3>1
  <2>2. CASE g \notin added
    <3>1. g = JobOf(d) /\ job[d] = "gone"
          BY <1>6, <1>16, <2>2 DEF RInv, RemovedForGood
    <3> QED  BY <1>2, <1>5, <1>9, <2>2, <3>1
  <2> QED  BY <2>1, <2>2
<1>17. ASSUME NEW g \in Graphs, g[1] = d PROVE GraphOK(g)'
  <2>0. Connected' = Connected
        BY DEF InitialStep, Connected
  <2>1. CASE g \in added /\ ok
    <3>1. /\ graph'[g].st = "initializing" /\ graph'[g].left = p[g] /\ nodes'[g] = p[g]
          /\ p[g] \subseteq Connected
          BY <1>5, <1>11, <1>13, <1>22, <2>1
    <3> QED  BY <2>0, <3>1 DEF GraphOK
  <2>2. CASE g \in added /\ ~ok
    <3>1. graph'[g].st = "resetting" /\ graph'[g].left = Connected
          BY <1>23, <2>2
    <3> QED  BY <2>0, <3>1 DEF GraphOK
  <2>3. CASE g \notin added
    <3>1. graph'[g] = graph[g] /\ graph[g].st = "none" /\ GraphOK(g)
          BY <1>2, <1>5, <1>17, <2>3 DEF RInv, MetasOK
    <3> QED  BY <2>0, <3>1 DEF GraphOK
  <2> QED  BY <1>5, <2>1, <2>2, <2>3
<1>18. /\ \A g \in GraphsOf(d) : g \in added =>
            graph'[g].st = IF ok THEN "initializing" ELSE "resetting"
       /\ \A g \in GraphsOf(d) : g \notin added => graph'[g].st = "none"
  <2>1. \A g \in GraphsOf(d) : g \in added =>
            graph'[g].st = IF ok THEN "initializing" ELSE "resetting"
        BY <1>5, <1>22, <1>23
  <2>2. \A g \in GraphsOf(d) : g \notin added => graph'[g].st = "none"
        BY <1>2, <1>5
  <2> QED  BY <2>1, <2>2
<1>19. MetaOK(d)'
  <2>1. phase' # "boot"
        BY DEF InitialStep
  <2>2. CASE ok
    <3>1. waits'[d] = {g \in GraphsOf(d) : graph'[g].st = "initializing"}
          BY <1>3, <1>5, <1>10, <1>18, <2>2
    <3>2. \A g \in GraphsOf(d) : graph'[g].st # "running"
          BY <1>18, <2>2
    <3>3. graph'[m].st = "initializing"
          BY <1>2, <1>5, <1>18, <2>2
    <3>4. /\ job'[d] \in {"none", "gone", "running"}
          /\ job'[d] = "running" => d \in JobDatabases /\ j \in added
          /\ j \in added => job'[d] = "running"
          BY <1>3, <1>5, <1>9, <2>2
    <3>5. d \in JobDatabases => IF job'[d] = "running"
                                THEN graph'[JobOf(d)].st \in {"running", "initializing"}
                                ELSE graph'[JobOf(d)].st = "none"
          BY <1>2, <1>18, <2>2, <3>4
    <3>6. stage'[d] = "initializing"
          BY <1>10, <2>2
    <3> QED  BY <1>2, <2>1, <3>1, <3>2, <3>3, <3>4, <3>5, <3>6 DEF MetaOK
  <2>3. CASE ~ok
    <3>1. waits'[d] = {g \in GraphsOf(d) : graph'[g].st = "resetting"}
          BY <1>2, <1>10, <1>13, <1>18, <2>3
    <3>2. \A g \in GraphsOf(d) : graph'[g].st \in {"none", "resetting"}
          BY <1>18, <2>3
    <3>3. job'[d] \in {"none", "gone"} /\ stage'[d] = "resetting"
          BY <1>9, <1>10, <2>3
    <3> QED  BY <2>1, <3>1, <3>2, <3>3 DEF MetaOK
  <2> QED  BY <1>5, <2>2, <2>3
<1>20. DbStep(d)
  <2>1. /\ conn' = conn /\ cn' = cn /\ batches' = batches /\ xreq' = xreq /\ resps' = resps
        /\ phase' = phase \/ (phase = "injecting" /\ phase' = "global")
        /\ lastTerm' \in Nat /\ panic' \in BOOLEAN
        BY <1>1, <1>8 DEF InitialStep, RInv, TypeInv
  <2>2. \A g \in Graphs : g[1] # d => g \notin added /\ g \notin DOMAIN p
        BY <1>2, <1>3, <1>13
  <2>3. \A g \in Graphs : g[1] # d => graph'[g] = graph[g] /\ nodes'[g] = nodes[g]
        BY <1>5, <1>11, <2>2
  <2>4. /\ DOMAIN reqs' = Workers /\ DOMAIN resps' = Workers
        /\ \A w \in Workers : Good(reqs'[w]) /\ Good(resps'[w])
        BY <1>6, <2>1 DEF QueuesOK, RInv, TypeInv, StreamsOK
  <2>5. \A w \in Workers, g \in Graphs :
          g[1] # d => /\ Pend(reqs'[w], g) = Pend(reqs[w], g)
                      /\ Pend(resps'[w], g) = Pend(resps[w], g)
        BY <1>6, <2>1, <2>2
  <2> QED  BY <1>9, <1>10, <1>11, <1>12, <1>14, <1>15, <1>16, <1>17, <1>19,
              <2>1, <2>3, <2>4, <2>5 DEF DbStep
<1>21. panic' => panic
      BY <1>5 DEF InitialStep
<1> QED  BY <1>20, <1>21, DbStepKeeps

\* A step that changes the stages of databases and nothing else of them.
LEMMA QuietKeeps ==
  ASSUME RInv,
         UNCHANGED <<waits, job, graph, nodes, lastTerm, conn, reqs, resps, cn, batches, xreq,
                     panic>>,
         stage' \in [Databases -> Stages],
         phase' \in {"boot", "injecting", "global", "running"},
         \A d \in Databases : MetaOK(d)'
  PROVE  RInv' /\ (panic' => panic)
<1>1. TypeInv'
      BY DEF RInv, TypeInv
<1>2. StreamsOK'
  <2>1. ASSUME NEW w \in Workers, NEW g \in Graphs PROVE Cell(w, g)' <=> Cell(w, g)
        BY DEF Cell, CellWith, JobKind
  <2> QED  BY <2>1 DEF RInv, StreamsOK
<1>3. RemovedForGood'
      BY DEF RInv, RemovedForGood
<1>4. CnsOK'
      BY DEF RInv, CnsOK, BatchOK
<1>5. \A g \in Graphs : GraphOK(g)'
      BY DEF RInv, MetasOK, GraphOK, Connected
<1> QED  BY <1>1, <1>2, <1>3, <1>4, <1>5 DEF RInv, MetasOK

\* FailReload and BackoffPasses.
LEMMA BackoffKeeps ==
  ASSUME RInv, NEW d \in Databases, FailReload(d) \/ BackoffPasses(d)
  PROVE  RInv' /\ (panic' => panic)
<1>1. UNCHANGED <<phase, stage, waits, job, graph, nodes, lastTerm, conn, reqs, resps, cn,
                  batches, xreq, panic>>
      BY DEF FailReload, BackoffPasses, cnVars, xVars
<1>2. ASSUME NEW e \in Databases PROVE MetaOK(e)'
      BY <1>1, SameDatabase DEF RInv, MetasOK
<1>3. stage' \in [Databases -> Stages] /\ phase' \in {"boot", "injecting", "global", "running"}
      BY <1>1 DEF RInv, TypeInv
<1> QED  BY <1>1, <1>2, <1>3, QuietKeeps

\* The stage of one database changes.
LEMMA StageKeeps ==
  ASSUME RInv, NEW d \in Databases, NEW x \in Stages, stage' = [stage EXCEPT ![d] = x],
         UNCHANGED <<waits, job, graph, nodes, lastTerm, conn, reqs, resps, cn, batches, xreq,
                     panic>>,
         phase' = phase \/ (phase = "injecting" /\ phase' = "global"),
         MetaOK(d)'
  PROVE  RInv' /\ (panic' => panic)
<1>1. /\ stage' \in [Databases -> Stages] /\ phase' \in {"boot", "injecting", "global", "running"}
      /\ \A e \in Databases : e # d => stage'[e] = stage[e]
      BY DEF RInv, TypeInv
<1>2. ASSUME NEW e \in Databases, e # d PROVE MetaOK(e)'
      BY <1>1, <1>2, SameDatabase DEF RInv, MetasOK
<1> QED  BY <1>1, <1>2, QuietKeeps

\* RemoveDatabase and EnterRunning.
LEMMA RemoveDatabaseKeeps ==
  ASSUME RInv, NEW d \in Databases, RemoveDatabase(d)
  PROVE  RInv' /\ (panic' => panic)
<1>1. /\ phase = "running" /\ stage[d] = "resetting" /\ waits[d] = {}
      /\ stage' = [stage EXCEPT ![d] = "absent"]
      /\ UNCHANGED <<phase, waits, job, graph, nodes, lastTerm, conn, reqs, resps, cn, batches,
                     xreq, panic>>
      BY DEF RemoveDatabase, cnVars, xVars
<1>2. MetaOK(d) /\ stage'[d] = "absent"
      BY <1>1 DEF RInv, MetasOK, TypeInv
<1>3. \A g \in GraphsOf(d) : graph[g].st = "none"
      BY <1>1, <1>2 DEF MetaOK
<1>4. job[d] \in {"none", "gone"}
      BY <1>1, <1>2 DEF MetaOK
<1>5. MetaOK(d)'
      BY <1>1, <1>2, <1>3, <1>4 DEF MetaOK
<1>6. "absent" \in Stages
      BY DEF Stages
<1> QED  BY <1>1, <1>5, <1>6, StageKeeps

LEMMA EnterRunningKeeps ==
  ASSUME RInv, NEW d \in Databases, EnterRunning(d)
  PROVE  RInv' /\ (panic' => panic)
<1>1. /\ phase = "running" /\ stage[d] = "initializing" /\ waits[d] = {}
      /\ stage' = [stage EXCEPT ![d] = "running"]
      /\ UNCHANGED <<phase, waits, job, graph, nodes, lastTerm, conn, reqs, resps, cn, batches,
                     xreq, panic>>
      BY DEF EnterRunning, cnVars, xVars
<1>2. MetaOK(d) /\ stage'[d] = "running"
      BY <1>1 DEF RInv, MetasOK, TypeInv
<1>3. \A g \in GraphsOf(d) : graph[g].st # "initializing"
      BY <1>1, <1>2 DEF MetaOK
<1>4. Main(d) \in GraphsOf(d) /\ (d \in JobDatabases => JobOf(d) \in GraphsOf(d))
      BY DatabaseFacts
<1>5. /\ graph[Main(d)].st = "running" /\ job[d] \in {"none", "gone", "running"}
      /\ job[d] = "running" => d \in JobDatabases
      /\ d \in JobDatabases => IF job[d] = "running" THEN graph[JobOf(d)].st = "running"
                               ELSE graph[JobOf(d)].st = "none"
      BY <1>1, <1>2, <1>3, <1>4 DEF MetaOK
<1>6. MetaOK(d)'
      BY <1>1, <1>2, <1>5 DEF MetaOK
<1>7. "running" \in Stages
      BY DEF Stages
<1> QED  BY <1>1, <1>6, <1>7, StageKeeps

\* GlobalDone: every database has its initial barriers collected, or recovers.
LEMMA GlobalDoneKeeps ==
  ASSUME RInv, GlobalDone
  PROVE  RInv' /\ (panic' => panic)
<1>1. /\ phase = "global" /\ phase' = "running"
      /\ UNCHANGED <<stage, waits, job, graph, nodes, lastTerm, conn, reqs, resps, cn,
                     batches, xreq, panic>>
      BY DEF GlobalDone, cnVars, xVars
<1>2. ASSUME NEW e \in Databases PROVE MetaOK(e)'
      BY <1>1, SameDatabase DEF RInv, MetasOK
<1>3. stage' \in [Databases -> Stages]
      BY <1>1 DEF RInv, TypeInv
<1> QED  BY <1>1, <1>2, <1>3, QuietKeeps

\* EnterInitializing and FailInitializing: the initial barriers of a database.
LEMMA EnterInitializingKeeps ==
  ASSUME RInv, NEW d \in Databases, EnterInitializing(d)
  PROVE  RInv' /\ (panic' => panic)
<1>1. phase = "running" /\ stage[d] = "resetting" /\ waits[d] = {}
      BY DEF EnterInitializing
<1>2. MetaOK(d)
      BY DEF RInv, MetasOK
<1>3. \A g \in GraphsOf(d) : graph[g].st = "none"
      BY <1>1, <1>2 DEF MetaOK
<1>4. PICK p, s :
        /\ p \in Placements(d)
        /\ s = InjectDatabaseInitialBarrier(
                 [graph |-> graph, reqs |-> reqs, added |-> {}, bad |-> FALSE],
                 Connected, d, lastTerm + 1, p, FALSE)
        /\ s.ok
        /\ graph' = s.graph /\ reqs' = s.reqs
        /\ panic' = (panic \/ s.bad)
        /\ nodes' = Placed(p)
        /\ waits' = [waits EXCEPT ![d] = s.added]
        /\ job' = [job EXCEPT ![d] = JobAfter(d, p)]
      BY Zenon DEF EnterInitializing
<1>5. PICK t \in Nat : t = lastTerm + 1
      BY DEF RInv, TypeInv
<1>6. InitialOK(d, p, lastTerm + 1, s)
      BY <1>3, <1>4, <1>5, InitialBarriers
<1>7. InitialStep(d, p, s)
  <2>1. /\ stage' = [stage EXCEPT ![d] = "initializing"] /\ lastTerm' = lastTerm + 1
        /\ phase' = phase /\ conn' = conn /\ cn' = cn /\ batches' = batches /\ xreq' = xreq
        /\ resps' = resps
        BY DEF EnterInitializing, cnVars, xVars
  <2> QED  BY <1>1, <1>4, <2>1 DEF InitialStep
<1> QED  BY <1>1, <1>3, <1>4, <1>6, <1>7, InitialKeeps

LEMMA FailInitializingKeeps ==
  ASSUME RInv, NEW d \in Databases, FailInitializing(d)
  PROVE  RInv' /\ (panic' => panic)
<1>1. phase = "running" /\ stage[d] = "resetting" /\ waits[d] = {}
      BY DEF FailInitializing
<1>2. MetaOK(d)
      BY DEF RInv, MetasOK
<1>3. \A g \in GraphsOf(d) : graph[g].st = "none"
      BY <1>1, <1>2 DEF MetaOK
<1>4. PICK p, early, s :
        /\ p \in Placements(d) /\ early \in BOOLEAN
        /\ s = InjectDatabaseInitialBarrier(
                 [graph |-> graph, reqs |-> reqs, added |-> {}, bad |-> FALSE],
                 Connected, d, lastTerm + 1, p, early)
        /\ ~s.ok
        /\ graph' = s.graph /\ reqs' = s.reqs
        /\ panic' = (panic \/ s.bad)
        /\ waits' = [waits EXCEPT ![d] = s.added]
      BY Zenon DEF FailInitializing
<1>5. PICK t \in Nat : t = lastTerm + 1
      BY DEF RInv, TypeInv
<1>6. InitialOK(d, p, lastTerm + 1, s)
      BY <1>3, <1>4, <1>5, InitialBarriers
<1>7. InitialStep(d, p, s)
  <2>1. /\ stage' = stage /\ lastTerm' = lastTerm + 1 /\ nodes' = nodes /\ job' = job
        /\ phase' = phase /\ conn' = conn /\ cn' = cn /\ batches' = batches /\ xreq' = xreq
        /\ resps' = resps
        BY DEF FailInitializing, cnVars, xVars
  <2>2. stage' = [stage EXCEPT ![d] = "resetting"]
        BY <1>1, <2>1 DEF RInv, TypeInv
  <2> QED  BY <1>1, <1>4, <2>1, <2>2 DEF InitialStep
<1> QED  BY <1>1, <1>3, <1>4, <1>6, <1>7, InitialKeeps

\* GlobalInject: global recovery comes to a database.
LEMMA GlobalInjectKeeps ==
  ASSUME RInv, NEW d \in Databases, GlobalInject(d)
  PROVE  RInv' /\ (panic' => panic)
<1>1. phase = "injecting" /\ stage[d] = "pending"
      BY DEF GlobalInject
<1>2. MetaOK(d)
      BY DEF RInv, MetasOK
<1>3. /\ \A g \in GraphsOf(d) : graph[g].st = "none"
      /\ waits[d] = {} /\ job[d] \in {"none", "gone"}
      BY <1>1, <1>2 DEF MetaOK
<1>4. /\ conn' = conn /\ cn' = cn /\ batches' = batches /\ xreq' = xreq /\ resps' = resps
      /\ phase' = phase \/ (phase = "injecting" /\ phase' = "global")
      BY <1>1 DEF GlobalInject, cnVars, xVars
<1>5. CASE \E p \in Placements(d), early \in BOOLEAN :
             LET s == InjectDatabaseInitialBarrier(
                        [graph |-> graph, reqs |-> reqs, added |-> {}, bad |-> FALSE],
                        Connected, d, lastTerm + 1, p, early)
             IN /\ graph' = s.graph /\ reqs' = s.reqs
                /\ panic' = (panic \/ s.bad)
                /\ waits' = [waits EXCEPT ![d] = s.added]
                /\ stage' = [stage EXCEPT ![d] = IF s.ok THEN "initializing" ELSE "resetting"]
                /\ nodes' = IF s.ok THEN Placed(p) ELSE nodes
                /\ job' = IF s.ok THEN [job EXCEPT ![d] = JobAfter(d, p)] ELSE job
                /\ lastTerm' = lastTerm + 1
  <2>1. PICK p, early, s :
          /\ p \in Placements(d) /\ early \in BOOLEAN
          /\ s = InjectDatabaseInitialBarrier(
                   [graph |-> graph, reqs |-> reqs, added |-> {}, bad |-> FALSE],
                   Connected, d, lastTerm + 1, p, early)
          /\ graph' = s.graph /\ reqs' = s.reqs
          /\ panic' = (panic \/ s.bad)
          /\ waits' = [waits EXCEPT ![d] = s.added]
          /\ stage' = [stage EXCEPT ![d] = IF s.ok THEN "initializing" ELSE "resetting"]
          /\ nodes' = IF s.ok THEN Placed(p) ELSE nodes
          /\ job' = IF s.ok THEN [job EXCEPT ![d] = JobAfter(d, p)] ELSE job
          /\ lastTerm' = lastTerm + 1
        BY <1>5, Zenon
  <2>2. PICK t \in Nat : t = lastTerm + 1
        BY DEF RInv, TypeInv
  <2>3. InitialOK(d, p, lastTerm + 1, s)
        BY <1>3, <2>1, <2>2, InitialBarriers
  <2>4. InitialStep(d, p, s)
        BY <1>1, <1>4, <2>1, Zenon DEF InitialStep
  <2> QED  BY <1>1, <1>3, <2>1, <2>3, <2>4, InitialKeeps
<1>6. CASE /\ \E st \in {"resetting", "absent"} : stage' = [stage EXCEPT ![d] = st]
           /\ UNCHANGED <<graph, reqs, panic, waits, nodes, job, lastTerm>>
  <2>1. PICK x \in {"resetting", "absent"} : stage' = [stage EXCEPT ![d] = x]
        BY <1>6
  <2>2. x \in Stages /\ stage'[d] = x
        BY <2>1 DEF Stages, RInv, TypeInv
  <2>3. {g \in GraphsOf(d) : graph'[g].st = "resetting"} = {}
        BY <1>3, <1>6
  <2>4. MetaOK(d)'
        BY <1>1, <1>3, <1>4, <1>6, <2>1, <2>2, <2>3 DEF MetaOK
  <2> QED  BY <1>4, <1>6, <2>1, <2>2, <2>4, StageKeeps
<1> QED  BY <1>5, <1>6 DEF GlobalInject

\* GlobalRecover: new control streams, and no graph is left.
LEMMA GlobalRecoverKeeps ==
  ASSUME RInv, GlobalRecover
  PROVE  RInv' /\ (panic' => panic)
<1>1. PICK C \in SUBSET Workers :
        /\ conn' = [w \in Workers |-> w \in C]
        /\ cn' = [w \in Workers |->
                    IF w \in C THEN [g \in Graphs |-> NoState] ELSE cn[w]]
        /\ batches' = [w \in Workers |-> IF w \in C THEN {} ELSE batches[w]]
      BY DEF GlobalRecover
<1>2. /\ graph' = [g \in Graphs |-> NoGraph] /\ nodes' = [g \in Graphs |-> {}]
      /\ reqs' = [w \in Workers |-> <<>>] /\ resps' = [w \in Workers |-> <<>>]
      /\ phase' \in {"global", "injecting"}
      /\ stage' = [d \in Databases |-> "pending"] /\ waits' = [d \in Databases |-> {}]
      /\ job' = [d \in Databases |-> JobLost(d)]
      /\ lastTerm' = lastTerm /\ xreq' = xreq /\ panic' = panic
      BY DEF GlobalRecover, xVars
<1>3. /\ NoGraph \in GraphState /\ NoGraph.st = "none" /\ NoGraph.left = {}
      BY DEF NoGraph, GraphState
<1>4. /\ \A w \in Workers : reqs'[w] = <<>> /\ resps'[w] = <<>>
      /\ \A w \in Workers, g \in Graphs : Pend(reqs'[w], g) = {} /\ Pend(resps'[w], g) = {}
      BY <1>2, EmptyGood
<1>5. \A d \in Databases : JobLost(d) \in {"none", "gone"} /\ job'[d] = JobLost(d)
      BY <1>2 DEF JobLost
<1>6. TypeInv'
  <2>1. job' \in [Databases -> JobStates]
        BY <1>2, <1>5 DEF JobStates
  <2>2. /\ stage' \in [Databases -> Stages] /\ waits' \in [Databases -> SUBSET Graphs]
        /\ graph' \in [Graphs -> GraphState] /\ nodes' \in [Graphs -> SUBSET Workers]
        BY <1>2, <1>3 DEF Stages
  <2>3. /\ conn' \in [Workers -> BOOLEAN]
        /\ DOMAIN cn' = Workers /\ \A w \in Workers : DOMAIN cn'[w] = Graphs
        /\ batches' \in [Workers -> SUBSET SUBSET Graphs]
        BY <1>1 DEF RInv, TypeInv
  <2> QED  BY <1>2, <2>1, <2>2, <2>3 DEF RInv, TypeInv
<1>7. StreamsOK'
  <2> SUFFICES ASSUME NEW w \in Workers
               PROVE  /\ Good(reqs'[w]) /\ Good(resps'[w])
                      /\ conn'[w] => \A g \in Graphs : Cell(w, g)'
                      /\ ~conn'[w] => reqs'[w] = <<>> /\ resps'[w] = <<>>
        BY DEF StreamsOK
  <2>1. ASSUME conn'[w], NEW g \in Graphs PROVE Cell(w, g)'
    <3>1. cn'[w][g] = NoState
          BY <1>1, <2>1
    <3>2. graph'[g].st = "none"
          BY <1>2, <1>3
    <3>3. CellOK(w, graph'[g], nodes'[g], JobKind(g)', cn'[w][g], {}, {})
          BY <3>1, <3>2, NoStateFields, CellFresh
    <3> QED  BY <1>4, <3>3 DEF Cell, CellWith
  <2> QED  BY <1>4, <2>1, EmptyGood
<1>8. RemovedForGood'
      BY <1>4 DEF RemovedForGood, Has
<1>9. CnsOK'
  <2> SUFFICES ASSUME NEW w \in Workers, NEW g \in Graphs
               PROVE  CnOK(cn'[w][g]) /\ BatchOK(w, g)'
        BY DEF CnsOK
  <2>1. CASE w \in C
    <3>1. cn'[w][g] = NoState /\ batches'[w] = {}
          BY <1>1, <2>1
    <3> QED  BY <3>1, NoStateFields DEF BatchOK
  <2>2. CASE w \notin C
    <3>1. cn'[w] = cn[w] /\ batches'[w] = batches[w]
          BY <1>1, <2>2
    <3> QED  BY <3>1 DEF BatchOK, RInv, CnsOK
  <2> QED  BY <2>1, <2>2
<1>10. \A g \in Graphs : GraphOK(g)'
      BY <1>2, <1>3 DEF GraphOK
<1>11. ASSUME NEW d \in Databases PROVE MetaOK(d)'
  <2>1. \A g \in GraphsOf(d) : graph'[g].st = "none"
        BY <1>2, <1>3, DatabaseFacts
  <2>2. stage'[d] = "pending" /\ waits'[d] = {}
        BY <1>2
  <2> QED  BY <1>2, <1>5, <2>1, <2>2 DEF MetaOK
<1> QED  BY <1>2, <1>6, <1>7, <1>8, <1>9, <1>10, <1>11 DEF RInv, MetasOK

\* The graphs that a worker is told of when it connects.
LEMMA ToldGood ==
  ASSUME RInv, NEW q,
         q = SetToSeq({CreateGraph(g, graph[g].term) :
                         g \in {h \in Graphs : graph[h].st \in {"running", "initializing"}}})
  PROVE  /\ Good(q)
         /\ \A g \in Graphs :
              Pend(q, g) = IF graph[g].st \in {"running", "initializing"}
                           THEN {CreateGraph(g, graph[g].term)} ELSE {}
<1> DEFINE E == {h \in Graphs : graph[h].st \in {"running", "initializing"}}
           S == {CreateGraph(g, graph[g].term) : g \in E}
<1>1. IsFiniteSet(S)
  <2>1. IsFiniteSet(E)
        BY FiniteGraphs, FS_Subset
  <2> DEFINE f == [g \in E |-> CreateGraph(g, graph[g].term)]
  <2>2. f \in Surjection(E, S)
        BY DEF Surjection
  <2> QED  BY <2>1, <2>2, FS_Surjection
<1>2. ASSUME NEW g \in Graphs
      PROVE  /\ CreateGraph(g, graph[g].term) \in Messages
             /\ About(CreateGraph(g, graph[g].term)) = {g}
  <2>1. graph[g].term \in Nat
        BY DEF RInv, TypeInv, GraphState
  <2> QED  BY <2>1 DEF CreateGraph, Messages, About
<1>3. S \subseteq Messages /\ \A x, y \in S : \A g \in About(x) : g \in About(y) => x = y
      BY <1>2
<1>4. Good(SetToSeq(S)) /\ \A g : Pend(SetToSeq(S), g) = {m \in S : g \in About(m)}
      BY <1>1, <1>3, ListGood
<1>5. ASSUME NEW g \in Graphs
      PROVE  {m \in S : g \in About(m)} = IF g \in E THEN {CreateGraph(g, graph[g].term)} ELSE {}
      BY <1>2
<1> QED  BY <1>4, <1>5

\* Reconnect: a worker's new control stream.
LEMMA ReconnectKeeps ==
  ASSUME RInv, NEW w \in Workers, Reconnect(w)
  PROVE  RInv' /\ (panic' => panic)
<1>0. PICK q : q = SetToSeq({CreateGraph(g, graph[g].term) :
                         g \in {h \in Graphs : graph[h].st \in {"running", "initializing"}}})
      OBVIOUS
<1>1. /\ ~conn[w] /\ conn' = [conn EXCEPT ![w] = TRUE]
      /\ cn' = [cn EXCEPT ![w] = [g \in Graphs |-> NoState]]
      /\ batches' = [batches EXCEPT ![w] = {}]
      /\ reqs' = [reqs EXCEPT ![w] = q]
      /\ resps' = resps /\ xreq' = xreq /\ panic' = panic
      BY <1>0 DEF Reconnect, xVars
<1>2. /\ phase' = phase /\ stage' = stage /\ waits' = waits /\ job' = job /\ graph' = graph
      /\ nodes' = nodes /\ lastTerm' = lastTerm
      BY DEF Reconnect, metaVars
<1>3. /\ Good(q)
      /\ \A g \in Graphs :
           Pend(q, g) = IF graph[g].st \in {"running", "initializing"}
                        THEN {CreateGraph(g, graph[g].term)} ELSE {}
      BY <1>0, ToldGood
<1>4. TypeInv'
      BY <1>1, <1>2 DEF RInv, TypeInv
<1>5. /\ conn'[w] = TRUE /\ reqs'[w] = q /\ resps'[w] = <<>>
      /\ \A g \in Graphs : cn'[w][g] = NoState
      /\ batches'[w] = {}
      /\ \A v \in Workers : v # w => /\ conn'[v] = conn[v] /\ reqs'[v] = reqs[v]
                                     /\ resps'[v] = resps[v] /\ cn'[v] = cn[v]
                                     /\ batches'[v] = batches[v]
      BY <1>1 DEF RInv, TypeInv, StreamsOK
<1>6. StreamsOK'
  <2> SUFFICES ASSUME NEW v \in Workers
               PROVE  /\ Good(reqs'[v]) /\ Good(resps'[v])
                      /\ conn'[v] => \A g \in Graphs : Cell(v, g)'
                      /\ ~conn'[v] => reqs'[v] = <<>> /\ resps'[v] = <<>>
        BY DEF StreamsOK
  <2>1. CASE v = w
    <3>1. ASSUME NEW g \in Graphs PROVE Cell(w, g)'
      <4>1. Pend(resps'[w], g) = {} /\ cn'[w][g] = NoState /\ graph'[g] = graph[g]
            BY <1>2, <1>5, EmptyGood
      <4>2. GraphOK(g) /\ w \notin Connected /\ graph[g] \in GraphState
            BY <1>1 DEF RInv, MetasOK, Connected, TypeInv
      <4>3. CASE graph[g].st \in {"running", "initializing"}
        <5>1. PICK m : m = CreateGraph(g, graph[g].term)
              OBVIOUS
        <5>2. m.type = "create" /\ m.term = graph[g].term /\ Pend(reqs'[w], g) = {m}
              BY <1>3, <1>5, <4>3, <5>1 DEF CreateGraph
        <5>3. CellOK(w, graph[g], nodes'[g], JobKind(g)', NoState, {m}, {})
              BY <4>3, <5>2, NoStateFields, CellToldAgain
        <5> QED  BY <4>1, <5>2, <5>3 DEF Cell, CellWith
      <4>4. CASE graph[g].st \in {"none", "resetting"}
        <5>1. w \notin graph[g].left
              BY <4>2 DEF GraphOK
        <5>2. Pend(reqs'[w], g) = {}
              BY <1>3, <1>5, <4>4
        <5>3. CellOK(w, graph[g], nodes'[g], JobKind(g)', NoState, {}, {})
              BY <4>4, <5>1, NoStateFields, CellFresh
        <5> QED  BY <4>1, <5>2, <5>3 DEF Cell, CellWith
      <4> QED  BY <4>2, <4>3, <4>4 DEF GraphState
    <3> QED  BY <1>3, <1>5, <2>1, <3>1, EmptyGood
  <2>2. CASE v # w
    <3>1. \A g \in Graphs : Cell(v, g)' <=> Cell(v, g)
          BY <1>2, <1>5, <2>2 DEF Cell, CellWith, JobKind
    <3> QED  BY <1>5, <2>2, <3>1 DEF RInv, StreamsOK
  <2> QED  BY <2>1, <2>2
<1>7. RemovedForGood'
  <2> SUFFICES ASSUME NEW v \in Workers, NEW g \in Graphs, Has(Pend(reqs'[v], g), "remove")
               PROVE  g = JobOf(g[1]) /\ job[g[1]] = "gone"
        BY <1>2 DEF RemovedForGood
  <2>1. v # w
    <3>1. CreateGraph(g, graph[g].term).type = "create"
          BY DEF CreateGraph
    <3> QED  BY <1>3, <1>5, <3>1 DEF Has
  <2> QED  BY <1>5, <2>1 DEF RInv, RemovedForGood
<1>8. CnsOK'
  <2> SUFFICES ASSUME NEW v \in Workers, NEW g \in Graphs
               PROVE  CnOK(cn'[v][g]) /\ BatchOK(v, g)'
        BY DEF CnsOK
  <2>1. CASE v = w
        BY <1>5, <2>1, NoStateFields DEF BatchOK
  <2>2. CASE v # w
        BY <1>5, <2>2 DEF BatchOK, RInv, CnsOK
  <2> QED  BY <2>1, <2>2
<1>9. MetasOK'
  <2>1. Connected \subseteq Connected'
        BY <1>5 DEF Connected
  <2>2. \A g \in Graphs : GraphOK(g)'
        BY <1>2, <2>1 DEF RInv, MetasOK, GraphOK
  <2>3. ASSUME NEW d \in Databases PROVE MetaOK(d)'
        BY <1>2, SameDatabase DEF RInv, MetasOK
  <2> QED  BY <2>2, <2>3 DEF MetasOK
<1> QED  BY <1>1, <1>4, <1>6, <1>7, <1>8, <1>9 DEF RInv

\* A step of the meta node that concerns graph g and keeps the invariant of it.
GraphStep(g) ==
  /\ conn' = conn /\ cn' = cn /\ batches' = batches /\ xreq' = xreq /\ phase' = phase
  /\ stage' \in [Databases -> Stages] /\ waits' \in [Databases -> SUBSET Graphs]
  /\ job' \in [Databases -> JobStates] /\ graph' \in [Graphs -> GraphState]
  /\ nodes' \in [Graphs -> SUBSET Workers] /\ lastTerm' \in Nat /\ panic' \in BOOLEAN
  /\ DOMAIN reqs' = Workers /\ DOMAIN resps' = Workers
  /\ \A e \in Databases :
       e # g[1] => stage'[e] = stage[e] /\ waits'[e] = waits[e] /\ job'[e] = job[e]
  /\ job[g[1]] = "gone" => job'[g[1]] = "gone"
  /\ \A h \in Graphs : h # g => /\ graph'[h] = graph[h] /\ nodes'[h] = nodes[h]
                                /\ JobKind(h)' = "finishing" <=> JobKind(h) = "finishing"
  /\ \A w \in Workers : Good(reqs'[w]) /\ Good(resps'[w])
  /\ \A w \in Workers : ~conn[w] => reqs'[w] = <<>> /\ resps'[w] = <<>>
  /\ \A w \in Workers, h \in Graphs :
       h # g => /\ Pend(reqs'[w], h) = Pend(reqs[w], h)
                /\ Pend(resps'[w], h) = Pend(resps[w], h)
  /\ \A w \in Workers : conn[w] => CellAfter(w, g)
  /\ \A w \in Workers :
       conn[w] /\ Has(Pend(reqs'[w], g), "remove") => g = JobOf(g[1]) /\ job'[g[1]] = "gone"
  /\ GraphOK(g)' /\ MetaOK(g[1])'

LEMMA GraphStepKeeps ==
  ASSUME RInv, NEW g \in Graphs, GraphStep(g)
  PROVE  RInv'
<1>1. PICK d \in Databases : d = g[1]
      BY GraphFacts
<1>2. ASSUME NEW w \in Workers, NEW h \in Graphs, conn[w], h[1] = d PROVE CellAfter(w, h)
  <2>1. CASE h = g
        BY <1>2, <2>1 DEF GraphStep
  <2>2. CASE h # g
    <3>1. /\ graph'[h] = graph[h] /\ nodes'[h] = nodes[h]
          /\ JobKind(h)' = "finishing" <=> JobKind(h) = "finishing"
          /\ Pend(reqs'[w], h) = Pend(reqs[w], h) /\ Pend(resps'[w], h) = Pend(resps[w], h)
          BY <2>2 DEF GraphStep
    <3>2. CellOK(w, graph[h], nodes[h], JobKind(h), cn[w][h], Pend(reqs[w], h), Pend(resps[w], h))
          BY <1>2 DEF RInv, StreamsOK, Cell, CellWith
    <3>3. CnOK(cn[w][h])
          BY DEF RInv, CnsOK
    <3>4. CellOK(w, graph[h], nodes[h], JobKind(h)', cn[w][h], Pend(reqs[w], h), Pend(resps[w], h))
          BY <3>1, <3>2, <3>3, CellSame
    <3> QED  BY <3>1, <3>4 DEF CellAfter
  <2> QED  BY <2>1, <2>2
<1>3. ASSUME NEW w \in Workers, NEW h \in Graphs, h[1] = d, Has(Pend(reqs'[w], h), "remove")
      PROVE  h = JobOf(d) /\ job'[d] = "gone"
  <2>0. conn[w]
        BY <1>3, EmptyGood DEF GraphStep, Has
  <2>1. CASE h = g
        BY <1>1, <1>3, <2>0, <2>1 DEF GraphStep
  <2>2. CASE h # g
    <3>1. Pend(reqs'[w], h) = Pend(reqs[w], h)
          BY <2>2 DEF GraphStep
    <3>2. h = JobOf(d) /\ job[d] = "gone"
          BY <1>3, <3>1 DEF RInv, RemovedForGood
    <3> QED  BY <1>1, <3>2 DEF GraphStep
  <2> QED  BY <2>1, <2>2
<1>4. ASSUME NEW h \in Graphs, h[1] = d PROVE GraphOK(h)'
  <2>1. CASE h = g
        BY <2>1 DEF GraphStep
  <2>2. CASE h # g
        BY <2>2 DEF GraphStep, GraphOK, Connected, RInv, MetasOK
  <2> QED  BY <2>1, <2>2
<1>5. MetaOK(d)'
      BY <1>1 DEF GraphStep
<1>6. \A h \in Graphs : h[1] # d => h # g
      BY <1>1
<1>7. DbStep(d)
  <2>1. /\ conn' = conn /\ cn' = cn /\ batches' = batches /\ xreq' = xreq /\ phase' = phase
        /\ stage' \in [Databases -> Stages] /\ waits' \in [Databases -> SUBSET Graphs]
        /\ job' \in [Databases -> JobStates] /\ graph' \in [Graphs -> GraphState]
        /\ nodes' \in [Graphs -> SUBSET Workers] /\ lastTerm' \in Nat /\ panic' \in BOOLEAN
        /\ DOMAIN reqs' = Workers /\ DOMAIN resps' = Workers
        /\ \A w \in Workers : Good(reqs'[w]) /\ Good(resps'[w])
        /\ \A w \in Workers : ~conn[w] => reqs'[w] = <<>> /\ resps'[w] = <<>>
        BY DEF GraphStep
  <2>2. \A e \in Databases :
          e # d => stage'[e] = stage[e] /\ waits'[e] = waits[e] /\ job'[e] = job[e]
        BY <1>1 DEF GraphStep
  <2>3. \A h \in Graphs : h[1] # d => graph'[h] = graph[h] /\ nodes'[h] = nodes[h]
        BY <1>6 DEF GraphStep
  <2>4. \A w \in Workers, h \in Graphs :
          h[1] # d => /\ Pend(reqs'[w], h) = Pend(reqs[w], h)
                      /\ Pend(resps'[w], h) = Pend(resps[w], h)
        BY <1>6 DEF GraphStep
  <2> QED  BY <1>2, <1>3, <1>4, <1>5, <2>1, <2>2, <2>3, <2>4 DEF DbStep
<1> QED  BY <1>7, DbStepKeeps

\* Graph g becomes x at the meta node.
GraphPut(g, x) ==
  /\ graph' \in [Graphs -> GraphState] /\ graph'[g] = x
  /\ \A h \in Graphs : h # g => graph'[h] = graph[h]

LEMMA PutGraph ==
  ASSUME RInv, NEW g \in Graphs, NEW x \in GraphState, graph' = [graph EXCEPT ![g] = x]
  PROVE  GraphPut(g, x)
BY DEF RInv, TypeInv, GraphPut

\* The queues as they are.
LEMMA QueuesNow ==
  ASSUME RInv
  PROVE  /\ QueuesOK(reqs) /\ QueuesOK(resps)
         /\ \A w \in Workers : ~conn[w] => reqs[w] = <<>> /\ resps[w] = <<>>
         /\ \A w \in Workers : w \in Connected <=> conn[w]
         /\ Connected \subseteq Workers
BY DEF RInv, TypeInv, StreamsOK, QueuesOK, Connected

\* The graph of a new database or job is started, on workers that are connected.
LEMMA AddedKeeps ==
  ASSUME RInv, NEW g \in Graphs, graph[g].st = "none", g = JobOf(g[1]) => job[g[1]] = "none",
         NEW t \in Nat, NEW N \in SUBSET Workers, N \subseteq Connected, NEW x,
         x = [st |-> "running", term |-> t, epoch |-> 1, left |-> N], GraphPut(g, x),
         reqs' = Started(reqs, Connected, g, t, N, FALSE),
         nodes' = [nodes EXCEPT ![g] = N],
         conn' = conn, cn' = cn, batches' = batches, xreq' = xreq, phase' = phase,
         resps' = resps, panic' \in BOOLEAN, lastTerm' \in Nat, waits' = waits,
         stage' \in [Databases -> Stages], job' \in [Databases -> JobStates],
         \A e \in Databases : e # g[1] => stage'[e] = stage[e] /\ job'[e] = job[e],
         job'[g[1]] = IF g = JobOf(g[1]) THEN "running" ELSE job[g[1]],
         g # JobOf(g[1]) => job[g[1]] \in {"none", "gone"},
         MetaOK(g[1])'
  PROVE  RInv'
<1>1. /\ QueuesOK(reqs) /\ QueuesOK(resps)
      /\ \A w \in Workers : ~conn[w] => reqs[w] = <<>> /\ resps[w] = <<>>
      /\ \A w \in Workers : w \in Connected <=> conn[w]
      BY QueuesNow
<1>2. /\ StartedOK(reqs, reqs', Connected, g, t, N)
      /\ \A w \in Workers :
           conn[w] => FreshCell(w, g, t, N, Pend(reqs'[w], g), Pend(resps[w], g))
  <2>1. PICK r : r = reqs'
        OBVIOUS
  <2>2. /\ StartedOK(reqs, r, Connected, g, t, N)
        /\ \A w \in Workers :
             conn[w] => FreshCell(w, g, t, N, Pend(r[w], g), Pend(resps[w], g))
        BY <1>1, <2>1, StartCells
  <2> QED  BY <2>1, <2>2
<1>3. /\ QueuesOK(reqs')
      /\ \A w \in Workers : ~conn[w] => reqs'[w] = <<>> /\ resps'[w] = <<>>
      /\ \A w \in Workers, h \in Graphs : h # g => Pend(reqs'[w], h) = Pend(reqs[w], h)
      BY <1>1, <1>2 DEF StartedOK
<1>4. /\ x.st = "running" /\ x.term = t /\ x.epoch = 1 /\ x.left = N /\ graph'[g] = x
      BY DEF GraphPut
<1>5. /\ nodes' \in [Graphs -> SUBSET Workers] /\ nodes'[g] = N
      /\ \A h \in Graphs : h # g => nodes'[h] = nodes[h]
      BY DEF RInv, TypeInv
<1>6. JobKind(g)' # "finishing"
      BY DEF JobKind
<1>7. \A w \in Workers : conn[w] => CellAfter(w, g)
  <2> SUFFICES ASSUME NEW w \in Workers, conn[w] PROVE CellAfter(w, g)
        OBVIOUS
  <2>1. FreshCell(w, g, t, N, Pend(reqs'[w], g), Pend(resps[w], g))
        BY <1>2
  <2>2. CellOK(w, x, N, JobKind(g)', cn[w][g], Pend(reqs'[w], g), Pend(resps[w], g))
        BY <1>4, <1>6, <2>1 DEF FreshCell
  <2> QED  BY <1>4, <1>5, <2>2 DEF CellAfter
<1>8. \A w \in Workers : conn[w] => ~Has(Pend(reqs'[w], g), "remove")
      BY <1>2, FreshNotRemoved
<1>9. GraphOK(g)'
  <2>1. Connected' = Connected
        BY DEF Connected
  <2> QED  BY <1>4, <1>5, <2>1 DEF GraphOK
<1>10. ASSUME NEW h \in Graphs, h # g
       PROVE  JobKind(h)' = "finishing" <=> JobKind(h) = "finishing"
  <2>1. h[1] \in Databases /\ g[1] \in Databases
        BY GraphFacts
  <2>2. CASE h[1] # g[1]
        BY <2>1, <2>2 DEF JobKind
  <2>3. CASE h[1] = g[1]
        BY <1>10, <2>3 DEF JobKind
  <2> QED  BY <2>2, <2>3
<1>11. GraphStep(g)
  <2>1. DOMAIN reqs' = Workers /\ DOMAIN resps' = Workers /\ waits' \in [Databases -> SUBSET Graphs]
        BY <1>1, <1>3 DEF QueuesOK, RInv, TypeInv
  <2>2. \A w \in Workers : Good(reqs'[w]) /\ Good(resps'[w])
        BY <1>1, <1>3 DEF QueuesOK
  <2>3. job[g[1]] = "gone" => job'[g[1]] = "gone"
        OBVIOUS
  <2>4. /\ graph' \in [Graphs -> GraphState] /\ nodes' \in [Graphs -> SUBSET Workers]
        /\ \A h \in Graphs : h # g => graph'[h] = graph[h] /\ nodes'[h] = nodes[h]
        BY <1>5 DEF GraphPut
  <2>5. \A e \in Databases :
          e # g[1] => stage'[e] = stage[e] /\ waits'[e] = waits[e] /\ job'[e] = job[e]
        OBVIOUS
  <2>6. \A h \in Graphs : h # g => /\ graph'[h] = graph[h] /\ nodes'[h] = nodes[h]
                                   /\ JobKind(h)' = "finishing" <=> JobKind(h) = "finishing"
        BY <1>10, <2>4
  <2>7. \A w \in Workers, h \in Graphs :
          h # g => /\ Pend(reqs'[w], h) = Pend(reqs[w], h)
                   /\ Pend(resps'[w], h) = Pend(resps[w], h)
        BY <1>3
  <2>8. \A w \in Workers :
          conn[w] /\ Has(Pend(reqs'[w], g), "remove") => g = JobOf(g[1]) /\ job'[g[1]] = "gone"
        BY <1>8
  <2> QED  BY <1>3, <1>7, <1>9, <2>1, <2>2, <2>3, <2>4, <2>5, <2>6, <2>7, <2>8 DEF GraphStep
<1> QED  BY <1>11, GraphStepKeeps

LEMMA CreateDatabaseKeeps ==
  ASSUME RInv, NEW d \in Databases, CreateDatabase(d)
  PROVE  RInv' /\ (panic' => panic)
<1>1. PICK g : g = Main(d)
      OBVIOUS
<1>2. g \in Graphs /\ g[1] = d /\ g # JobOf(d)
      BY <1>1, DatabaseFacts
<1>3. PICK t : t = lastTerm + 1
      OBVIOUS
<1>5. \E M \in SUBSET Workers :
        /\ M \subseteq Connected
        /\ graph' = [graph EXCEPT ![g] = [st |-> "running", term |-> t, epoch |-> 1, left |-> M]]
        /\ reqs' = Started(reqs, Connected, g, t, M, FALSE)
        /\ panic' = (panic \/ graph[g].st # "none")
        /\ nodes' = [nodes EXCEPT ![g] = M]
      BY <1>1, <1>3 DEF CreateDatabase, AddGraph, Started
<1>6. PICK M \in SUBSET Workers :
        /\ M \subseteq Connected
        /\ graph' = [graph EXCEPT ![g] = [st |-> "running", term |-> t, epoch |-> 1, left |-> M]]
        /\ reqs' = Started(reqs, Connected, g, t, M, FALSE)
        /\ panic' = (panic \/ graph[g].st # "none")
        /\ nodes' = [nodes EXCEPT ![g] = M]
      BY <1>5
<1>7. PICK x : x = [st |-> "running", term |-> t, epoch |-> 1, left |-> M]
      OBVIOUS
<1>8. t \in Nat /\ x \in GraphState
      BY <1>3, <1>7 DEF RInv, TypeInv, GraphState
<1>9. GraphPut(g, x)
      BY <1>2, <1>6, <1>7, <1>8, PutGraph
<1>10. MetaOK(d) /\ stage[d] = "absent" /\ phase = "running"
      BY DEF RInv, MetasOK, CreateDatabase
<1>11. /\ graph[g].st = "none" /\ job[d] \in {"none", "gone"} /\ waits[d] = {}
       /\ d \in JobDatabases => graph[JobOf(d)].st = "none"
      BY <1>1, <1>2, <1>10, DatabaseFacts DEF MetaOK
<1>12. /\ conn' = conn /\ cn' = cn /\ batches' = batches /\ xreq' = xreq /\ phase' = phase
       /\ resps' = resps /\ lastTerm' = t /\ waits' = waits /\ job' = job
       /\ stage' \in [Databases -> Stages] /\ stage'[d] = "running"
       /\ \A e \in Databases : e # d => stage'[e] = stage[e]
      BY <1>3 DEF CreateDatabase, cnVars, xVars, RInv, TypeInv, Stages
<1>13. MetaOK(d)'
  <2>1. graph'[Main(d)].st = "running" /\ (d \in JobDatabases => graph'[JobOf(d)].st = "none")
        BY <1>1, <1>2, <1>7, <1>9, <1>11, DatabaseFacts DEF GraphPut
  <2> QED  BY <1>10, <1>11, <1>12, <2>1 DEF MetaOK
<1>14. panic' \in BOOLEAN /\ (panic' => panic) /\ job' \in [Databases -> JobStates]
      BY <1>6, <1>11, <1>12 DEF RInv, TypeInv
<1>15. RInv'
      BY <1>2, <1>6, <1>7, <1>8, <1>9, <1>11, <1>12, <1>13, <1>14, AddedKeeps
<1> QED  BY <1>14, <1>15

LEMMA CreateJobKeeps ==
  ASSUME RInv, NEW d \in Databases, CreateJob(d)
  PROVE  RInv' /\ (panic' => panic)
<1>1. PICK g : g = JobOf(d)
      OBVIOUS
<1>2. g \in Graphs /\ g[1] = d /\ Main(d) # g /\ Main(d) \in Graphs
      BY <1>1, DatabaseFacts DEF CreateJob
<1>3. PICK t : t = graph[Main(d)].term
      OBVIOUS
<1>5. \E M \in SUBSET Workers :
        /\ M \subseteq Connected
        /\ graph' = [graph EXCEPT ![g] = [st |-> "running", term |-> t, epoch |-> 1, left |-> M]]
        /\ reqs' = Started(reqs, Connected, g, t, M, FALSE)
        /\ panic' = (panic \/ graph[g].st # "none")
        /\ nodes' = [nodes EXCEPT ![g] = M]
      BY <1>1, <1>3 DEF CreateJob, AddGraph, Started
<1>6. PICK M \in SUBSET Workers :
        /\ M \subseteq Connected
        /\ graph' = [graph EXCEPT ![g] = [st |-> "running", term |-> t, epoch |-> 1, left |-> M]]
        /\ reqs' = Started(reqs, Connected, g, t, M, FALSE)
        /\ panic' = (panic \/ graph[g].st # "none")
        /\ nodes' = [nodes EXCEPT ![g] = M]
      BY <1>5
<1>7. PICK x : x = [st |-> "running", term |-> t, epoch |-> 1, left |-> M]
      OBVIOUS
<1>8. t \in Nat /\ x \in GraphState
  <2>1. graph[Main(d)] \in GraphState
        BY <1>2 DEF RInv, TypeInv
  <2> QED  BY <1>3, <1>7, <2>1 DEF GraphState
<1>9. GraphPut(g, x)
      BY <1>2, <1>6, <1>7, <1>8, PutGraph
<1>10. MetaOK(d) /\ stage[d] = "running" /\ phase = "running" /\ job[d] = "none" /\ d \in JobDatabases
      BY DEF RInv, MetasOK, CreateJob
<1>11. graph[g].st = "none" /\ waits[d] = {} /\ graph[Main(d)].st = "running"
      BY <1>1, <1>10 DEF MetaOK
<1>12. /\ conn' = conn /\ cn' = cn /\ batches' = batches /\ xreq' = xreq /\ phase' = phase
       /\ resps' = resps /\ lastTerm' = lastTerm /\ lastTerm \in Nat /\ waits' = waits
       /\ stage' = stage /\ stage' \in [Databases -> Stages]
       /\ job' \in [Databases -> JobStates] /\ job'[d] = "running"
       /\ \A e \in Databases : e # d => job'[e] = job[e]
      BY DEF CreateJob, cnVars, xVars, RInv, TypeInv, JobStates
<1>13. MetaOK(d)'
  <2>1. graph'[Main(d)].st = "running" /\ graph'[JobOf(d)].st = "running"
        BY <1>1, <1>2, <1>7, <1>9, <1>11 DEF GraphPut
  <2> QED  BY <1>10, <1>11, <1>12, <2>1 DEF MetaOK
<1>14. panic' \in BOOLEAN /\ (panic' => panic)
      BY <1>6, <1>11 DEF RInv, TypeInv
<1>15. RInv'
      BY <1>1, <1>2, <1>6, <1>7, <1>8, <1>9, <1>10, <1>11, <1>12, <1>13, <1>14, AddedKeeps
<1> QED  BY <1>14, <1>15

\* A graph that is, or would be, live is reset alone.
LEMMA ResetOneKeeps ==
  ASSUME RInv, NEW g \in Graphs, NEW r, QueuesOK(r),
         \A w \in Workers : ~conn[w] => r[w] = <<>>,
         \A w \in Workers, h \in Graphs : h # g => Pend(r[w], h) = Pend(reqs[w], h),
         \A w \in Workers : conn[w] => LiveCell(w, g, Pend(r[w], g), Pend(resps[w], g)),
         NEW x, x = [st |-> "resetting", term |-> 0, epoch |-> 0, left |-> Connected],
         GraphPut(g, x), reqs' = Post(r, Connected, ResetGraphs({g})),
         conn' = conn, cn' = cn, batches' = batches, xreq' = xreq, phase' = phase,
         resps' = resps, nodes' = nodes, panic' \in BOOLEAN, lastTerm' \in Nat,
         stage' \in [Databases -> Stages], job' \in [Databases -> JobStates],
         waits' \in [Databases -> SUBSET Graphs],
         \A e \in Databases :
           e # g[1] => stage'[e] = stage[e] /\ waits'[e] = waits[e] /\ job'[e] = job[e],
         g # JobOf(g[1]) => job'[g[1]] = job[g[1]],
         job[g[1]] # "gone" \/ job'[g[1]] = "gone",
         MetaOK(g[1])'
  PROVE  RInv'
<1>1. /\ QueuesOK(resps) /\ \A w \in Workers : ~conn[w] => resps[w] = <<>>
      /\ \A w \in Workers : w \in Connected <=> conn[w]
      BY QueuesNow
<1>2. PICK r2 : r2 = reqs'
      OBVIOUS
<1>3. PICK G : G = {g}
      OBVIOUS
<1>4. /\ ResetSent(r, r2, Connected, G)
      /\ \A w \in Workers, h \in G : conn[w] =>
           /\ ResetCell(w, h, Pend(r2[w], h), Pend(resps[w], h))
           /\ ~Has(Pend(r2[w], h), "remove")
  <2>1. /\ G \subseteq Graphs /\ G # {} /\ r2 = Post(r, Connected, ResetGraphs(G))
        /\ \A w \in Workers, h \in G :
             conn[w] => LiveCell(w, h, Pend(r[w], h), Pend(resps[w], h))
        BY <1>2, <1>3
  <2> QED  BY <2>1, ResetCells
<1>5. /\ QueuesOK(r2) /\ \A w \in Workers : ~conn[w] => r2[w] = <<>>
      /\ \A w \in Workers, h \in Graphs : h # g => Pend(r2[w], h) = Pend(reqs[w], h)
  <2>1. QueuesOK(r2) /\ \A w \in Workers : w \notin Connected => r2[w] = r[w]
        BY <1>4 DEF ResetSent
  <2>2. ASSUME NEW w \in Workers, NEW h \in Graphs, h # g PROVE Pend(r2[w], h) = Pend(reqs[w], h)
    <3>1. h \notin G
          BY <1>3, <2>2
    <3>2. Pend(r2[w], h) = Pend(r[w], h)
          BY <1>4, <3>1 DEF ResetSent
    <3> QED  BY <2>2, <3>2
  <2> QED  BY <1>1, <2>1, <2>2
<1>6. x.st = "resetting" /\ x.left = Connected /\ graph'[g] = x
      BY DEF GraphPut
<1>7. ASSUME NEW w \in Workers, conn[w] PROVE CellAfter(w, g)
  <2>1. ResetCell(w, g, Pend(r2[w], g), Pend(resps[w], g))
        BY <1>3, <1>4, <1>7
  <2>2. CellOK(w, x, nodes[g], JobKind(g)', cn[w][g], Pend(r2[w], g), Pend(resps[w], g))
        BY <1>1, <1>6, <1>7, <2>1 DEF ResetCell
  <2> QED  BY <1>2, <1>6, <2>2 DEF CellAfter
<1>8. \A w \in Workers : conn[w] => ~Has(Pend(reqs'[w], g), "remove")
      BY <1>2, <1>3, <1>4
<1>9. GraphOK(g)'
  <2>1. Connected' = Connected
        BY DEF Connected
  <2> QED  BY <1>6, <2>1 DEF GraphOK
<1>10. ASSUME NEW h \in Graphs, h # g
       PROVE  JobKind(h)' = "finishing" <=> JobKind(h) = "finishing"
  <2>1. h[1] \in Databases /\ g[1] \in Databases
        BY GraphFacts
  <2>2. CASE h[1] # g[1]
        BY <2>1, <2>2 DEF JobKind
  <2>3. CASE h[1] = g[1]
        BY <1>10, <2>3 DEF JobKind
  <2> QED  BY <2>2, <2>3
<1>11. GraphStep(g)
  <2>1. DOMAIN reqs' = Workers /\ DOMAIN resps' = Workers
        BY <1>1, <1>2, <1>5 DEF QueuesOK
  <2>2. /\ \A w \in Workers : Good(reqs'[w]) /\ Good(resps'[w])
        /\ \A w \in Workers : ~conn[w] => reqs'[w] = <<>> /\ resps'[w] = <<>>
        BY <1>1, <1>2, <1>5 DEF QueuesOK
  <2>3. job[g[1]] = "gone" => job'[g[1]] = "gone"
        OBVIOUS
  <2>4. /\ graph' \in [Graphs -> GraphState] /\ nodes' \in [Graphs -> SUBSET Workers]
        BY DEF GraphPut, RInv, TypeInv
  <2>6. \A h \in Graphs : h # g => /\ graph'[h] = graph[h] /\ nodes'[h] = nodes[h]
                                   /\ JobKind(h)' = "finishing" <=> JobKind(h) = "finishing"
        BY <1>10 DEF GraphPut
  <2>7. \A w \in Workers, h \in Graphs :
          h # g => /\ Pend(reqs'[w], h) = Pend(reqs[w], h)
                   /\ Pend(resps'[w], h) = Pend(resps[w], h)
        BY <1>2, <1>5
  <2>8. \A w \in Workers :
          conn[w] /\ Has(Pend(reqs'[w], g), "remove") => g = JobOf(g[1]) /\ job'[g[1]] = "gone"
        BY <1>8
  <2>9. \A e \in Databases :
          e # g[1] => stage'[e] = stage[e] /\ waits'[e] = waits[e] /\ job'[e] = job[e]
        OBVIOUS
  <2>10. \A w \in Workers : conn[w] => CellAfter(w, g)
        BY <1>7
  <2> QED  BY <1>9, <2>1, <2>2, <2>3, <2>4, <2>6, <2>7, <2>8, <2>9, <2>10 DEF GraphStep
<1> QED  BY <1>11, GraphStepKeeps

\* reset_partial_graphs leaves one graph resetting.
LEMMA ResetPut ==
  ASSUME RInv, NEW g \in Graphs, NEW f, \A h \in Graphs : h # g => f[h] = graph[h],
         graph' = [h \in Graphs |-> IF h \in {g}
                                    THEN [st |-> "resetting", term |-> 0, epoch |-> 0,
                                          left |-> Connected]
                                    ELSE f[h]]
  PROVE  GraphPut(g, [st |-> "resetting", term |-> 0, epoch |-> 0, left |-> Connected])
<1>1. PICK x : x = [st |-> "resetting", term |-> 0, epoch |-> 0, left |-> Connected]
      OBVIOUS
<1>2. x \in GraphState
      BY <1>1 DEF GraphState, Connected
<1>3. \A h \in Graphs : graph'[h] = IF h = g THEN x ELSE graph[h]
      BY <1>1
<1>4. graph' = [h \in Graphs |-> graph'[h]]
      BY Zenon
<1>5. \A h \in Graphs : graph'[h] \in GraphState
      BY <1>2, <1>3 DEF RInv, TypeInv
<1>6. graph' \in [Graphs -> GraphState]
      BY <1>4, <1>5
<1> QED  BY <1>1, <1>3, <1>6 DEF GraphPut

LEMMA CreateDatabaseFailsKeeps ==
  ASSUME RInv, NEW d \in Databases, CreateDatabaseFails(d)
  PROVE  RInv' /\ (panic' => panic)
<1>1. PICK g : g = Main(d)
      OBVIOUS
<1>2. g \in Graphs /\ g[1] = d /\ g # JobOf(d)
      BY <1>1, DatabaseFacts
<1>3. PICK t : t = lastTerm + 1
      OBVIOUS
<1>20. PICK N, early, s, q :
        /\ N \in SUBSET Workers /\ early \in BOOLEAN
        /\ s = AddGraph(Main(d), lastTerm + 1, N, early)
        /\ q = ResetPartialGraphs(s.graph, s.reqs, Connected, {Main(d)})
        /\ graph' = q.graph /\ reqs' = q.reqs /\ panic' = (panic \/ s.bad \/ q.bad)
      BY Zenon DEF CreateDatabaseFails
<1>21. PICK f, r, G : f = s.graph /\ r = s.reqs /\ G = {g}
      OBVIOUS
<1>22. /\ f = [graph EXCEPT ![g] = [st |-> "running", term |-> t, epoch |-> 1, left |-> N]]
       /\ r = Started(reqs, Connected, g, t, N, early)
       /\ s.bad = (graph[g].st # "none")
      BY <1>1, <1>3, <1>20, <1>21 DEF AddGraph, Started
<1>23. q = ResetPartialGraphs(f, r, Connected, G) /\ G # {}
      BY <1>1, <1>20, <1>21
<1>24. /\ q.graph = [h \in Graphs |-> IF h \in G
                                     THEN [st |-> "resetting", term |-> 0, epoch |-> 0,
                                           left |-> Connected]
                                     ELSE f[h]]
       /\ q.reqs = Post(r, Connected, ResetGraphs(G))
       /\ q.bad = (\E h \in G : f[h].st = "resetting")
      BY <1>23 DEF ResetPartialGraphs, RemainingWorkers
<1>4. /\ graph' = [h \in Graphs |-> IF h \in {g}
                                      THEN [st |-> "resetting", term |-> 0, epoch |-> 0,
                                            left |-> Connected]
                                      ELSE f[h]]
      /\ reqs' = Post(r, Connected, ResetGraphs({g}))
      BY <1>20, <1>21, <1>24
<1>5. PICK x : x = [st |-> "resetting", term |-> 0, epoch |-> 0, left |-> Connected]
      OBVIOUS
<1>6. f[g].st = "running" /\ \A h \in Graphs : h # g => f[h] = graph[h]
      BY <1>2, <1>22 DEF RInv, TypeInv
<1>7. GraphPut(g, x)
      BY <1>2, <1>4, <1>5, <1>6, ResetPut
<1>10. MetaOK(d) /\ stage[d] = "absent" /\ phase = "running"
      BY DEF RInv, MetasOK, CreateDatabaseFails
<1>11. /\ graph[g].st = "none" /\ job[d] \in {"none", "gone"}
       /\ d \in JobDatabases => graph[JobOf(d)].st = "none"
      BY <1>1, <1>2, <1>10, DatabaseFacts DEF MetaOK
<1>12. /\ conn' = conn /\ cn' = cn /\ batches' = batches /\ xreq' = xreq /\ phase' = phase
       /\ resps' = resps /\ lastTerm' = t /\ t \in Nat /\ nodes' = nodes /\ job' = job
       /\ job' \in [Databases -> JobStates]
       /\ stage' \in [Databases -> Stages] /\ stage'[d] = "resetting"
       /\ waits' \in [Databases -> SUBSET Graphs] /\ waits'[d] = {g}
       /\ \A e \in Databases : e # d => stage'[e] = stage[e] /\ waits'[e] = waits[e]
      BY <1>1, <1>2, <1>3 DEF CreateDatabaseFails, cnVars, xVars, RInv, TypeInv, Stages
<1>13. MetaOK(d)'
  <2>1. graph'[Main(d)].st = "resetting" /\ (d \in JobDatabases => graph'[JobOf(d)].st = "none")
        BY <1>1, <1>2, <1>5, <1>7, <1>11, DatabaseFacts DEF GraphPut
  <2>2. \A h \in GraphsOf(d) : IF h = g THEN graph'[h].st = "resetting" ELSE graph'[h].st = "none"
        BY <1>1, <2>1, DatabaseFacts
  <2>3. g \in GraphsOf(d)
        BY <1>2 DEF GraphsOf
  <2>4. waits'[d] = {h \in GraphsOf(d) : graph'[h].st = "resetting"}
        BY <1>12, <2>2, <2>3
  <2> QED  BY <1>10, <1>11, <1>12, <2>2, <2>4 DEF MetaOK
<1>14. panic' \in BOOLEAN /\ (panic' => panic)
  <2>1. s.bad = FALSE /\ q.bad = FALSE
        BY <1>6, <1>11, <1>21, <1>22, <1>24
  <2> QED  BY <1>20, <2>1 DEF RInv, TypeInv
<1>15. /\ QueuesOK(reqs) /\ \A w \in Workers : ~conn[w] => reqs[w] = <<>>
       /\ \A w \in Workers : w \in Connected <=> conn[w]
      BY QueuesNow
<1>16. /\ StartedOK(reqs, r, Connected, g, t, N)
       /\ \A w \in Workers :
            conn[w] => FreshCell(w, g, t, N, Pend(r[w], g), Pend(resps[w], g))
      BY <1>2, <1>11, <1>12, <1>15, <1>22, StartCells
<1>17. /\ QueuesOK(r) /\ \A w \in Workers : ~conn[w] => r[w] = <<>>
       /\ \A w \in Workers, h \in Graphs : h # g => Pend(r[w], h) = Pend(reqs[w], h)
      BY <1>15, <1>16 DEF StartedOK
<1>18. \A w \in Workers : conn[w] => LiveCell(w, g, Pend(r[w], g), Pend(resps[w], g))
      BY <1>16, FreshLive
<1>19. RInv'
  <2>1. \A e \in Databases :
          e # g[1] => stage'[e] = stage[e] /\ waits'[e] = waits[e] /\ job'[e] = job[e]
        BY <1>2, <1>12
  <2>2. reqs' = Post(r, Connected, ResetGraphs({g})) /\ lastTerm' \in Nat
        BY <1>4, <1>12
  <2> QED  BY <1>2, <1>5, <1>7, <1>12, <1>13, <1>14, <1>17, <1>18, <2>1, <2>2, ResetOneKeeps
<1> QED  BY <1>14, <1>19

\* A graph of a running database is live on every connected worker.
LEMMA NowLive ==
  ASSUME RInv, NEW g \in Graphs, graph[g].st \in {"running", "initializing"},
         NEW w \in Workers, conn[w]
  PROVE  LiveCell(w, g, Pend(reqs[w], g), Pend(resps[w], g))
<1>1. Cell(w, g) /\ Kind(graph[g].st) = "live"
      BY DEF RInv, StreamsOK, Kind
<1> QED  BY <1>1 DEF Cell, CellWith, LiveCell

LEMMA DropJobKeeps ==
  ASSUME RInv, NEW d \in Databases, DropJob(d)
  PROVE  RInv' /\ (panic' => panic)
<1>1. PICK g : g = JobOf(d)
      OBVIOUS
<1>10. /\ MetaOK(d) /\ stage[d] = "running" /\ phase = "running" /\ job[d] = "running"
      BY DEF RInv, MetasOK, DropJob
<1>2. /\ d \in JobDatabases /\ g \in Graphs /\ g[1] = d /\ Main(d) # g /\ Main(d) \in Graphs
      BY <1>1, <1>10, DatabaseFacts DEF MetaOK
<1>11. graph[g].st = "running" /\ waits[d] = {} /\ graph[Main(d)].st = "running"
      BY <1>1, <1>2, <1>10 DEF MetaOK
<1>4. /\ graph' = [h \in Graphs |-> IF h \in {g}
                                    THEN [st |-> "resetting", term |-> 0, epoch |-> 0,
                                          left |-> Connected]
                                    ELSE graph[h]]
      /\ reqs' = Post(reqs, Connected, ResetGraphs({g}))
      /\ panic' = (panic \/ \E h \in {g} : graph[h].st = "resetting")
      BY <1>1 DEF DropJob, ResetPartialGraphs, RemainingWorkers
<1>5. PICK x : x = [st |-> "resetting", term |-> 0, epoch |-> 0, left |-> Connected]
      OBVIOUS
<1>7. GraphPut(g, x)
      BY <1>2, <1>4, <1>5, ResetPut
<1>12. /\ conn' = conn /\ cn' = cn /\ batches' = batches /\ xreq' = xreq /\ phase' = phase
       /\ resps' = resps /\ lastTerm' = lastTerm /\ lastTerm \in Nat /\ nodes' = nodes
       /\ job' \in [Databases -> JobStates] /\ job'[d] = "resetting"
       /\ stage' = stage /\ stage' \in [Databases -> Stages]
       /\ waits' = waits /\ waits' \in [Databases -> SUBSET Graphs]
       /\ \A e \in Databases : e # d => job'[e] = job[e]
      BY <1>1, <1>2 DEF DropJob, cnVars, xVars, RInv, TypeInv, JobStates
<1>13. MetaOK(d)'
  <2>1. graph'[Main(d)].st = "running" /\ graph'[JobOf(d)].st = "resetting"
        BY <1>1, <1>2, <1>5, <1>7, <1>11 DEF GraphPut
  <2> QED  BY <1>2, <1>10, <1>11, <1>12, <2>1 DEF MetaOK
<1>14. panic' \in BOOLEAN /\ (panic' => panic)
      BY <1>4, <1>11 DEF RInv, TypeInv
<1>15. /\ QueuesOK(reqs) /\ \A w \in Workers : ~conn[w] => reqs[w] = <<>>
      BY QueuesNow
<1>18. \A w \in Workers : conn[w] => LiveCell(w, g, Pend(reqs[w], g), Pend(resps[w], g))
      BY <1>2, <1>11, NowLive
<1>19. RInv'
  <2>1. \A e \in Databases :
          e # g[1] => stage'[e] = stage[e] /\ waits'[e] = waits[e] /\ job'[e] = job[e]
        BY <1>2, <1>12
  <2>2. lastTerm' \in Nat /\ g = JobOf(g[1]) /\ job[g[1]] # "gone" /\ MetaOK(g[1])'
        BY <1>1, <1>2, <1>10, <1>12, <1>13
  <2> QED  BY <1>2, <1>4, <1>5, <1>7, <1>12, <1>14, <1>15, <1>18, <2>1, <2>2, ResetOneKeeps
<1> QED  BY <1>14, <1>19

LEMMA CreateJobFailsKeeps ==
  ASSUME RInv, NEW d \in Databases, CreateJobFails(d)
  PROVE  RInv' /\ (panic' => panic)
<1>1. PICK g, k : g = JobOf(d) /\ k = Main(d)
      OBVIOUS
<1>2. /\ g \in Graphs /\ g[1] = d /\ k # g /\ k \in Graphs /\ k[1] = d /\ k # JobOf(d)
      /\ d \in JobDatabases /\ \A h \in Graphs : h[1] = d <=> h = g \/ h = k
      BY <1>1, DatabaseFacts, GraphFacts DEF CreateJobFails
<1>3. PICK t : t = graph[k].term
      OBVIOUS
<1>4. t \in Nat
  <2>1. graph[k] \in GraphState
        BY <1>2 DEF RInv, TypeInv
  <2> QED  BY <1>3, <2>1 DEF GraphState
<1>10. MetaOK(d) /\ stage[d] = "running" /\ phase = "running" /\ job[d] = "none"
      BY DEF RInv, MetasOK, CreateJobFails
<1>11. graph[g].st = "none" /\ graph[k].st = "running"
      BY <1>1, <1>2, <1>10 DEF MetaOK
<1>39. PICK N, early, s :
        /\ N \in SUBSET Workers /\ early \in BOOLEAN
        /\ s = AddGraph(JobOf(d), graph[Main(d)].term, N, early)
        /\ LET a == ResetPartialGraphs(s.graph, s.reqs, Connected, {JobOf(d)})
               b == ResetPartialGraphs(a.graph, a.reqs, Connected, {Main(d)})
           IN graph' = b.graph /\ reqs' = b.reqs /\ panic' = (panic \/ s.bad \/ a.bad \/ b.bad)
      BY Zenon DEF CreateJobFails
<1>20. PICK a, b :
        /\ s = AddGraph(JobOf(d), graph[Main(d)].term, N, early)
        /\ a = ResetPartialGraphs(s.graph, s.reqs, Connected, {JobOf(d)})
        /\ b = ResetPartialGraphs(a.graph, a.reqs, Connected, {Main(d)})
        /\ graph' = b.graph /\ reqs' = b.reqs /\ panic' = (panic \/ s.bad \/ a.bad \/ b.bad)
  <2>1. PICK a : a = ResetPartialGraphs(s.graph, s.reqs, Connected, {JobOf(d)})
        OBVIOUS
  <2>2. PICK b : b = ResetPartialGraphs(a.graph, a.reqs, Connected, {Main(d)})
        OBVIOUS
  <2>3. graph' = b.graph /\ reqs' = b.reqs /\ panic' = (panic \/ s.bad \/ a.bad \/ b.bad)
        BY <1>39, <2>1, <2>2, Zenon
  <2> QED  BY <1>39, <2>1, <2>2, <2>3, Zenon
<1>21. PICK f, r, G, K : f = s.graph /\ r = s.reqs /\ G = {g} /\ K = {k}
      OBVIOUS
<1>22. /\ f = [graph EXCEPT ![g] = [st |-> "running", term |-> t, epoch |-> 1, left |-> N]]
       /\ r = Started(reqs, Connected, g, t, N, early)
       /\ s.bad = (graph[g].st # "none")
      BY <1>1, <1>3, <1>20, <1>21 DEF AddGraph, Started
<1>23. a = ResetPartialGraphs(f, r, Connected, G) /\ G # {} /\ K # {}
      BY <1>1, <1>20, <1>21
<1>24. PICK x : x = [st |-> "resetting", term |-> 0, epoch |-> 0, left |-> Connected]
      OBVIOUS
<1>25. /\ a.graph = [h \in Graphs |-> IF h \in G THEN x ELSE f[h]]
       /\ a.reqs = Post(r, Connected, ResetGraphs(G))
       /\ a.bad = (\E h \in G : f[h].st = "resetting")
      BY <1>23, <1>24 DEF ResetPartialGraphs, RemainingWorkers
<1>26. PICK f1, r1 : f1 = a.graph /\ r1 = a.reqs
      OBVIOUS
<1>27. b = ResetPartialGraphs(f1, r1, Connected, K)
      BY <1>1, <1>20, <1>21, <1>26
<1>28. /\ b.graph = [h \in Graphs |-> IF h \in K THEN x ELSE f1[h]]
       /\ b.reqs = Post(r1, Connected, ResetGraphs(K))
       /\ b.bad = (\E h \in K : f1[h].st = "resetting")
      BY <1>23, <1>24, <1>27 DEF ResetPartialGraphs, RemainingWorkers
<1>29. f[g].st = "running" /\ \A h \in Graphs : h # g => f[h] = graph[h]
      BY <1>2, <1>22 DEF RInv, TypeInv
<1>30. \A h \in Graphs : f1[h] = IF h = g THEN x ELSE graph[h]
      BY <1>21, <1>25, <1>26, <1>29
<1>31. \A h \in Graphs : graph'[h] = IF h = g \/ h = k THEN x ELSE graph[h]
      BY <1>20, <1>21, <1>28, <1>30
<1>32. x \in GraphState /\ x.st = "resetting" /\ x.left = Connected
      BY <1>24 DEF GraphState, Connected
<1>33. graph' \in [Graphs -> GraphState]
  <2>1. graph' = [h \in Graphs |-> graph'[h]]
        BY <1>20, <1>28
  <2>2. \A h \in Graphs : graph'[h] \in GraphState
        BY <1>31, <1>32 DEF RInv, TypeInv
  <2> QED  BY <2>1, <2>2
<1>34. panic' \in BOOLEAN /\ (panic' => panic)
  <2>1. s.bad = FALSE /\ a.bad = FALSE /\ b.bad = FALSE
        BY <1>2, <1>11, <1>21, <1>22, <1>25, <1>28, <1>29, <1>30
  <2> QED  BY <1>20, <2>1 DEF RInv, TypeInv
<1>12. /\ conn' = conn /\ cn' = cn /\ batches' = batches /\ xreq' = xreq /\ phase' = phase
       /\ resps' = resps /\ lastTerm' = lastTerm /\ lastTerm \in Nat /\ nodes' = nodes /\ job' = job
       /\ job' \in [Databases -> JobStates]
       /\ stage' \in [Databases -> Stages] /\ stage'[d] = "resetting"
       /\ waits' \in [Databases -> SUBSET Graphs] /\ waits'[d] = {g, k}
       /\ \A e \in Databases : e # d => stage'[e] = stage[e] /\ waits'[e] = waits[e]
  <2>1. stage' = [stage EXCEPT ![d] = "resetting"] /\ waits' = [waits EXCEPT ![d] = {k, g}]
        BY <1>1 DEF CreateJobFails
  <2>2. /\ stage' \in [Databases -> Stages] /\ stage'[d] = "resetting"
        /\ \A e \in Databases : e # d => stage'[e] = stage[e]
        BY <2>1 DEF RInv, TypeInv, Stages
  <2>3. /\ waits' \in [Databases -> SUBSET Graphs] /\ waits'[d] = {g, k}
        /\ \A e \in Databases : e # d => waits'[e] = waits[e]
        BY <1>2, <2>1 DEF RInv, TypeInv
  <2> QED  BY <2>2, <2>3 DEF CreateJobFails, cnVars, xVars, RInv, TypeInv
<1>13. MetaOK(d)'
  <2>1. \A h \in GraphsOf(d) : h \in Graphs /\ h \in {g, k} /\ graph'[h].st = "resetting"
        BY <1>2, <1>31, <1>32 DEF GraphsOf
  <2>2. g \in GraphsOf(d) /\ k \in GraphsOf(d)
        BY <1>2 DEF GraphsOf
  <2>4. waits'[d] = {h \in GraphsOf(d) : graph'[h].st = "resetting"}
        BY <1>12, <2>1, <2>2
  <2> QED  BY <1>10, <1>11, <1>12, <2>1, <2>4 DEF MetaOK
<1>15. /\ QueuesOK(reqs) /\ QueuesOK(resps)
       /\ \A w \in Workers : ~conn[w] => reqs[w] = <<>> /\ resps[w] = <<>>
       /\ \A w \in Workers : w \in Connected <=> conn[w]
      BY QueuesNow
<1>16. /\ StartedOK(reqs, r, Connected, g, t, N)
       /\ \A w \in Workers :
            conn[w] => FreshCell(w, g, t, N, Pend(r[w], g), Pend(resps[w], g))
      BY <1>1, <1>2, <1>4, <1>10, <1>11, <1>12, <1>15, <1>22, StartCells
<1>17. /\ QueuesOK(r) /\ \A w \in Workers : w \notin Connected => r[w] = reqs[w]
       /\ \A w \in Workers, h \in Graphs : h # g => Pend(r[w], h) = Pend(reqs[w], h)
      BY <1>16 DEF StartedOK
<1>18. \A w \in Workers, h \in G :
         conn[w] => LiveCell(w, h, Pend(r[w], h), Pend(resps[w], h))
      BY <1>16, <1>21, FreshLive
<1>19. /\ ResetSent(r, r1, Connected, G)
       /\ \A w \in Workers, h \in G : conn[w] =>
            /\ ResetCell(w, h, Pend(r1[w], h), Pend(resps[w], h))
            /\ ~Has(Pend(r1[w], h), "remove")
      BY <1>2, <1>17, <1>18, <1>21, <1>23, <1>25, <1>26, ResetCells
<1>40. PICK r2 : r2 = reqs'
      OBVIOUS
<1>41. /\ QueuesOK(r1) /\ \A w \in Workers : w \notin Connected => r1[w] = reqs[w]
       /\ \A w \in Workers, h \in Graphs : h # g => Pend(r1[w], h) = Pend(reqs[w], h)
  <2>1. QueuesOK(r1) /\ \A w \in Workers : w \notin Connected => r1[w] = r[w]
        BY <1>19 DEF ResetSent
  <2>2. ASSUME NEW w \in Workers, NEW h \in Graphs, h # g PROVE Pend(r1[w], h) = Pend(reqs[w], h)
    <3>1. h \notin G
          BY <1>21, <2>2
    <3>2. Pend(r1[w], h) = Pend(r[w], h)
          BY <1>19, <3>1 DEF ResetSent
    <3> QED  BY <1>17, <2>2, <3>2
  <2> QED  BY <1>17, <2>1, <2>2
<1>42. \A w \in Workers, h \in K :
         conn[w] => LiveCell(w, h, Pend(r1[w], h), Pend(resps[w], h))
  <2>1. \A w \in Workers : conn[w] => LiveCell(w, k, Pend(reqs[w], k), Pend(resps[w], k))
        BY <1>2, <1>11, NowLive
  <2> QED  BY <1>2, <1>21, <1>41, <2>1
<1>43. /\ ResetSent(r1, r2, Connected, K)
       /\ \A w \in Workers, h \in K : conn[w] =>
            /\ ResetCell(w, h, Pend(r2[w], h), Pend(resps[w], h))
            /\ ~Has(Pend(r2[w], h), "remove")
  <2>1. r2 = Post(r1, Connected, ResetGraphs(K)) /\ K \subseteq Graphs
        BY <1>2, <1>20, <1>21, <1>28, <1>40
  <2> QED  BY <1>23, <1>41, <1>42, <2>1, ResetCells
<1>44. /\ QueuesOK(r2) /\ \A w \in Workers : w \notin Connected => r2[w] = reqs[w]
       /\ \A w \in Workers, h \in Graphs : h # k => Pend(r2[w], h) = Pend(r1[w], h)
  <2>1. QueuesOK(r2) /\ \A w \in Workers : w \notin Connected => r2[w] = r1[w]
        BY <1>43 DEF ResetSent
  <2>2. ASSUME NEW w \in Workers, NEW h \in Graphs, h # k PROVE Pend(r2[w], h) = Pend(r1[w], h)
    <3>1. h \notin K
          BY <1>21, <2>2
    <3> QED  BY <1>43, <3>1 DEF ResetSent
  <2> QED  BY <1>41, <2>1, <2>2
<1>45. ASSUME NEW w \in Workers, NEW h \in Graphs, conn[w], h[1] = d
       PROVE  /\ ResetCell(w, h, Pend(r2[w], h), Pend(resps[w], h))
              /\ ~Has(Pend(r2[w], h), "remove")
  <2>1. CASE h = g
        BY <1>2, <1>19, <1>21, <1>44, <1>45, <2>1
  <2>2. CASE h = k
        BY <1>21, <1>43, <1>45, <2>2
  <2> QED  BY <1>2, <1>45, <2>1, <2>2
<1>46. ASSUME NEW w \in Workers, NEW h \in Graphs, conn[w], h[1] = d PROVE CellAfter(w, h)
  <2>1. ResetCell(w, h, Pend(r2[w], h), Pend(resps[w], h))
        BY <1>45, <1>46
  <2>2. graph'[h] = x
        BY <1>2, <1>31, <1>46
  <2>3. CellOK(w, x, nodes[h], JobKind(h)', cn[w][h], Pend(r2[w], h), Pend(resps[w], h))
        BY <1>15, <1>32, <1>46, <2>1 DEF ResetCell
  <2> QED  BY <1>12, <1>40, <2>2, <2>3 DEF CellAfter
<1>47. DbStep(d)
  <2>1. DOMAIN reqs' = Workers /\ DOMAIN resps' = Workers
        BY <1>12, <1>15, <1>40, <1>44 DEF QueuesOK
  <2>2. /\ \A w \in Workers : Good(reqs'[w]) /\ Good(resps'[w])
        /\ \A w \in Workers : ~conn[w] => reqs'[w] = <<>> /\ resps'[w] = <<>>
        BY <1>12, <1>15, <1>40, <1>44 DEF QueuesOK
  <2>3. \A e \in Databases :
          e # d => stage'[e] = stage[e] /\ waits'[e] = waits[e] /\ job'[e] = job[e]
        BY <1>12
  <2>4. \A h \in Graphs : h[1] # d => graph'[h] = graph[h] /\ nodes'[h] = nodes[h]
        BY <1>2, <1>12, <1>31
  <2>5. \A w \in Workers, h \in Graphs :
          h[1] # d => /\ Pend(reqs'[w], h) = Pend(reqs[w], h)
                      /\ Pend(resps'[w], h) = Pend(resps[w], h)
        BY <1>2, <1>12, <1>40, <1>41, <1>44
  <2>6. \A w \in Workers, h \in Graphs : h[1] = d => ~Has(Pend(reqs'[w], h), "remove")
    <3>1. ASSUME NEW w \in Workers, NEW h \in Graphs, h[1] = d, ~conn[w]
          PROVE  ~Has(Pend(reqs'[w], h), "remove")
          BY <2>2, <3>1, EmptyGood DEF Has
    <3> QED  BY <1>40, <1>45, <3>1
  <2>7. \A h \in Graphs : h[1] = d => GraphOK(h)'
    <3>1. Connected' = Connected
          BY <1>12 DEF Connected
    <3>2. \A h \in Graphs : h[1] = d => graph'[h] = x
          BY <1>2, <1>31
    <3> QED  BY <1>32, <3>1, <3>2 DEF GraphOK
  <2>8. nodes' \in [Graphs -> SUBSET Workers]
        BY <1>12 DEF RInv, TypeInv
  <2>9. \A w \in Workers, h \in Graphs : conn[w] /\ h[1] = d => CellAfter(w, h)
        BY <1>46
  <2> QED  BY <1>12, <1>13, <1>33, <1>34, <2>1, <2>2, <2>3, <2>4, <2>5, <2>6, <2>7, <2>8, <2>9
           DEF DbStep
<1> QED  BY <1>34, <1>47, DbStepKeeps

LEMMA FinishJobKeeps ==
  ASSUME RInv, NEW d \in Databases, FinishJob(d)
  PROVE  RInv' /\ (panic' => panic)
<1>1. PICK g, k : g = JobOf(d) /\ k = Main(d)
      OBVIOUS
<1>2. /\ MetaOK(d) /\ stage[d] = "running" /\ phase = "running" /\ job[d] = "finishing"
      /\ graph[g].left = {}
      BY <1>1 DEF RInv, MetasOK, FinishJob
<1>3. /\ d \in JobDatabases /\ g \in Graphs /\ g[1] = d /\ k # g /\ k \in Graphs /\ k[1] = d
      BY <1>1, <1>2, DatabaseFacts DEF MetaOK
<1>4. graph[g].st = "running" /\ waits[d] = {} /\ graph[k].st = "running"
      BY <1>1, <1>2, <1>3 DEF MetaOK
<1>5. PICK m : m = RemoveGraph(g)
      OBVIOUS
<1>6. /\ conn' = conn /\ cn' = cn /\ batches' = batches /\ xreq' = xreq /\ phase' = phase
      /\ resps' = resps /\ lastTerm' = lastTerm /\ lastTerm \in Nat /\ nodes' = nodes
      /\ job' \in [Databases -> JobStates] /\ job'[d] = "gone"
      /\ stage' = stage /\ stage' \in [Databases -> Stages]
      /\ waits' = waits /\ waits' \in [Databases -> SUBSET Graphs]
      /\ \A e \in Databases : e # d => job'[e] = job[e]
      /\ graph' = [graph EXCEPT ![g] = NoGraph] /\ reqs' = Post(reqs, Connected, m)
      /\ panic' = (panic \/ graph[g].st # "running")
      BY <1>1, <1>5 DEF FinishJob, cnVars, xVars, RInv, TypeInv, JobStates
<1>7. PICK x : x = NoGraph
      OBVIOUS
<1>8. x \in GraphState /\ x.st = "none" /\ x.left = {}
      BY <1>7 DEF NoGraph, GraphState
<1>9. GraphPut(g, x)
      BY <1>3, <1>6, <1>7, <1>8, PutGraph
<1>10. /\ QueuesOK(reqs) /\ QueuesOK(resps)
       /\ \A w \in Workers : ~conn[w] => reqs[w] = <<>> /\ resps[w] = <<>>
       /\ \A w \in Workers : w \in Connected <=> conn[w]
      BY QueuesNow
<1>11. m \in Messages /\ About(m) = {g} /\ m.type = "remove" /\ Rank(m) = 3
      BY <1>3, <1>5 DEF RemoveGraph, Messages, About, Rank
<1>12. \A w \in Connected \cap Workers : \A h \in About(m) : \A y \in Pend(reqs[w], h) : Rank(y) < Rank(m)
  <2>1. ASSUME NEW w \in Workers, conn[w], NEW y \in Pend(reqs[w], g) PROVE Rank(y) < Rank(m)
    <3>1. LiveCell(w, g, Pend(reqs[w], g), Pend(resps[w], g))
          BY <1>3, <1>4, <2>1, NowLive
    <3>2. Pend(reqs[w], g) \subseteq Messages
          BY PendIn
    <3> QED  BY <1>11, <2>1, <3>1, <3>2, LiveRanks
  <2> QED  BY <1>10, <1>11, <2>1
<1>13. PICK r : r = reqs'
      OBVIOUS
<1>14. /\ QueuesOK(r)
       /\ \A w \in Workers : w \notin Connected => r[w] = reqs[w]
       /\ \A w \in Workers, h \in Graphs :
            Pend(r[w], h) = IF w \in Connected /\ h \in About(m) THEN Pend(reqs[w], h) \cup {m}
                            ELSE Pend(reqs[w], h)
  <2>1. r = Post(reqs, Connected, m)
        BY <1>6, <1>13
  <2>2. QueuesOK(reqs) /\ m \in Messages
        BY <1>10, <1>11
  <2>3. PICK C : C = Connected
        OBVIOUS
  <2>4. \A w \in C \cap Workers : \A h \in About(m) : \A y \in Pend(reqs[w], h) : Rank(y) < Rank(m)
        BY <1>12, <2>3
  <2>5. /\ QueuesOK(Post(reqs, C, m))
        /\ \A w \in Workers : w \notin C => Post(reqs, C, m)[w] = reqs[w]
        /\ \A w \in Workers, h \in Graphs :
             Pend(Post(reqs, C, m)[w], h) = IF w \in C /\ h \in About(m)
                                           THEN Pend(reqs[w], h) \cup {m} ELSE Pend(reqs[w], h)
        BY <2>2, <2>4, PostGood
  <2> QED  BY <2>1, <2>3, <2>5
<1>15. ASSUME NEW w \in Workers, conn[w] PROVE CellAfter(w, g)
  <2>1. CellOK(w, graph[g], nodes[g], "finishing", cn[w][g], Pend(reqs[w], g), Pend(resps[w], g))
    <3>1. Cell(w, g) /\ JobKind(g) = "finishing"
          BY <1>1, <1>2, <1>3, <1>15 DEF RInv, StreamsOK, JobKind
    <3> QED  BY <3>1 DEF Cell, CellWith
  <2>2. CnOK(cn[w][g]) /\ Kind(graph[g].st) = "live" /\ w \notin graph[g].left
        BY <1>2, <1>3, <1>4 DEF RInv, CnsOK, Kind
  <2>3. Pend(r[w], g) = Pend(reqs[w], g) \cup {m}
        BY <1>3, <1>10, <1>11, <1>14, <1>15
  <2>4. CellOK(w, x, nodes[g], JobKind(g)', cn[w][g], Pend(reqs[w], g) \cup {m}, Pend(resps[w], g))
        BY <1>8, <1>11, <2>1, <2>2, CellFinish
  <2> QED  BY <1>6, <1>9, <1>13, <2>3, <2>4 DEF CellAfter, GraphPut
<1>16. GraphOK(g)'
      BY <1>8, <1>9 DEF GraphPut, GraphOK
<1>17. MetaOK(d)'
  <2>1. graph'[Main(d)].st = "running" /\ graph'[JobOf(d)].st = "none"
        BY <1>1, <1>3, <1>4, <1>8, <1>9 DEF GraphPut
  <2> QED  BY <1>2, <1>3, <1>4, <1>6, <2>1 DEF MetaOK
<1>18. panic' \in BOOLEAN /\ (panic' => panic)
      BY <1>4, <1>6 DEF RInv, TypeInv
<1>19. ASSUME NEW h \in Graphs, h # g PROVE JobKind(h)' = JobKind(h)
  <2>1. h[1] \in Databases
        BY GraphFacts
  <2>2. CASE h[1] # d
        BY <1>6, <2>1, <2>2 DEF JobKind
  <2>3. CASE h[1] = d
        BY <1>1, <1>19, <2>3 DEF JobKind
  <2> QED  BY <2>2, <2>3
<1>20. GraphStep(g)
  <2>1. DOMAIN reqs' = Workers /\ DOMAIN resps' = Workers
        BY <1>6, <1>10, <1>13, <1>14 DEF QueuesOK
  <2>2. /\ \A w \in Workers : Good(reqs'[w]) /\ Good(resps'[w])
        /\ \A w \in Workers : ~conn[w] => reqs'[w] = <<>> /\ resps'[w] = <<>>
        BY <1>6, <1>10, <1>13, <1>14 DEF QueuesOK
  <2>3. /\ job[g[1]] = "gone" => job'[g[1]] = "gone"
        /\ g = JobOf(g[1]) /\ job'[g[1]] = "gone" /\ MetaOK(g[1])'
        BY <1>1, <1>3, <1>6, <1>17
  <2>4. /\ graph' \in [Graphs -> GraphState] /\ nodes' \in [Graphs -> SUBSET Workers]
        BY <1>6, <1>9 DEF GraphPut, RInv, TypeInv
  <2>5. \A h \in Graphs : h # g => /\ graph'[h] = graph[h] /\ nodes'[h] = nodes[h]
                                   /\ JobKind(h)' = "finishing" <=> JobKind(h) = "finishing"
        BY <1>6, <1>9, <1>19 DEF GraphPut
  <2>6. \A w \in Workers, h \in Graphs :
          h # g => /\ Pend(reqs'[w], h) = Pend(reqs[w], h)
                   /\ Pend(resps'[w], h) = Pend(resps[w], h)
        BY <1>6, <1>11, <1>13, <1>14
  <2>7. \A e \in Databases :
          e # g[1] => stage'[e] = stage[e] /\ waits'[e] = waits[e] /\ job'[e] = job[e]
        BY <1>3, <1>6
  <2>8. \A w \in Workers : conn[w] => CellAfter(w, g)
        BY <1>15
  <2> QED  BY <1>6, <1>16, <1>18, <2>1, <2>2, <2>3, <2>4, <2>5, <2>6, <2>7, <2>8 DEF GraphStep
<1> QED  BY <1>3, <1>18, <1>20, GraphStepKeeps

(* EnterReset. *)

Failing(F0) == {d \in F0 : stage[d] \in {"running", "initializing"}}
ToReset(F) == UNION {NewResets(d) : d \in F}
ResetList(F) == SetToSeq({ResetGraphs(NewResets(d)) : d \in F})

\* What is reset of a database that fails was live, and nothing else of it is.
LEMMA FailFacts ==
  ASSUME RInv, NEW d \in Databases, stage[d] \in {"running", "initializing"}
  PROVE  /\ NewResets(d) \subseteq GraphsOf(d) /\ Main(d) \in NewResets(d)
         /\ \A g \in NewResets(d) : graph[g].st \in {"running", "initializing"}
         /\ \A g \in GraphsOf(d) \ NewResets(d) :
              /\ graph[g].st = (IF g \in AlreadyResetting(d) THEN "resetting" ELSE "none")
              /\ JobKind(g) # "finishing"
         /\ AlreadyResetting(d) \subseteq GraphsOf(d) \ NewResets(d)
         /\ phase # "boot" /\ JobLost(d) \in {"none", "gone"}
         /\ job[d] = "gone" => JobLost(d) = "gone"
<1>1. MetaOK(d) /\ job[d] \in JobStates
      BY DEF RInv, MetasOK, TypeInv
<1>2. /\ Main(d) \in GraphsOf(d) /\ JobOf(d) # Main(d)
      /\ d \in JobDatabases => JobOf(d) \in GraphsOf(d)
      /\ \A g \in GraphsOf(d) : g = Main(d) \/ (g = JobOf(d) /\ d \in JobDatabases)
      BY DatabaseFacts
<1>3. PICK k, j : k = Main(d) /\ j = JobOf(d)
      OBVIOUS
<1>4. phase # "boot" /\ graph[k].st \in {"running", "initializing"}
      BY <1>1, <1>3 DEF MetaOK
<1>5. d \in JobDatabases =>
        graph[j].st \in IF job[d] \in {"running", "finishing"} THEN {"running", "initializing"}
                        ELSE IF job[d] = "resetting" THEN {"resetting"} ELSE {"none"}
  <2>1. CASE stage[d] = "initializing"
        BY <1>1, <1>3, <2>1 DEF MetaOK
  <2>2. CASE stage[d] = "running"
        BY <1>1, <1>3, <2>2 DEF MetaOK
  <2> QED  BY <2>1, <2>2
<1>6. job[d] \in {"running", "finishing", "resetting"} => d \in JobDatabases
      BY <1>1 DEF MetaOK
<1>7. /\ NewResets(d) = {k} \cup (IF job[d] \in {"running", "finishing"} THEN {j} ELSE {})
      /\ AlreadyResetting(d) = IF job[d] = "resetting" THEN {j} ELSE {}
      BY <1>3 DEF NewResets, AlreadyResetting
<1>8. \A g \in GraphsOf(d) : g[1] = d
      BY DEF GraphsOf
<1>9. ASSUME NEW g \in GraphsOf(d), g \notin NewResets(d)
      PROVE  /\ graph[g].st = (IF g \in AlreadyResetting(d) THEN "resetting" ELSE "none")
             /\ JobKind(g) # "finishing"
  <2>1. g = j /\ d \in JobDatabases /\ job[d] \notin {"running", "finishing"} /\ g[1] = d
        BY <1>2, <1>3, <1>7, <1>8, <1>9
  <2> QED  BY <1>5, <1>7, <2>1 DEF JobKind
<1>10. /\ JobLost(d) \in {"none", "gone"} /\ (job[d] = "gone" => JobLost(d) = "gone")
      BY DEF JobLost
<1>11. /\ NewResets(d) \subseteq GraphsOf(d) /\ Main(d) \in NewResets(d)
       /\ AlreadyResetting(d) \subseteq GraphsOf(d) \ NewResets(d)
      BY <1>2, <1>3, <1>6, <1>7
<1>12. \A g \in NewResets(d) : graph[g].st \in {"running", "initializing"}
      BY <1>4, <1>5, <1>6, <1>7
<1> QED  BY <1>4, <1>9, <1>10, <1>11, <1>12

\* The reset requests of the databases F.
LEMMA ResetListGood ==
  ASSUME NEW F, F \subseteq Databases,
         \A d \in F : NewResets(d) \subseteq GraphsOf(d) /\ Main(d) \in NewResets(d)
  PROVE  /\ Good(ResetList(F)) /\ ToReset(F) \subseteq Graphs
         /\ \A g : g \notin ToReset(F) => Pend(ResetList(F), g) = {}
         /\ \A g \in ToReset(F) :
              \E m \in Messages : m.type = "reset" /\ Pend(ResetList(F), g) = {m}
<1> DEFINE msg(d) == ResetGraphs(NewResets(d))
           S == {msg(d) : d \in F}
<1>1. \A d \in F : \A g \in NewResets(d) : g \in Graphs /\ g[1] = d
      BY DEF GraphsOf
<1>2. \A d \in F : /\ msg(d) \in Messages /\ msg(d).type = "reset" /\ About(msg(d)) = NewResets(d)
  <2> SUFFICES ASSUME NEW d \in F
               PROVE  msg(d) \in Messages /\ msg(d).type = "reset" /\ About(msg(d)) = NewResets(d)
        OBVIOUS
  <2>1. PICK G : G = NewResets(d)
        OBVIOUS
  <2>2. G \in (SUBSET Graphs) \ {{}}
        BY <1>1, <2>1
  <2>3. ResetGraphs(G) \in Messages /\ ResetGraphs(G).type = "reset" /\ About(ResetGraphs(G)) = G
        BY <2>2 DEF ResetGraphs, Messages, About
  <2> QED  BY <2>1, <2>3
<1>3. IsFiniteSet(S)
  <2>1. IsFiniteSet(F)
        BY RecoveryAssumption, FS_Subset
  <2> DEFINE f == [d \in F |-> msg(d)]
  <2>2. f \in Surjection(F, S)
        BY DEF Surjection
  <2> HIDE DEF f, S
  <2> QED  BY <2>1, <2>2, FS_Surjection
<1> HIDE DEF msg
<1>4. S \subseteq Messages
      BY <1>2
<1>5. ASSUME NEW x \in S, NEW y \in S, NEW g \in About(x), g \in About(y) PROVE x = y
  <2>1. PICK d \in F : x = msg(d)
        OBVIOUS
  <2>2. PICK e \in F : y = msg(e)
        OBVIOUS
  <2>3. g \in NewResets(d) /\ g \in NewResets(e)
        BY <1>2, <1>5, <2>1, <2>2
  <2>4. d = e
        BY <1>1, <2>3
  <2> QED  BY <2>1, <2>2, <2>4
<1>6. PICK T : T = S
      OBVIOUS
<1>7. /\ Good(SetToSeq(T)) /\ \A g : Pend(SetToSeq(T), g) = {m \in T : g \in About(m)}
  <2>1. /\ IsFiniteSet(T) /\ T \subseteq Messages
        /\ \A x, y \in T : \A g \in About(x) : g \in About(y) => x = y
        BY <1>3, <1>4, <1>5, <1>6
  <2> QED  BY <2>1, ListGood
<1>8. ResetList(F) = SetToSeq(T)
      BY <1>6 DEF ResetList, msg
<1>9. ASSUME NEW g, g \notin ToReset(F) PROVE Pend(ResetList(F), g) = {}
  <2>1. \A m \in T : g \notin About(m)
        BY <1>2, <1>6, <1>9 DEF ToReset
  <2> QED  BY <1>7, <1>8, <2>1
<1>10. ASSUME NEW g \in ToReset(F)
       PROVE  \E m \in Messages : m.type = "reset" /\ Pend(ResetList(F), g) = {m}
  <2>1. PICK d \in F : g \in NewResets(d)
        BY DEF ToReset
  <2>2. PICK m : m = msg(d)
        OBVIOUS
  <2>3. m \in T /\ m \in Messages /\ m.type = "reset" /\ g \in About(m)
        BY <1>2, <1>6, <2>1, <2>2
  <2>4. \A x \in T : g \in About(x) => x = m
        BY <1>5, <1>6, <2>3
  <2>5. {x \in T : g \in About(x)} = {m}
        BY <2>3, <2>4
  <2> QED  BY <1>7, <1>8, <2>3, <2>5
<1>11. ToReset(F) \subseteq Graphs
      BY <1>1 DEF ToReset
<1> QED  BY <1>7, <1>8, <1>9, <1>10, <1>11

\* The graphs gr and the queues rq with which the databases F are reset on the
\* workers C: what is reset was live, perhaps with more answers under way.
ReadyToReset(F, gr, rq, C) ==
  /\ C \subseteq Workers /\ QueuesOK(rq) /\ gr \in [Graphs -> GraphState]
  /\ \A g \in Graphs : gr[g].st = graph[g].st /\ gr[g].left \subseteq graph[g].left
  /\ \A g \in Graphs : g \notin ToReset(F) => gr[g].left \subseteq C
  /\ \A w \in Workers : w \notin C => rq[w] = <<>>
  /\ \A w \in Workers, g \in Graphs :
       Has(Pend(rq[w], g), "remove") => Has(Pend(reqs[w], g), "remove")
  /\ \A w \in C, g \in Graphs :
       g \notin ToReset(F) =>
         CellOK(w, gr[g], nodes[g], JobKind(g), cn[w][g], Pend(rq[w], g), Pend(resps'[w], g))
  /\ \A w \in C, g \in ToReset(F) :
       \E A : LiveCell(w, g, Pend(rq[w], g), A) /\ Pend(resps'[w], g) \subseteq A

\* The rest of a step that resets graphs on the workers C.
OtherwiseOK(C) ==
  /\ conn' \in [Workers -> BOOLEAN] /\ \A w \in Workers : conn'[w] <=> w \in C
  /\ QueuesOK(resps') /\ \A w \in Workers : w \notin C => resps'[w] = <<>>
  /\ DOMAIN cn' = Workers /\ \A w \in Workers : DOMAIN cn'[w] = Graphs
  /\ \A w \in C : cn'[w] = cn[w]
  /\ batches' \in [Workers -> SUBSET SUBSET Graphs]
  /\ CnsOK'
  /\ phase' = phase /\ nodes' = nodes /\ lastTerm' = lastTerm /\ xreq' = xreq

\* A database that waits for fewer workers.
LEMMA FewerWaited ==
  ASSUME NEW d \in Databases, MetaOK(d), stage'[d] = stage[d], waits'[d] = waits[d],
         job'[d] = job[d], phase' = phase,
         \A g \in GraphsOf(d) : graph'[g].st = graph[g].st /\ graph'[g].left \subseteq graph[g].left
  PROVE  MetaOK(d)'
<1>1. Main(d) \in GraphsOf(d) /\ (d \in JobDatabases => JobOf(d) \in GraphsOf(d))
      BY DatabaseFacts
<1>2. /\ graph'[Main(d)].st = graph[Main(d)].st
      /\ d \in JobDatabases => graph'[JobOf(d)].st = graph[JobOf(d)].st
      BY <1>1
<1>3. \A x : {g \in GraphsOf(d) : graph'[g].st = x} = {g \in GraphsOf(d) : graph[g].st = x}
      OBVIOUS
<1>4. waits'[d] = IF stage'[d] = "resetting" THEN {g \in GraphsOf(d) : graph'[g].st = "resetting"}
                  ELSE IF stage'[d] = "initializing"
                  THEN {g \in GraphsOf(d) : graph'[g].st = "initializing"} ELSE {}
      BY <1>3 DEF MetaOK
<1>5. stage'[d] = "running" =>
         /\ graph'[Main(d)].st = "running"
         /\ d \in JobDatabases =>
              CASE job'[d] \in {"running", "finishing"} -> graph'[JobOf(d)].st = "running"
                [] job'[d] = "resetting" -> graph'[JobOf(d)].st = "resetting"
                [] OTHER -> graph'[JobOf(d)].st = "none"
      BY <1>2 DEF MetaOK
<1>6. \A g \in GraphsOf(d) : graph[g].left = {} => graph'[g].left = {}
      OBVIOUS
<1> QED  BY <1>2, <1>4, <1>5, <1>6 DEF MetaOK

\* on_report_failure and EnterReset.
LEMMA EnterResetKeeps ==
  ASSUME RInv, NEW F0, F0 \subseteq Databases, NEW F, F = Failing(F0), NEW gr, NEW rq, NEW C,
         ReadyToReset(F, gr, rq, C), OtherwiseOK(C), EnterReset(F0, gr, rq, C)
  PROVE  RInv' /\ (panic' => panic)
<1>1. PICK R : R = ToReset(F)
      OBVIOUS
<1>2. PICK q : q = ResetList(F)
      OBVIOUS
<1>3. PICK x : x = [st |-> "resetting", term |-> 0, epoch |-> 0, left |-> C]
      OBVIOUS
<1>4. C \subseteq Workers /\ QueuesOK(rq) /\ gr \in [Graphs -> GraphState]
      BY DEF ReadyToReset
<1>5. x \in GraphState /\ x.st = "resetting" /\ x.left = C
      BY <1>3, <1>4 DEF GraphState
<1>6. /\ graph' = [g \in Graphs |-> IF g \in R THEN x ELSE gr[g]]
      /\ reqs' = [w \in Workers |-> IF w \in C THEN rq[w] \o q ELSE rq[w]]
      /\ panic' = (panic \/ \E g \in R : gr[g].st = "resetting")
      /\ stage' = [d \in Databases |-> IF d \in F THEN "resetting" ELSE stage[d]]
      /\ waits' = [d \in Databases |->
                     IF d \in F THEN NewResets(d) \cup AlreadyResetting(d) ELSE waits[d]]
      /\ job' = [d \in Databases |-> IF d \in F THEN JobLost(d) ELSE job[d]]
      BY <1>1, <1>2, <1>3 DEF EnterReset, Failing, ToReset, ResetList, RemainingWorkers
<1>7. /\ F \subseteq Databases
      /\ \A d \in F : stage[d] \in {"running", "initializing"}
      BY DEF Failing
<1>8. \A d \in F :
        /\ NewResets(d) \subseteq GraphsOf(d) /\ Main(d) \in NewResets(d)
        /\ \A g \in NewResets(d) : graph[g].st \in {"running", "initializing"}
        /\ \A g \in GraphsOf(d) \ NewResets(d) :
             /\ graph[g].st = (IF g \in AlreadyResetting(d) THEN "resetting" ELSE "none")
             /\ JobKind(g) # "finishing"
        /\ AlreadyResetting(d) \subseteq GraphsOf(d) \ NewResets(d)
        /\ phase # "boot" /\ JobLost(d) \in {"none", "gone"}
        /\ job[d] = "gone" => JobLost(d) = "gone"
      BY <1>7, FailFacts
<1>9. /\ Good(q) /\ R \subseteq Graphs
      /\ \A g : g \notin R => Pend(q, g) = {}
      /\ \A g \in R : \E m \in Messages : m.type = "reset" /\ Pend(q, g) = {m}
      BY <1>1, <1>2, <1>7, <1>8, ResetListGood
<1>10. \A g \in Graphs : g \in R <=> g[1] \in F /\ g \in NewResets(g[1])
      BY <1>1, <1>8 DEF ToReset, GraphsOf
<1>11. \A g \in R : graph[g].st \in {"running", "initializing"}
      BY <1>8, <1>9, <1>10
<1>12. \A g \in Graphs : gr[g].st = graph[g].st /\ gr[g].left \subseteq graph[g].left
      BY DEF ReadyToReset
<1>13. panic' \in BOOLEAN /\ (panic' => panic)
      BY <1>6, <1>9, <1>11, <1>12 DEF RInv, TypeInv
<1>14. \A g \in Graphs : graph'[g] = IF g \in R THEN x ELSE gr[g]
      BY <1>6
<1>15. graph' \in [Graphs -> GraphState]
      BY <1>4, <1>5, <1>6
<1>16. ASSUME NEW w \in C
       PROVE  /\ Good(rq[w] \o q)
              /\ \A g : Pend(rq[w] \o q, g) = Pend(rq[w], g) \cup Pend(q, g)
  <2>1. Good(rq[w])
        BY <1>4, <1>16 DEF QueuesOK
  <2>2. ASSUME NEW g \in Graphs, NEW y \in Pend(rq[w], g), NEW z \in Pend(q, g)
        PROVE  Rank(y) < Rank(z)
    <3>1. g \in R
          BY <1>9, <2>2
    <3>2. z.type = "reset"
          BY <1>9, <2>2, <3>1
    <3>3. PICK A : LiveCell(w, g, Pend(rq[w], g), A)
          BY <1>1, <3>1 DEF ReadyToReset
    <3>4. Pend(rq[w], g) \subseteq Messages
          BY PendIn
    <3>5. Rank(y) < 3
          BY <3>3, <3>4, LiveRanks
    <3> QED  BY <3>2, <3>5 DEF Rank
  <2> QED  BY <1>9, <2>1, <2>2, ConcatGood
<1>17. /\ DOMAIN reqs' = Workers
       /\ \A w \in Workers : reqs'[w] = IF w \in C THEN rq[w] \o q ELSE rq[w]
      BY <1>6
<1>18. QueuesOK(reqs') /\ \A w \in Workers : w \notin C => reqs'[w] = <<>>
  <2>1. \A w \in Workers : w \notin C => reqs'[w] = <<>>
        BY <1>17 DEF ReadyToReset
  <2>2. ASSUME NEW w \in Workers PROVE Good(reqs'[w])
    <3>1. CASE w \in C
          BY <1>16, <1>17, <3>1
    <3>2. CASE w \notin C
          BY <2>1, <3>2, EmptyGood
    <3> QED  BY <3>1, <3>2
  <2> QED  BY <1>17, <2>1, <2>2 DEF QueuesOK
<1>19. \A w \in C, g \in Graphs : Pend(reqs'[w], g) = Pend(rq[w], g) \cup Pend(q, g)
      BY <1>4, <1>16, <1>17
<1>20. /\ stage' \in [Databases -> Stages] /\ job' \in [Databases -> JobStates]
       /\ waits' \in [Databases -> SUBSET Graphs]
  <2>1. /\ \A d \in Databases : (IF d \in F THEN "resetting" ELSE stage[d]) \in Stages
        /\ \A d \in Databases : (IF d \in F THEN JobLost(d) ELSE job[d]) \in JobStates
        BY <1>8 DEF RInv, TypeInv, Stages, JobStates
  <2>2. ASSUME NEW d \in Databases
        PROVE (IF d \in F THEN NewResets(d) \cup AlreadyResetting(d) ELSE waits[d]) \subseteq Graphs
        BY <1>8 DEF RInv, TypeInv, GraphsOf
  <2> QED  BY <1>6, <2>1, <2>2
<1>21. \A d \in Databases :
         IF d \in F THEN /\ stage'[d] = "resetting" /\ job'[d] = JobLost(d)
                         /\ waits'[d] = NewResets(d) \cup AlreadyResetting(d)
         ELSE stage'[d] = stage[d] /\ job'[d] = job[d] /\ waits'[d] = waits[d]
      BY <1>6
<1>22. TypeInv'
  <2>1. DOMAIN reqs' = Workers /\ DOMAIN resps' = Workers
        BY <1>17 DEF OtherwiseOK, QueuesOK
  <2> QED  BY <1>13, <1>15, <1>20, <2>1 DEF OtherwiseOK, RInv, TypeInv
<1>23. ASSUME NEW g \in Graphs, g \notin R
       PROVE  JobKind(g)' = "finishing" <=> JobKind(g) = "finishing"
  <2>1. g[1] \in Databases /\ g \in GraphsOf(g[1])
        BY GraphFacts
  <2>2. CASE g[1] \in F
    <3>1. JobKind(g) # "finishing" /\ job'[g[1]] \in {"none", "gone"}
          BY <1>8, <1>10, <1>21, <1>23, <2>1, <2>2
    <3> QED  BY <3>1 DEF JobKind
  <2>3. CASE g[1] \notin F
        BY <1>21, <2>1, <2>3 DEF JobKind
  <2> QED  BY <2>2, <2>3
<1>24. ASSUME NEW w \in C, NEW g \in Graphs PROVE Cell(w, g)'
  <2>1. cn'[w][g] = cn[w][g] /\ CnOK(cn[w][g]) /\ w \in Workers
        BY <1>4 DEF OtherwiseOK, RInv, CnsOK
  <2>2. CASE g \in R
    <3>1. PICK A : LiveCell(w, g, Pend(rq[w], g), A) /\ Pend(resps'[w], g) \subseteq A
          BY <1>1, <2>2 DEF ReadyToReset
    <3>2. PICK s, N, j : Kind(s.st) = "live" /\ CellOK(w, s, N, j, cn[w][g], Pend(rq[w], g), A)
          BY <3>1 DEF LiveCell
    <3>3. PICK m : m.type = "reset" /\ Pend(q, g) = {m}
          BY <1>9, <2>2
    <3>4. PICK A2 : A2 = Pend(resps'[w], g)
          OBVIOUS
    <3>5. CellOK(w, x, nodes[g], JobKind(g)', cn[w][g], Pend(rq[w], g) \cup {m}, A2)
          BY <1>5, <2>1, <3>1, <3>2, <3>3, <3>4, CellReset
    <3>6. Pend(reqs'[w], g) = Pend(rq[w], g) \cup {m} /\ graph'[g] = x
          BY <1>14, <1>19, <2>2, <3>3
    <3> QED  BY <2>1, <3>4, <3>5, <3>6 DEF Cell, CellWith, OtherwiseOK
  <2>3. CASE g \notin R
    <3>1. CellOK(w, gr[g], nodes[g], JobKind(g), cn[w][g], Pend(rq[w], g), Pend(resps'[w], g))
          BY <1>1, <2>3 DEF ReadyToReset
    <3>2. PICK A2 : A2 = Pend(resps'[w], g)
          OBVIOUS
    <3>3. CellOK(w, gr[g], nodes[g], JobKind(g)', cn[w][g], Pend(rq[w], g), A2)
          BY <1>23, <2>1, <2>3, <3>1, <3>2, CellSame
    <3>4. Pend(reqs'[w], g) = Pend(rq[w], g) /\ graph'[g] = gr[g]
      <4>1. Pend(q, g) = {}
            BY <1>9, <2>3
      <4>2. Pend(reqs'[w], g) = Pend(rq[w], g) \cup Pend(q, g)
            BY <1>19
      <4> QED  BY <1>14, <2>3, <4>1, <4>2
    <3> QED  BY <2>1, <3>2, <3>3, <3>4 DEF Cell, CellWith, OtherwiseOK
  <2> QED  BY <2>2, <2>3
<1>25. StreamsOK'
  <2>1. ASSUME NEW w \in Workers
        PROVE  /\ Good(reqs'[w]) /\ Good(resps'[w])
               /\ conn'[w] => \A g \in Graphs : Cell(w, g)'
               /\ ~conn'[w] => reqs'[w] = <<>> /\ resps'[w] = <<>>
    <3>1. conn'[w] <=> w \in C
          BY DEF OtherwiseOK
    <3>2. Good(reqs'[w]) /\ Good(resps'[w])
          BY <1>18 DEF OtherwiseOK, QueuesOK
    <3>3. w \notin C => reqs'[w] = <<>> /\ resps'[w] = <<>>
          BY <1>18 DEF OtherwiseOK
    <3> QED  BY <1>24, <3>1, <3>2, <3>3
  <2> QED  BY <2>1 DEF StreamsOK
<1>26. RemovedForGood'
  <2> SUFFICES ASSUME NEW w \in Workers, NEW g \in Graphs, Has(Pend(reqs'[w], g), "remove")
               PROVE  g = JobOf(g[1]) /\ job'[g[1]] = "gone"
        BY DEF RemovedForGood
  <2>1. w \in C
        BY <1>18, EmptyGood DEF Has
  <2>2. \A m \in Pend(q, g) : m.type = "reset"
        BY <1>9
  <2>3. Has(Pend(rq[w], g), "remove")
        BY <1>19, <2>1, <2>2 DEF Has
  <2>4. g = JobOf(g[1]) /\ job[g[1]] = "gone"
        BY <2>3 DEF ReadyToReset, RInv, RemovedForGood
  <2>5. g[1] \in Databases
        BY GraphFacts
  <2> QED  BY <1>8, <1>21, <2>4, <2>5
<1>27. ASSUME NEW g \in Graphs PROVE GraphOK(g)'
  <2>1. Connected' = C
        BY <1>4 DEF Connected, OtherwiseOK
  <2>2. CASE g \in R
        BY <1>5, <1>14, <2>1, <2>2 DEF GraphOK
  <2>3. CASE g \notin R
    <3>1. GraphOK(g) /\ gr[g].st = graph[g].st /\ gr[g].left \subseteq graph[g].left
          BY <1>12 DEF RInv, MetasOK
    <3>2. gr[g].left \subseteq C /\ graph'[g] = gr[g] /\ nodes'[g] = nodes[g]
          BY <1>1, <1>14, <2>3 DEF ReadyToReset, OtherwiseOK
    <3> QED  BY <2>1, <3>1, <3>2 DEF GraphOK
  <2> QED  BY <2>2, <2>3
<1>28. ASSUME NEW d \in Databases PROVE MetaOK(d)'
  <2>1. MetaOK(d) /\ GraphsOf(d) \subseteq Graphs
        BY DEF RInv, MetasOK, GraphsOf
  <2>2. CASE d \notin F
    <3>1. \A g \in GraphsOf(d) :
            graph'[g].st = graph[g].st /\ graph'[g].left \subseteq graph[g].left
          BY <1>10, <1>12, <1>14, <2>1, <2>2 DEF GraphsOf
    <3> QED  BY <1>21, <2>1, <2>2, <3>1, FewerWaited DEF OtherwiseOK
  <2>3. CASE d \in F
    <3>1. \A g \in GraphsOf(d) :
            graph'[g].st = IF g \in NewResets(d) \cup AlreadyResetting(d) THEN "resetting" ELSE "none"
          BY <1>5, <1>8, <1>10, <1>12, <1>14, <2>1, <2>3 DEF GraphsOf
    <3>2. NewResets(d) \cup AlreadyResetting(d) = {g \in GraphsOf(d) : graph'[g].st = "resetting"}
          BY <1>8, <2>3, <3>1
    <3>3. /\ stage'[d] = "resetting" /\ job'[d] \in {"none", "gone"} /\ phase' # "boot"
          /\ waits'[d] = {g \in GraphsOf(d) : graph'[g].st = "resetting"}
          BY <1>8, <1>21, <2>3, <3>2 DEF OtherwiseOK
    <3>4. \A g \in GraphsOf(d) : graph'[g].st \in {"none", "resetting"}
          BY <3>1
    <3> QED  BY <3>3, <3>4 DEF MetaOK
  <2> QED  BY <2>2, <2>3
<1> QED  BY <1>13, <1>22, <1>25, <1>26, <1>27, <1>28 DEF OtherwiseOK, RInv, MetasOK

\* The graphs and the connected workers as they are.
LEMMA ReadyNow ==
  ASSUME RInv, NEW F, NEW rq, QueuesOK(rq), \A w \in Workers : ~conn[w] => rq[w] = <<>>,
         \A w \in Workers, h \in Graphs : \/ Pend(rq[w], h) = Pend(reqs[w], h)
                                          \/ ~Has(Pend(rq[w], h), "remove"),
         \A w \in Workers, h \in Graphs : conn[w] =>
           IF h \in ToReset(F)
           THEN /\ LiveCell(w, h, Pend(rq[w], h), Pend(resps[w], h))
                /\ Pend(resps'[w], h) \subseteq Pend(resps[w], h)
           ELSE Pend(rq[w], h) = Pend(reqs[w], h) /\ Pend(resps'[w], h) = Pend(resps[w], h),
         ToReset(F) \subseteq Graphs
  PROVE  ReadyToReset(F, graph, rq, Connected)
<1>1. /\ Connected \subseteq Workers /\ \A w \in Workers : w \in Connected <=> conn[w]
      BY DEF Connected
<1>2. graph \in [Graphs -> GraphState] /\ \A g \in Graphs : graph[g].left \subseteq Connected
      BY DEF RInv, TypeInv, MetasOK, GraphOK
<1>3. \A w \in Workers, g \in Graphs :
        Has(Pend(rq[w], g), "remove") => Has(Pend(reqs[w], g), "remove")
      OBVIOUS
<1>4. ASSUME NEW w \in Connected, NEW g \in Graphs, g \notin ToReset(F)
      PROVE  CellOK(w, graph[g], nodes[g], JobKind(g), cn[w][g], Pend(rq[w], g), Pend(resps'[w], g))
  <2>1. Cell(w, g) /\ w \in Workers /\ conn[w]
        BY <1>1 DEF RInv, StreamsOK
  <2>2. Pend(rq[w], g) = Pend(reqs[w], g) /\ Pend(resps'[w], g) = Pend(resps[w], g)
        BY <1>4, <2>1
  <2> QED  BY <2>1, <2>2 DEF Cell, CellWith
<1>5. ASSUME NEW w \in Connected, NEW g \in ToReset(F)
      PROVE  \E A : LiveCell(w, g, Pend(rq[w], g), A) /\ Pend(resps'[w], g) \subseteq A
      BY <1>1
<1>6. \A w \in Workers : w \notin Connected => rq[w] = <<>>
      BY <1>1
<1> QED  BY <1>1, <1>2, <1>3, <1>4, <1>5, <1>6 DEF ReadyToReset

\* The queues r are those with barrier e of graph g sent, to the workers it can be
\* sent to; j2: its job after it.
BarrierSent(g, e, j2, r) ==
  /\ QueuesOK(r) /\ \A w \in Workers : ~conn[w] => r[w] = <<>>
  /\ \A w \in Workers, h \in Graphs : h # g => Pend(r[w], h) = Pend(reqs[w], h)
  /\ \A w \in Workers : ~Has(Pend(r[w], g), "remove")
  /\ \A w \in Workers : conn[w] =>
       \A s2 : /\ Kind(s2.st) = "live" /\ s2.term = graph[g].term /\ s2.epoch = e
               /\ w \in s2.left <=> w \in nodes[g]
               => CellOK(w, s2, nodes[g], j2, cn[w][g], Pend(r[w], g), Pend(resps[w], g))

LEMMA BarrierCells ==
  ASSUME RInv, NEW g \in Graphs, graph[g].st = "running", graph[g].left = {},
         JobKind(g) # "finishing", NEW e \in Nat, NEW kind \in {"plain", "stop"},
         NEW m, m = Inject(g, graph[g].term, e, kind),
         NEW r, r = Post(reqs, nodes[g] \cap Connected, m),
         NEW j2, kind = "stop" <=> j2 = "finishing"
  PROVE  BarrierSent(g, e, j2, r)
<1>1. /\ QueuesOK(reqs) /\ \A w \in Workers : ~conn[w] => reqs[w] = <<>>
      /\ \A w \in Workers : w \in Connected <=> conn[w]
      BY QueuesNow
<1>2. PICK t : t = graph[g].term
      OBVIOUS
<1>3. t \in Nat /\ Kind(graph[g].st) = "live"
  <2>1. graph[g] \in GraphState
        BY DEF RInv, TypeInv
  <2> QED  BY <1>2, <2>1 DEF GraphState, Kind
<1>4. /\ m \in Messages /\ About(m) = {g} /\ m.type = "inject" /\ m.term = t /\ m.epoch = e
      /\ m.kind = kind /\ Rank(m) = 2
      BY <1>2, <1>3 DEF Inject, Messages, About, Rank
<1>5. ASSUME NEW w \in Workers, conn[w]
      PROVE  /\ CellOK(w, graph[g], nodes[g], JobKind(g), cn[w][g], Pend(reqs[w], g), Pend(resps[w], g))
             /\ CnOK(cn[w][g])
             /\ \A y \in Pend(reqs[w], g) : y.type = "create" /\ Rank(y) = 1
  <2>1. Cell(w, g) /\ CnOK(cn[w][g])
        BY <1>5 DEF RInv, StreamsOK, CnsOK
  <2>2. CellOK(w, graph[g], nodes[g], JobKind(g), cn[w][g], Pend(reqs[w], g), Pend(resps[w], g))
        BY <2>1 DEF Cell, CellWith
  <2>3. \A y \in Pend(reqs[w], g) : y.type = "create"
        BY <1>3, <2>2 DEF CellOK, RequestTypes
  <2> QED  BY <2>1, <2>2, <2>3 DEF Rank
<1>6. PICK D : D = nodes[g] \cap Connected
      OBVIOUS
<1>7. \A w \in D \cap Workers : \A h \in About(m) : \A y \in Pend(reqs[w], h) : Rank(y) < Rank(m)
      BY <1>1, <1>4, <1>5, <1>6
<1>8. /\ QueuesOK(r)
      /\ \A w \in Workers : w \notin D => r[w] = reqs[w]
      /\ \A w \in Workers, h \in Graphs :
           Pend(r[w], h) = IF w \in D /\ h \in About(m) THEN Pend(reqs[w], h) \cup {m}
                           ELSE Pend(reqs[w], h)
  <2>1. QueuesOK(reqs) /\ m \in Messages
        BY <1>1, <1>4
  <2>2. /\ QueuesOK(Post(reqs, D, m))
        /\ \A w \in Workers : w \notin D => Post(reqs, D, m)[w] = reqs[w]
        /\ \A w \in Workers, h \in Graphs :
             Pend(Post(reqs, D, m)[w], h) = IF w \in D /\ h \in About(m)
                                            THEN Pend(reqs[w], h) \cup {m} ELSE Pend(reqs[w], h)
        BY <1>7, <2>1, PostGood
  <2> QED  BY <1>6, <2>2
<1>9. \A w \in Workers : ~conn[w] => r[w] = <<>>
      BY <1>1, <1>6, <1>8
<1>10. \A w \in Workers, h \in Graphs : h # g => Pend(r[w], h) = Pend(reqs[w], h)
      BY <1>4, <1>8
<1>11. ASSUME NEW w \in Workers, conn[w]
       PROVE  Pend(r[w], g) = IF w \in nodes[g] THEN Pend(reqs[w], g) \cup {m} ELSE Pend(reqs[w], g)
      BY <1>1, <1>4, <1>6, <1>8, <1>11
<1>12. ASSUME NEW w \in Workers PROVE ~Has(Pend(r[w], g), "remove")
  <2>1. CASE conn[w]
        BY <1>4, <1>5, <1>11, <2>1 DEF Has
  <2>2. CASE ~conn[w]
        BY <1>9, <2>2, EmptyGood DEF Has
  <2> QED  BY <2>1, <2>2
<1>13. ASSUME NEW w \in Workers, conn[w], NEW s2, Kind(s2.st) = "live", s2.term = graph[g].term,
              s2.epoch = e, w \in s2.left <=> w \in nodes[g]
       PROVE  CellOK(w, s2, nodes[g], j2, cn[w][g], Pend(r[w], g), Pend(resps[w], g))
  <2>1. /\ CellOK(w, graph[g], nodes[g], JobKind(g), cn[w][g], Pend(reqs[w], g), Pend(resps[w], g))
        /\ CnOK(cn[w][g]) /\ w \notin graph[g].left
        BY <1>5, <1>13
  <2>2. /\ m.type = "inject" /\ m.term = graph[g].term /\ m.epoch = s2.epoch
        /\ m.kind = "stop" <=> j2 = "finishing"
        BY <1>2, <1>4, <1>13
  <2>3. CellOK(w, s2, nodes[g], j2, cn[w][g],
               IF w \in nodes[g] THEN Pend(reqs[w], g) \cup {m} ELSE Pend(reqs[w], g),
               Pend(resps[w], g))
        BY <1>3, <1>13, <2>1, <2>2, CellBarrier
  <2> QED  BY <1>11, <1>13, <2>3
<1> QED  BY <1>8, <1>9, <1>10, <1>12, <1>13 DEF BarrierSent

\* A graph after its next barrier.
LEMMA BarrierPut ==
  ASSUME RInv, NEW g \in Graphs, NEW e \in Nat, NEW N \in SUBSET Workers,
         graph' = [graph EXCEPT ![g].epoch = e, ![g].left = N]
  PROVE  \E x : /\ GraphPut(g, x) /\ x.st = graph[g].st /\ x.term = graph[g].term
                /\ x.epoch = e /\ x.left = N
<1>1. PICK c : c = graph[g]
      OBVIOUS
<1>2. c \in GraphState /\ graph \in [Graphs -> GraphState]
      BY <1>1 DEF RInv, TypeInv
<1>3. DOMAIN c = {"st", "term", "epoch", "left"}
      BY <1>2 DEF GraphState
<1>4. PICK x : x = [c EXCEPT !.epoch = e, !.left = N]
      OBVIOUS
<1>5. DOMAIN graph = Graphs
      BY <1>2
<1>6. graph' = [graph EXCEPT ![g] = x]
      BY <1>1, <1>4, <1>5, Zenon
<1>7. "st" # "epoch" /\ "st" # "left" /\ "term" # "epoch" /\ "term" # "left" /\ "epoch" # "left"
      OBVIOUS
<1>8. x.st = c.st /\ x.term = c.term /\ x.epoch = e /\ x.left = N
      BY <1>3, <1>4, <1>7, Zenon
<1>9. x \in GraphState
      BY <1>2, <1>4 DEF GraphState
<1>10. GraphPut(g, x)
      BY <1>6, <1>9, PutGraph
<1> QED  BY <1>1, <1>8, <1>10

\* The graph whose next barrier is injected runs, and is of the database or of a
\* job that is not finishing.
Injectable(g, kind, jobNext) ==
  LET d == g[1]
  IN \/ g = Main(d) /\ kind = "plain" /\ jobNext = job[d]
     \/ /\ g = JobOf(d) /\ job[d] = "running"
        /\ \/ kind = "plain" /\ jobNext = "running"
           \/ kind = "stop" /\ jobNext = "finishing"

LEMMA NextBarrierKeeps ==
  ASSUME RInv, NEW g \in Graphs, NEW kind \in {"plain", "stop"}, NEW jobNext,
         Injectable(g, kind, jobNext), NextBarrier(g, kind, jobNext)
  PROVE  RInv' /\ (panic' => panic)
<1>1. PICK d : d = g[1]
      OBVIOUS
<1>2. d \in Databases /\ g \in GraphsOf(d) /\ Main(d) # JobOf(d)
      BY <1>1, GraphFacts, DatabaseFacts
<1>3. /\ MetaOK(d) /\ stage[d] = "running" /\ phase = "running" /\ graph[g].left = {}
      BY <1>1, <1>2 DEF RInv, MetasOK, NextBarrier
<1>4. /\ NewResets(d) \subseteq GraphsOf(d) /\ Main(d) \in NewResets(d)
      /\ \A h \in NewResets(d) : graph[h].st \in {"running", "initializing"}
      BY <1>2, <1>3, FailFacts
<1>5. g \in NewResets(d) /\ graph[g].st = "running"
  <2>1. CASE g = Main(d)
        BY <1>3, <1>4, <2>1 DEF MetaOK
  <2>2. CASE g = JobOf(d) /\ job[d] = "running"
        BY <1>3, <2>2 DEF MetaOK, NewResets
  <2> QED  BY <1>1, <2>1, <2>2 DEF Injectable
<1>6. PICK e, m : e = graph[g].epoch + 1 /\ m = Inject(g, graph[g].term, e, kind)
      OBVIOUS
<1>7. e \in Nat /\ graph[g].term \in Nat /\ nodes[g] \in SUBSET Workers
  <2>1. graph[g] \in GraphState
        BY DEF RInv, TypeInv
  <2> QED  BY <1>6, <2>1 DEF GraphState, RInv, TypeInv
<1>8. PICK r : r = Post(reqs, nodes[g] \cap Connected, m)
      OBVIOUS
<1>9. InjectTo(reqs, Connected, g, graph[g].term, e, kind, nodes[g], FALSE) = r
      BY <1>6, <1>8 DEF InjectTo
<1>10. PICK j2 : j2 = IF g = JobOf(d) THEN jobNext ELSE "main"
      OBVIOUS
<1>11. JobKind(g) # "finishing" /\ (kind = "stop" <=> j2 = "finishing")
      BY <1>1, <1>2, <1>10 DEF JobKind, Injectable
<1>12. /\ QueuesOK(r) /\ \A w \in Workers : ~conn[w] => r[w] = <<>>
       /\ \A w \in Workers, h \in Graphs : h # g => Pend(r[w], h) = Pend(reqs[w], h)
       /\ \A w \in Workers : ~Has(Pend(r[w], g), "remove")
       /\ \A w \in Workers : conn[w] =>
            \A s2 : /\ Kind(s2.st) = "live" /\ s2.term = graph[g].term /\ s2.epoch = e
                    /\ w \in s2.left <=> w \in nodes[g]
                    => CellOK(w, s2, nodes[g], j2, cn[w][g], Pend(r[w], g), Pend(resps[w], g))
  <2>1. graph[g].st = "running" /\ graph[g].left = {} /\ JobKind(g) # "finishing" /\ e \in Nat
        BY <1>3, <1>5, <1>7, <1>11
  <2>2. kind = "stop" <=> j2 = "finishing"
        BY <1>11
  <2>3. m = Inject(g, graph[g].term, e, kind) /\ r = Post(reqs, nodes[g] \cap Connected, m)
        BY <1>6, <1>8
  <2>4. BarrierSent(g, e, j2, r)
        BY <2>1, <2>2, <2>3, BarrierCells
  <2> QED  BY <2>4 DEF BarrierSent
<1>13. /\ conn' = conn /\ cn' = cn /\ batches' = batches /\ xreq' = xreq /\ phase' = phase
       /\ resps' = resps /\ lastTerm' = lastTerm /\ nodes' = nodes
      BY DEF NextBarrier, cnVars, xVars
<1>14. /\ QueuesOK(resps) /\ \A w \in Workers : ~conn[w] => resps[w] = <<>>
       /\ \A w \in Workers : w \in Connected <=> conn[w]
       /\ Connected \subseteq Workers
      BY QueuesNow
<1>15. CASE nodes[g] \subseteq Connected
  <2>1. /\ graph' = [graph EXCEPT ![g].epoch = e, ![g].left = nodes[g]]
        /\ reqs' = r /\ job' = [job EXCEPT ![d] = jobNext]
        /\ stage' = stage /\ waits' = waits /\ panic' = panic
        BY <1>1, <1>6, <1>9, <1>15 DEF NextBarrier
  <2>2. PICK x : /\ GraphPut(g, x) /\ x.st = graph[g].st /\ x.term = graph[g].term
                 /\ x.epoch = e /\ x.left = nodes[g]
        BY <1>7, <2>1, BarrierPut
  <2>3. jobNext \in JobStates /\ (job[d] = "gone" => jobNext = "gone")
    <3>1. job[d] \in JobStates
          BY <1>2 DEF RInv, TypeInv
    <3> QED  BY <1>1, <3>1 DEF Injectable, JobStates
  <2>4. /\ job' \in [Databases -> JobStates] /\ job'[d] = jobNext
        /\ \A f \in Databases : f # d => job'[f] = job[f]
        BY <1>2, <2>1, <2>3 DEF RInv, TypeInv
  <2>5. JobKind(g)' = j2
        BY <1>1, <1>10, <2>4 DEF JobKind
  <2>6. ASSUME NEW w \in Workers, conn[w] PROVE CellAfter(w, g)
    <3>1. Kind(x.st) = "live" /\ graph'[g] = x
          BY <1>5, <2>2 DEF Kind, GraphPut
    <3>2. CellOK(w, x, nodes[g], j2, cn[w][g], Pend(r[w], g), Pend(resps[w], g))
          BY <1>12, <2>2, <2>6, <3>1
    <3> QED  BY <1>13, <2>1, <2>5, <3>1, <3>2 DEF CellAfter
  <2>7. ASSUME NEW h \in Graphs, h # g
        PROVE  JobKind(h)' = "finishing" <=> JobKind(h) = "finishing"
    <3>1. h[1] \in Databases
          BY GraphFacts
    <3>2. CASE h[1] # d
          BY <2>4, <3>1, <3>2 DEF JobKind
    <3>3. CASE h[1] = d
          BY <1>1, <2>4, <2>7, <3>3 DEF JobKind, Injectable
    <3> QED  BY <3>2, <3>3
  <2>8. GraphOK(g)'
    <3>1. Connected' = Connected
          BY <1>13 DEF Connected
    <3> QED  BY <1>5, <1>13, <1>15, <2>2, <3>1 DEF GraphPut, GraphOK
  <2>9. \A h \in Graphs : graph'[h].st = graph[h].st
        BY <2>2 DEF GraphPut
  <2>10. MetaOK(d)'
    <3>1. Main(d) \in Graphs /\ (d \in JobDatabases => JobOf(d) \in Graphs)
          BY <1>2, DatabaseFacts
    <3>2. /\ graph[Main(d)].st = "running" /\ waits[d] = {}
          /\ job[d] \in {"running", "finishing", "resetting"} => d \in JobDatabases
          /\ d \in JobDatabases => CASE job[d] \in {"running", "finishing"} -> graph[JobOf(d)].st = "running"
              [] job[d] = "resetting" -> graph[JobOf(d)].st = "resetting"
              [] OTHER -> graph[JobOf(d)].st = "none"
          BY <1>3 DEF MetaOK
    <3>3. jobNext = job[d] \/ (job[d] = "running" /\ jobNext = "finishing")
          BY <1>1 DEF Injectable
    <3>4. /\ job'[d] \in {"running", "finishing", "resetting"} => d \in JobDatabases
          /\ d \in JobDatabases => CASE job'[d] \in {"running", "finishing"} -> graph'[JobOf(d)].st = "running"
              [] job'[d] = "resetting" -> graph'[JobOf(d)].st = "resetting"
              [] OTHER -> graph'[JobOf(d)].st = "none"
      <4>1. CASE jobNext = job[d]
            BY <2>4, <2>9, <3>1, <3>2, <4>1
      <4>2. CASE job[d] = "running" /\ jobNext = "finishing"
            BY <2>4, <2>9, <3>1, <3>2, <4>2
      <4> QED  BY <3>3, <4>1, <4>2
    <3>5. graph'[Main(d)].st = "running" /\ waits'[d] = {} /\ stage'[d] = "running" /\ phase' = "running"
          BY <1>3, <1>13, <2>1, <2>9, <3>1, <3>2
    <3> QED  BY <3>4, <3>5 DEF MetaOK
  <2>11. GraphStep(g)
    <3>1. /\ DOMAIN reqs' = Workers /\ DOMAIN resps' = Workers
          /\ \A w \in Workers : Good(reqs'[w]) /\ Good(resps'[w])
          /\ \A w \in Workers : ~conn[w] => reqs'[w] = <<>> /\ resps'[w] = <<>>
          BY <1>12, <1>13, <1>14, <2>1 DEF QueuesOK
    <3>2. /\ stage' \in [Databases -> Stages] /\ waits' \in [Databases -> SUBSET Graphs]
          /\ lastTerm' \in Nat /\ panic' \in BOOLEAN /\ nodes' \in [Graphs -> SUBSET Workers]
          BY <1>13, <2>1 DEF RInv, TypeInv
    <3>3. \A f \in Databases :
            f # g[1] => stage'[f] = stage[f] /\ waits'[f] = waits[f] /\ job'[f] = job[f]
          BY <1>1, <2>1, <2>4
    <3>4. (job[g[1]] = "gone" => job'[g[1]] = "gone") /\ MetaOK(g[1])'
          BY <1>1, <2>3, <2>4, <2>10
    <3>5. graph' \in [Graphs -> GraphState]
          BY <2>2 DEF GraphPut
    <3>6. \A h \in Graphs : h # g => /\ graph'[h] = graph[h] /\ nodes'[h] = nodes[h]
                                     /\ JobKind(h)' = "finishing" <=> JobKind(h) = "finishing"
          BY <1>13, <2>2, <2>7 DEF GraphPut
    <3>7. \A w \in Workers, h \in Graphs :
            h # g => /\ Pend(reqs'[w], h) = Pend(reqs[w], h)
                     /\ Pend(resps'[w], h) = Pend(resps[w], h)
          BY <1>12, <1>13, <2>1
    <3>8. \A w \in Workers : conn[w] => CellAfter(w, g)
          BY <2>6
    <3>9. \A w \in Workers : ~Has(Pend(reqs'[w], g), "remove")
          BY <1>12, <2>1
    <3> QED  BY <1>13, <2>4, <2>8, <3>1, <3>2, <3>3, <3>4, <3>5, <3>6, <3>7, <3>8, <3>9 DEF GraphStep
  <2> QED  BY <2>1, <2>11, GraphStepKeeps
<1>16. CASE ~(nodes[g] \subseteq Connected)
  <2>1. EnterReset({d}, graph, r, Connected)
        BY <1>1, <1>6, <1>9, <1>16 DEF NextBarrier
  <2>2. PICK F0, F : F0 = {d} /\ F = Failing(F0)
        OBVIOUS
  <2>3. F = {d} /\ F0 \subseteq Databases
        BY <1>2, <1>3, <2>2 DEF Failing
  <2>4. ToReset(F) = NewResets(d)
        BY <2>3 DEF ToReset
  <2>5. ToReset(F) \subseteq Graphs
        BY <1>4, <2>4 DEF GraphsOf
  <2>6. ASSUME NEW w \in Workers, conn[w], NEW h \in ToReset(F)
        PROVE  LiveCell(w, h, Pend(r[w], h), Pend(resps[w], h))
    <3>1. CASE h # g
      <4>1. LiveCell(w, h, Pend(reqs[w], h), Pend(resps[w], h))
            BY <1>4, <2>4, <2>5, <2>6, NowLive
      <4> QED  BY <1>12, <2>5, <3>1, <4>1
    <3>2. CASE h = g
      <4>1. PICK s2 : s2 = [st |-> "running", term |-> graph[g].term, epoch |-> e, left |-> nodes[g]]
            OBVIOUS
      <4>2. Kind(s2.st) = "live" /\ s2.term = graph[g].term /\ s2.epoch = e /\ s2.left = nodes[g]
            BY <4>1 DEF Kind
      <4>3. CellOK(w, s2, nodes[g], j2, cn[w][g], Pend(r[w], g), Pend(resps[w], g))
            BY <1>12, <2>6, <4>2
      <4> QED  BY <3>2, <4>2, <4>3 DEF LiveCell
    <3> QED  BY <3>1, <3>2
  <2>7. ReadyToReset(F, graph, r, Connected)
    <3>1. \A w \in Workers, h \in Graphs : \/ Pend(r[w], h) = Pend(reqs[w], h)
                                           \/ ~Has(Pend(r[w], h), "remove")
          BY <1>12
    <3>2. \A w \in Workers, h \in Graphs : conn[w] =>
            IF h \in ToReset(F)
            THEN /\ LiveCell(w, h, Pend(r[w], h), Pend(resps[w], h))
                 /\ Pend(resps'[w], h) \subseteq Pend(resps[w], h)
            ELSE Pend(r[w], h) = Pend(reqs[w], h) /\ Pend(resps'[w], h) = Pend(resps[w], h)
          BY <1>5, <1>12, <1>13, <2>4, <2>6
    <3> QED  BY <1>12, <2>5, <3>1, <3>2, ReadyNow
  <2>8. OtherwiseOK(Connected)
    <3>1. CnsOK'
          BY <1>13 DEF CnsOK, RInv, BatchOK
    <3> QED  BY <1>13, <1>14, <3>1 DEF OtherwiseOK, RInv, TypeInv
  <2> QED  BY <2>1, <2>2, <2>3, <2>7, <2>8, EnterResetKeeps
<1> QED  BY <1>15, <1>16

LEMMA InjectBarrierKeeps ==
  ASSUME RInv, NEW g \in Graphs, InjectBarrier(g)
  PROVE  RInv' /\ (panic' => panic)
<1>1. PICK j : j = job[g[1]]
      OBVIOUS
<1>2. NextBarrier(g, "plain", j) /\ Injectable(g, "plain", j)
      BY <1>1, GraphFacts DEF InjectBarrier, Injectable
<1> QED  BY <1>2, NextBarrierKeeps

LEMMA StopJobKeeps ==
  ASSUME RInv, NEW d \in Databases, StopJob(d)
  PROVE  RInv' /\ (panic' => panic)
<1>1. PICK g : g = JobOf(d)
      OBVIOUS
<1>2. MetaOK(d) /\ job[d] = "running"
      BY DEF RInv, MetasOK, StopJob
<1>3. g \in Graphs /\ g[1] = d
      BY <1>1, <1>2, DatabaseFacts DEF MetaOK
<1>4. NextBarrier(g, "stop", "finishing") /\ Injectable(g, "stop", "finishing")
      BY <1>1, <1>2, <1>3 DEF StopJob, Injectable
<1> QED  BY <1>3, <1>4, NextBarrierKeeps

(* Answers that the meta node takes. *)

\* A step that takes answers about graph g only.
RecvFrame(g) ==
  /\ conn' = conn /\ cn' = cn /\ batches' = batches /\ xreq' = xreq /\ phase' = phase
  /\ reqs' = reqs /\ nodes' = nodes /\ lastTerm' = lastTerm
  /\ QueuesOK(resps') /\ \A w \in Workers : ~conn[w] => resps'[w] = <<>>
  /\ \A w \in Workers, h \in Graphs : h # g => Pend(resps'[w], h) = Pend(resps[w], h)

\* The recovery states of the other databases do not change.
OthersSame(d) ==
  /\ stage' \in [Databases -> Stages] /\ waits' \in [Databases -> SUBSET Graphs]
  /\ job' \in [Databases -> JobStates]
  /\ \A e \in Databases :
       e # d => stage'[e] = stage[e] /\ waits'[e] = waits[e] /\ job'[e] = job[e]

LEMMA RecvKeeps ==
  ASSUME RInv, NEW g \in Graphs, NEW d, d = g[1], RecvFrame(g), OthersSame(d), NEW x,
         GraphPut(g, x), panic' \in BOOLEAN,
         job'[d] = job[d] \/ (g = JobOf(d) /\ job'[d] = "gone"),
         GraphOK(g)', MetaOK(d)', \A w \in Workers : conn[w] => CellAfter(w, g)
  PROVE  RInv'
<1>1. ASSUME NEW h \in Graphs, h # g
      PROVE  JobKind(h)' = "finishing" <=> JobKind(h) = "finishing"
  <2>1. h[1] \in Databases
        BY GraphFacts
  <2>2. CASE h[1] # d
        BY <2>1, <2>2 DEF JobKind, OthersSame
  <2>3. CASE h[1] = d
        BY <1>1, <2>3 DEF JobKind
  <2> QED  BY <2>2, <2>3
<1>2. GraphStep(g)
  <2>1. /\ conn' = conn /\ cn' = cn /\ batches' = batches /\ xreq' = xreq /\ phase' = phase
        /\ stage' \in [Databases -> Stages] /\ waits' \in [Databases -> SUBSET Graphs]
        /\ job' \in [Databases -> JobStates] /\ graph' \in [Graphs -> GraphState]
        /\ nodes' \in [Graphs -> SUBSET Workers] /\ lastTerm' \in Nat /\ panic' \in BOOLEAN
        BY DEF RecvFrame, OthersSame, GraphPut, RInv, TypeInv
  <2>2. /\ DOMAIN reqs' = Workers /\ DOMAIN resps' = Workers
        /\ \A w \in Workers : Good(reqs'[w]) /\ Good(resps'[w])
        /\ \A w \in Workers : ~conn[w] => reqs'[w] = <<>> /\ resps'[w] = <<>>
        BY QueuesNow DEF RecvFrame, QueuesOK
  <2>3. /\ \A e \in Databases :
             e # g[1] => stage'[e] = stage[e] /\ waits'[e] = waits[e] /\ job'[e] = job[e]
        /\ job[g[1]] = "gone" => job'[g[1]] = "gone"
        /\ MetaOK(g[1])'
        BY DEF OthersSame
  <2>4. \A h \in Graphs : h # g => /\ graph'[h] = graph[h] /\ nodes'[h] = nodes[h]
                                   /\ JobKind(h)' = "finishing" <=> JobKind(h) = "finishing"
        BY <1>1 DEF GraphPut, RecvFrame
  <2>5. \A w \in Workers, h \in Graphs :
          h # g => /\ Pend(reqs'[w], h) = Pend(reqs[w], h)
                   /\ Pend(resps'[w], h) = Pend(resps[w], h)
        BY DEF RecvFrame
  <2>6. \A w \in Workers :
          conn[w] /\ Has(Pend(reqs'[w], g), "remove") => g = JobOf(g[1]) /\ job'[g[1]] = "gone"
        BY DEF RecvFrame, RInv, RemovedForGood
  <2> QED  BY <2>1, <2>2, <2>3, <2>4, <2>5, <2>6 DEF GraphStep
<1> QED  BY <1>2, GraphStepKeeps

\* The answer m of worker w about graph g is taken.
AnswerTaken(w, g, m) ==
  /\ m \in Messages /\ m.type \in AnswerTypes /\ g \in Graphs /\ m.g = g
  /\ m \in Pend(resps[w], g) /\ Pend(resps'[w], g) = Pend(resps[w], g) \ {m}
  /\ m.type = "done" => Pend(resps[w], g) = {m}
  /\ QueuesOK(resps') /\ \A v \in Workers : ~conn[v] => resps'[v] = <<>>
  /\ \A v \in Workers : v # w => Pend(resps'[v], g) = Pend(resps[v], g)
  /\ \A v \in Workers, h \in Graphs : h # g => Pend(resps'[v], h) = Pend(resps[v], h)

LEMMA TakeAnswer ==
  ASSUME RInv, NEW w \in Workers, conn[w], resps[w] # <<>>,
         resps' = [resps EXCEPT ![w] = Tail(@)], NEW m, m = Head(resps[w]), NEW g, g = m.g
  PROVE  AnswerTaken(w, g, m)
<1>1. PICK q : q = resps[w]
      OBVIOUS
<1>2. Good(q) /\ q # <<>> /\ m = Head(q)
      BY <1>1 DEF RInv, StreamsOK
<1>3. /\ DOMAIN resps' = Workers /\ resps'[w] = Tail(q)
      /\ \A v \in Workers : v # w => resps'[v] = resps[v]
      BY <1>1 DEF RInv, TypeInv
<1>4. /\ m \in Messages
      /\ Good(Tail(q))
      /\ \A h \in About(m) :
           /\ m \in Pend(q, h)
           /\ Pend(Tail(q), h) = Pend(q, h) \ {m}
           /\ \A x \in Pend(q, h) : x = m \/ Rank(m) < Rank(x)
      /\ \A h : h \notin About(m) => Pend(Tail(q), h) = Pend(q, h)
      BY <1>2, TailGood
<1>5. PICK h \in Graphs : h \in About(m)
      BY <1>4, MessageFacts
<1>6. Cell(w, h)
      BY DEF RInv, StreamsOK
<1>7. m.type \in AnswerTypes
      BY <1>1, <1>4, <1>5, <1>6 DEF Cell, CellWith, CellOK
<1>8. About(m) = {g} /\ h = g
      BY <1>4, <1>5, <1>7, MessageFacts DEF AnswerTypes
<1>9. m.type = "done" => Pend(q, g) = {m}
  <2>1. Pend(q, g) \subseteq Messages /\ m \in Pend(q, g)
        BY <1>4, <1>5, <1>8, PendIn
  <2>2. \A x \in Pend(q, g) : Rank(x) \in {1, 2, 3}
        BY <2>1, MessageFacts
  <2>3. m.type = "done" => Rank(m) = 3
        BY DEF Rank
  <2>4. \A x \in Pend(q, g) : x = m \/ Rank(m) < Rank(x)
        BY <1>4, <1>5, <1>8
  <2> QED  BY <2>1, <2>2, <2>3, <2>4
<1>10. QueuesOK(resps') /\ \A v \in Workers : ~conn[v] => resps'[v] = <<>>
      BY <1>3, <1>4, QueuesNow DEF QueuesOK
<1>11. /\ m \in Pend(resps[w], g) /\ Pend(resps'[w], g) = Pend(resps[w], g) \ {m}
       /\ m.type = "done" => Pend(resps[w], g) = {m}
      BY <1>1, <1>3, <1>4, <1>8, <1>9
<1>12. \A v \in Workers, f \in Graphs : f # g => Pend(resps'[v], f) = Pend(resps[v], f)
      BY <1>1, <1>3, <1>4, <1>8
<1> QED  BY <1>3, <1>4, <1>5, <1>7, <1>8, <1>10, <1>11, <1>12 DEF AnswerTaken

\* The rest of a step of MetaRecv that sends nothing.
RecvRest == /\ conn' = conn /\ cn' = cn /\ batches' = batches /\ xreq' = xreq /\ phase' = phase
            /\ reqs' = reqs /\ nodes' = nodes /\ lastTerm' = lastTerm

\* What the invariant says of the answer.
LEMMA AnswerFacts ==
  ASSUME RInv, NEW w \in Workers, conn[w], NEW g, NEW m, AnswerTaken(w, g, m)
  PROVE  /\ CellOK(w, graph[g], nodes[g], JobKind(g), cn[w][g], Pend(reqs[w], g), Pend(resps[w], g))
         /\ CnOK(cn[w][g]) /\ graph[g] \in GraphState /\ graph[g].st # "none"
         /\ graph[g].st = "resetting" => w \in graph[g].left
         /\ graph[g].st # "resetting" => m.type # "done" /\ Kind(graph[g].st) = "live"
         /\ graph[g].st # "resetting" /\ m.type = "complete" => w \in graph[g].left /\ m.epoch = graph[g].epoch
<1>1. g \in Graphs /\ m \in Pend(resps[w], g)
      BY DEF AnswerTaken
<1>2. Cell(w, g) /\ CnOK(cn[w][g]) /\ graph[g] \in GraphState
      BY <1>1 DEF RInv, StreamsOK, CnsOK, TypeInv
<1>3. CellOK(w, graph[g], nodes[g], JobKind(g), cn[w][g], Pend(reqs[w], g), Pend(resps[w], g))
      BY <1>2 DEF Cell, CellWith
<1>4. graph[g].st \in {"none", "running", "resetting", "initializing"}
      BY <1>2 DEF GraphState
<1>5. Kind(graph[g].st) # "none" /\ (Kind(graph[g].st) = "resetting" => w \in graph[g].left)
      BY <1>1, <1>3 DEF CellOK
<1>6. Kind(graph[g].st) = "live" => m.type # "done"
      BY <1>1, <1>3 DEF CellOK
<1>7. Kind(graph[g].st) = "live" /\ m.type = "complete" => w \in graph[g].left /\ m.epoch = graph[g].epoch
      BY <1>1, <1>3 DEF CellOK
<1> QED  BY <1>2, <1>3, <1>4, <1>5, <1>6, <1>7 DEF Kind

LEMMA TakenFrame ==
  ASSUME RInv, NEW w \in Workers, conn[w], NEW g, NEW m, AnswerTaken(w, g, m), RecvRest
  PROVE  RecvFrame(g)
BY DEF AnswerTaken, RecvRest, RecvFrame

\* An answer of a graph that is being reset is dropped.
LEMMA DroppedKeeps ==
  ASSUME RInv, NEW w \in Workers, conn[w], NEW g, NEW m, AnswerTaken(w, g, m), RecvRest,
         graph[g].st = "resetting", m.type # "done",
         stage' = stage, waits' = waits, job' = job, graph' = graph, panic' = panic
  PROVE  RInv'
<1>1. g \in Graphs /\ RecvFrame(g)
      BY TakenFrame DEF AnswerTaken
<1>2. PICK d : d = g[1]
      OBVIOUS
<1>3. d \in Databases
      BY <1>1, <1>2, GraphFacts
<1>4. OthersSame(d) /\ panic' \in BOOLEAN /\ GraphPut(g, graph[g])
      BY <1>1 DEF RInv, TypeInv, OthersSame, GraphPut
<1>5. GraphOK(g)' /\ MetaOK(d)'
  <2>1. GraphOK(g) /\ MetaOK(d)
        BY <1>1, <1>3 DEF RInv, MetasOK
  <2>2. MetaOK(d)'
        BY <1>3, <2>1, SameDatabase DEF RecvRest
  <2> QED  BY <2>1, <2>2 DEF GraphOK, RecvRest, Connected
<1>6. JobKind(g)' = JobKind(g)
      BY DEF JobKind
<1>7. ASSUME NEW v \in Workers, conn[v] PROVE CellAfter(v, g)
  <2>1. Cell(v, g) /\ CnOK(cn[v][g])
        BY <1>1, <1>7 DEF RInv, StreamsOK, CnsOK
  <2>2. CellOK(v, graph[g], nodes[g], JobKind(g), cn[v][g], Pend(reqs[v], g), Pend(resps[v], g))
        BY <2>1 DEF Cell, CellWith
  <2>3. CASE v # w
    <3>1. Pend(resps'[v], g) = Pend(resps[v], g)
          BY <2>3 DEF AnswerTaken
    <3> QED  BY <1>6, <2>2, <3>1 DEF CellAfter, RecvRest
  <2>4. CASE v = w
    <3>1. m \in Pend(resps[v], g) /\ Pend(resps'[v], g) = Pend(resps[v], g) \ {m}
          BY <2>4 DEF AnswerTaken
    <3>2. CellOK(v, graph[g], nodes[g], JobKind(g), cn[v][g], Pend(reqs[v], g), Pend(resps[v], g) \ {m})
          BY <2>1, <2>2, <3>1, CellDrop
    <3> QED  BY <1>6, <3>1, <3>2 DEF CellAfter, RecvRest
  <2> QED  BY <2>3, <2>4
<1> QED  BY <1>1, <1>2, <1>4, <1>5, <1>7, RecvKeeps

\* A graph after worker w's barrier is collected.
LEMMA CollectedPut ==
  ASSUME RInv, NEW g \in Graphs, NEW w, graph' = Collected(g, w)
  PROVE  \E x : /\ GraphPut(g, x) /\ x.term = graph[g].term /\ x.epoch = graph[g].epoch
                /\ x.left = graph[g].left \ {w}
                /\ x.st = IF graph[g].st = "initializing" /\ x.left = {} THEN "running"
                          ELSE graph[g].st
<1>1. PICK c : c = graph[g]
      OBVIOUS
<1>2. c \in GraphState /\ graph \in [Graphs -> GraphState]
      BY <1>1 DEF RInv, TypeInv
<1>3. DOMAIN c = {"st", "term", "epoch", "left"}
      BY <1>2 DEF GraphState
<1>4. PICK L : L = c.left \ {w}
      OBVIOUS
<1>5. PICK z : z = IF c.st = "initializing" /\ L = {} THEN "running" ELSE c.st
      OBVIOUS
<1>6. PICK x : x = [c EXCEPT !.left = L, !.st = z]
      OBVIOUS
<1>7. DOMAIN graph = Graphs
      BY <1>2
<1>8. "st" # "epoch" /\ "st" # "left" /\ "term" # "epoch" /\ "term" # "left" /\ "epoch" # "left"
      /\ "st" # "term"
      OBVIOUS
<1>9. graph' = [graph EXCEPT ![g] = x]
  <2>1. PICK f : f = [graph EXCEPT ![g].left = L]
        OBVIOUS
  <2>2. f[g] = [c EXCEPT !.left = L] /\ DOMAIN f = Graphs /\ \A h \in Graphs : h # g => f[h] = graph[h]
        BY <1>1, <1>7, <2>1, Zenon
  <2>3. f[g].st = c.st
        BY <1>3, <1>8, <2>2, Zenon
  <2>4. graph' = [f EXCEPT ![g].st = IF @ = "initializing" /\ L = {} THEN "running" ELSE @]
        BY <1>1, <1>4, <2>1, Zenon DEF Collected
  <2>5. graph' = [f EXCEPT ![g] = [f[g] EXCEPT !.st = IF @ = "initializing" /\ L = {} THEN "running" ELSE @]]
        BY <2>2, <2>4, Zenon
  <2>6. PICK y : y = [f[g] EXCEPT !.st = IF @ = "initializing" /\ L = {} THEN "running" ELSE @]
        OBVIOUS
  <2>7. y = [f[g] EXCEPT !.st = z]
        BY <1>5, <2>3, <2>6, Zenon
  <2>8. y = x
        BY <1>6, <2>2, <2>7, Zenon
  <2>9. graph' = [f EXCEPT ![g] = x]
        BY <2>5, <2>6, <2>8, Zenon
  <2> QED  BY <1>7, <2>1, <2>2, <2>9, Zenon
<1>10. x.st = z /\ x.term = c.term /\ x.epoch = c.epoch /\ x.left = L
      BY <1>3, <1>6, <1>8, Zenon
<1>11. x \in GraphState
      BY <1>2, <1>4, <1>5, <1>6 DEF GraphState
<1>12. GraphPut(g, x)
      BY <1>9, <1>11, PutGraph
<1> QED  BY <1>1, <1>4, <1>5, <1>10, <1>12

\* A graph that is initializing is one that its database waits for.
LEMMA InitializingFacts ==
  ASSUME RInv, NEW g \in Graphs, NEW d, d = g[1], graph[g].st = "initializing"
  PROVE  /\ d \in Databases /\ stage[d] = "initializing" /\ g \in waits[d]
         /\ waits[d] = {h \in GraphsOf(d) : graph[h].st = "initializing"}
<1>1. d \in Databases /\ g \in GraphsOf(d)
      BY GraphFacts
<1>2. MetaOK(d) /\ stage[d] \in Stages /\ job[d] \in JobStates
      BY <1>1 DEF RInv, MetasOK, TypeInv
<1>3. stage[d] # "running"
  <2>1. ASSUME stage[d] = "running" PROVE FALSE
    <3>1. g = Main(d) \/ (g = JobOf(d) /\ d \in JobDatabases)
          BY <1>1, DatabaseFacts
    <3>2. /\ graph[Main(d)].st = "running"
          /\ d \in JobDatabases =>
               CASE job[d] \in {"running", "finishing"} -> graph[JobOf(d)].st = "running"
                 [] job[d] = "resetting" -> graph[JobOf(d)].st = "resetting"
                 [] OTHER -> graph[JobOf(d)].st = "none"
          BY <1>2, <2>1 DEF MetaOK
    <3> QED  BY <3>1, <3>2
  <2> QED  BY <2>1
<1>4. stage[d] = "initializing"
      BY <1>1, <1>2, <1>3 DEF MetaOK, Stages
<1>5. waits[d] = {h \in GraphsOf(d) : graph[h].st = "initializing"}
      BY <1>2, <1>4 DEF MetaOK
<1> QED  BY <1>1, <1>4, <1>5

\* The cells of a graph when a worker's barrier is collected.
LEMMA CollectCells ==
  ASSUME RInv, NEW w \in Workers, conn[w], NEW g, NEW m, AnswerTaken(w, g, m), RecvRest,
         graph[g].st # "resetting", m.type = "complete", job' = job,
         NEW x, GraphPut(g, x), x.term = graph[g].term, x.epoch = graph[g].epoch,
         x.left = graph[g].left \ {w}, Kind(x.st) = "live"
  PROVE  \A v \in Workers : conn[v] => CellAfter(v, g)
<1>1. g \in Graphs /\ JobKind(g)' = JobKind(g) /\ graph'[g] = x
      BY DEF AnswerTaken, JobKind, GraphPut
<1> SUFFICES ASSUME NEW v \in Workers, conn[v] PROVE CellAfter(v, g)
      OBVIOUS
<1>2. Cell(v, g) /\ CnOK(cn[v][g])
      BY <1>1 DEF RInv, StreamsOK, CnsOK
<1>3. CellOK(v, graph[g], nodes[g], JobKind(g), cn[v][g], Pend(reqs[v], g), Pend(resps[v], g))
      BY <1>2 DEF Cell, CellWith
<1>4. Kind(graph[g].st) = "live"
      BY AnswerFacts
<1>5. CASE v # w
  <2>1. Pend(resps'[v], g) = Pend(resps[v], g)
        BY <1>5 DEF AnswerTaken
  <2>2. CellOK(v, x, nodes[g], JobKind(g), cn[v][g], Pend(reqs[v], g), Pend(resps[v], g))
        BY <1>2, <1>3, <1>4, <1>5, CellSame
  <2> QED  BY <1>1, <2>1, <2>2 DEF CellAfter, RecvRest
<1>6. CASE v = w
  <2>1. m \in Pend(resps[v], g) /\ Pend(resps'[v], g) = Pend(resps[v], g) \ {m}
        BY <1>6 DEF AnswerTaken
  <2>2. CellOK(v, x, nodes[g], JobKind(g), cn[v][g], Pend(reqs[v], g), Pend(resps[v], g) \ {m})
        BY <1>2, <1>3, <1>4, <1>6, <2>1, CellCollect
  <2> QED  BY <1>1, <2>1, <2>2 DEF CellAfter, RecvRest
<1> QED  BY <1>5, <1>6

\* A barrier is collected from worker w.
LEMMA CollectKeeps ==
  ASSUME RInv, NEW w \in Workers, conn[w], NEW g, NEW m, AnswerTaken(w, g, m), RecvRest,
         graph[g].st # "resetting", m.type = "complete", job' = job, graph' = Collected(g, w),
         IF graph[g].st = "initializing" /\ graph[g].left = {w} THEN Initialized(g)
         ELSE UNCHANGED <<stage, waits, panic>>
  PROVE  RInv' /\ (panic' => panic)
<1>1. g \in Graphs /\ RecvFrame(g) /\ graph[g].st \in {"running", "initializing"} /\ w \in graph[g].left
      BY TakenFrame, AnswerFacts DEF AnswerTaken, GraphState
<1>2. PICK d : d = g[1]
      OBVIOUS
<1>3. d \in Databases /\ MetaOK(d) /\ GraphsOf(d) \subseteq Graphs /\ g \in GraphsOf(d)
      BY <1>1, <1>2, GraphFacts DEF RInv, MetasOK, GraphsOf
<1>4. PICK x : /\ GraphPut(g, x) /\ x.term = graph[g].term /\ x.epoch = graph[g].epoch
               /\ x.left = graph[g].left \ {w}
               /\ x.st = IF graph[g].st = "initializing" /\ x.left = {} THEN "running"
                         ELSE graph[g].st
      BY <1>1, CollectedPut
<1>5. Kind(x.st) = "live" /\ graph'[g] = x /\ x.st \in {"running", "initializing"}
      BY <1>1, <1>4 DEF Kind, GraphPut
<1>6. \A v \in Workers : conn[v] => CellAfter(v, g)
      BY <1>4, <1>5, CollectCells
<1>7. GraphOK(g)'
  <2>1. GraphOK(g) /\ Connected' = Connected /\ nodes' = nodes
        BY <1>1 DEF RInv, MetasOK, RecvRest, Connected
  <2> QED  BY <1>1, <1>4, <1>5, <2>1 DEF GraphOK
<1>8. \A h \in Graphs : h # g => graph'[h] = graph[h]
      BY <1>4 DEF GraphPut
<1>9. CASE graph[g].st = "initializing" /\ graph[g].left = {w}
  <2>1. x.left = {} /\ x.st = "running"
        BY <1>4, <1>9
  <2>2. /\ stage[d] = "initializing" /\ g \in waits[d]
        /\ waits[d] = {h \in GraphsOf(d) : graph[h].st = "initializing"}
        BY <1>1, <1>2, <1>9, InitializingFacts
  <2>3. /\ panic' = (panic \/ stage[d] # "initializing" \/ g \notin waits[d])
        /\ waits' = [waits EXCEPT ![d] = @ \ {g}]
        /\ stage' = IF phase = "global" /\ waits[d] = {g}
                    THEN [stage EXCEPT ![d] = "running"] ELSE stage
        BY <1>2, <1>9 DEF Initialized, OnPartialGraphInitialized
  <2>4. panic' = panic
        BY <2>2, <2>3 DEF RInv, TypeInv
  <2>5. PICK z : z = IF phase = "global" /\ waits[d] = {g} THEN "running" ELSE "initializing"
        OBVIOUS
  <2>6. /\ stage' \in [Databases -> Stages] /\ stage'[d] = z
        /\ \A e \in Databases : e # d => stage'[e] = stage[e]
    <3>1. CASE phase = "global" /\ waits[d] = {g}
          BY <1>3, <2>3, <2>5, <3>1 DEF RInv, TypeInv, Stages
    <3>2. CASE ~(phase = "global" /\ waits[d] = {g})
          BY <1>3, <2>2, <2>3, <2>5, <3>2 DEF RInv, TypeInv, Stages
    <3> QED  BY <3>1, <3>2
  <2>7. /\ waits' \in [Databases -> SUBSET Graphs] /\ waits'[d] = waits[d] \ {g}
        /\ \A e \in Databases : e # d => waits'[e] = waits[e]
        BY <1>3, <2>3 DEF RInv, TypeInv
  <2>8. OthersSame(d)
        BY <2>6, <2>7 DEF OthersSame, RInv, TypeInv
  <2>9. \A h \in GraphsOf(d) : graph'[h].st = "initializing" <=> graph[h].st = "initializing" /\ h # g
        BY <1>3, <1>5, <1>8, <2>1
  <2>10. waits'[d] = {h \in GraphsOf(d) : graph'[h].st = "initializing"}
        BY <2>2, <2>7, <2>9
  <2>11. /\ graph[Main(d)].st \in {"running", "initializing"}
         /\ job[d] \in {"none", "gone", "running"}
         /\ job[d] = "running" => d \in JobDatabases
         /\ d \in JobDatabases =>
              IF job[d] = "running" THEN graph[JobOf(d)].st \in {"running", "initializing"}
              ELSE graph[JobOf(d)].st = "none"
         /\ \A h \in GraphsOf(d) : graph[h].st = "running" => graph[h].left = {}
         /\ phase # "boot"
        BY <1>3, <2>2 DEF MetaOK
  <2>12. Main(d) \in GraphsOf(d) /\ (d \in JobDatabases => JobOf(d) \in GraphsOf(d))
        BY <1>3, DatabaseFacts
  <2>13. /\ graph'[Main(d)].st \in {"running", "initializing"}
         /\ d \in JobDatabases =>
              IF job[d] = "running" THEN graph'[JobOf(d)].st \in {"running", "initializing"}
              ELSE graph'[JobOf(d)].st = "none"
         /\ \A h \in GraphsOf(d) : graph'[h].st = "running" => graph'[h].left = {}
        BY <1>1, <1>3, <1>5, <1>8, <1>9, <2>1, <2>11, <2>12
  <2>14. MetaOK(d)'
    <3>1. CASE phase = "global" /\ waits[d] = {g}
      <4>1. waits'[d] = {} /\ stage'[d] = "running"
            BY <2>5, <2>6, <2>7, <3>1
      <4>2. \A h \in GraphsOf(d) : graph'[h].st # "initializing"
            BY <2>10, <4>1
      <4>3. /\ graph'[Main(d)].st = "running"
            /\ d \in JobDatabases =>
                 CASE job[d] \in {"running", "finishing"} -> graph'[JobOf(d)].st = "running"
                   [] job[d] = "resetting" -> graph'[JobOf(d)].st = "resetting"
                   [] OTHER -> graph'[JobOf(d)].st = "none"
            BY <2>11, <2>12, <2>13, <4>2
      <4> QED  BY <2>11, <2>13, <4>1, <4>3 DEF MetaOK, RecvRest
    <3>2. CASE ~(phase = "global" /\ waits[d] = {g})
      <4>1. stage'[d] = "initializing"
            BY <2>5, <2>6, <3>2
      <4> QED  BY <2>10, <2>11, <2>13, <4>1 DEF MetaOK, RecvRest
    <3> QED  BY <3>1, <3>2
  <2>15. panic' \in BOOLEAN /\ job'[d] = job[d]
        BY <2>4 DEF RInv, TypeInv
  <2> QED  BY <1>1, <1>2, <1>4, <1>6, <1>7, <2>4, <2>8, <2>14, <2>15, RecvKeeps
<1>10. CASE ~(graph[g].st = "initializing" /\ graph[g].left = {w})
  <2>1. stage' = stage /\ waits' = waits /\ panic' = panic
        BY <1>10
  <2>2. x.st = graph[g].st
        BY <1>1, <1>4, <1>10
  <2>3. \A h \in GraphsOf(d) : graph'[h].st = graph[h].st /\ graph'[h].left \subseteq graph[h].left
        BY <1>3, <1>4, <1>5, <1>8, <2>2
  <2>4. MetaOK(d)'
        BY <1>3, <2>1, <2>3, FewerWaited DEF RecvRest
  <2>5. OthersSame(d) /\ panic' \in BOOLEAN /\ job'[d] = job[d]
        BY <2>1 DEF OthersSame, RInv, TypeInv
  <2> QED  BY <1>1, <1>2, <1>4, <1>6, <1>7, <2>1, <2>4, <2>5, RecvKeeps
<1> QED  BY <1>9, <1>10

\* A graph that is being reset is waited for by its database, or is of a job that
\* is being dropped.
LEMMA ResettingFacts ==
  ASSUME RInv, NEW g \in Graphs, NEW d, d = g[1], graph[g].st = "resetting"
  PROVE  /\ d \in Databases /\ g \in GraphsOf(d)
         /\ \/ /\ stage[d] = "resetting" /\ g \in waits[d]
               /\ waits[d] = {h \in GraphsOf(d) : graph[h].st = "resetting"}
            \/ /\ stage[d] = "running" /\ g = JobOf(d) /\ g # Main(d) /\ d \in JobDatabases
               /\ job[d] = "resetting"
<1>1. d \in Databases /\ g \in GraphsOf(d) /\ Main(d) # JobOf(d)
      BY GraphFacts, DatabaseFacts
<1>2. MetaOK(d) /\ stage[d] \in Stages /\ job[d] \in JobStates
      BY <1>1 DEF RInv, MetasOK, TypeInv
<1>3. g = Main(d) \/ (g = JobOf(d) /\ d \in JobDatabases)
      BY <1>1, DatabaseFacts
<1>4. CASE stage[d] = "resetting"
      BY <1>1, <1>2, <1>4 DEF MetaOK
<1>5. CASE stage[d] = "running"
  <2>1. /\ graph[Main(d)].st = "running"
        /\ d \in JobDatabases =>
             CASE job[d] \in {"running", "finishing"} -> graph[JobOf(d)].st = "running"
               [] job[d] = "resetting" -> graph[JobOf(d)].st = "resetting"
               [] OTHER -> graph[JobOf(d)].st = "none"
        BY <1>2, <1>5 DEF MetaOK
  <2> QED  BY <1>1, <1>3, <1>5, <2>1
<1>6. CASE stage[d] = "initializing"
  <2>1. /\ graph[Main(d)].st \in {"running", "initializing"}
        /\ d \in JobDatabases =>
             IF job[d] = "running" THEN graph[JobOf(d)].st \in {"running", "initializing"}
             ELSE graph[JobOf(d)].st = "none"
        BY <1>2, <1>6 DEF MetaOK
  <2> QED  BY <1>3, <2>1
<1>7. stage[d] \notin {"absent", "pending"}
      BY <1>1, <1>2 DEF MetaOK
<1> QED  BY <1>1, <1>2, <1>4, <1>5, <1>6, <1>7 DEF Stages

\* A graph is reset on all workers, and its database is told.
LEMMA ResetEndedKeeps ==
  ASSUME RInv, NEW g \in Graphs, graph[g].st = "resetting", RecvFrame(g),
         graph' = [graph EXCEPT ![g] = NoGraph], stage' = stage, OnPartialGraphReset(g),
         \A v \in Workers : conn[v] =>
           \E s : /\ s.st = "resetting" /\ v \notin s.left
                  /\ CellOK(v, s, nodes[g], JobKind(g), cn[v][g], Pend(reqs[v], g), Pend(resps'[v], g))
  PROVE  RInv' /\ (panic' => panic)
<1>1. PICK d, x : d = g[1] /\ x = NoGraph
      OBVIOUS
<1>2. x \in GraphState /\ x.st = "none" /\ x.left = {}
      BY <1>1 DEF NoGraph, GraphState
<1>3. GraphPut(g, x)
      BY <1>1, <1>2, PutGraph
<1>4. graph'[g] = x /\ \A h \in Graphs : h # g => graph'[h] = graph[h]
      BY <1>3 DEF GraphPut
<1>5. /\ d \in Databases /\ g \in GraphsOf(d) /\ GraphsOf(d) \subseteq Graphs /\ MetaOK(d)
      BY <1>1, ResettingFacts DEF RInv, MetasOK, GraphsOf
<1>6. ASSUME NEW v \in Workers, conn[v] PROVE CellAfter(v, g)
  <2>1. PICK s : /\ s.st = "resetting" /\ v \notin s.left
                 /\ CellOK(v, s, nodes[g], JobKind(g), cn[v][g], Pend(reqs[v], g), Pend(resps'[v], g))
        BY <1>6
  <2>2. CnOK(cn[v][g])
        BY DEF RInv, CnsOK
  <2>3. PICK A, j : A = Pend(resps'[v], g) /\ j = JobKind(g)'
        OBVIOUS
  <2>4. CellOK(v, x, nodes[g], j, cn[v][g], Pend(reqs[v], g), A)
        BY <1>2, <2>1, <2>2, <2>3, CellResetEnds
  <2> QED  BY <1>4, <2>3, <2>4 DEF CellAfter, RecvFrame
<1>7. GraphOK(g)'
      BY <1>2, <1>4 DEF GraphOK
<1>8. CASE stage[d] = "resetting"
  <2>1. g \in waits[d] /\ waits[d] = {h \in GraphsOf(d) : graph[h].st = "resetting"}
        BY <1>1, <1>8, ResettingFacts
  <2>2. panic' = (panic \/ g \notin waits[d]) /\ waits' = [waits EXCEPT ![d] = @ \ {g}] /\ job' = job
        BY <1>1, <1>8 DEF OnPartialGraphReset
  <2>3. panic' = panic
        BY <2>1, <2>2 DEF RInv, TypeInv
  <2>4. /\ waits' \in [Databases -> SUBSET Graphs] /\ waits'[d] = waits[d] \ {g}
        /\ \A e \in Databases : e # d => waits'[e] = waits[e]
        BY <1>5, <2>2 DEF RInv, TypeInv
  <2>5. OthersSame(d) /\ panic' \in BOOLEAN
        BY <2>2, <2>3, <2>4 DEF OthersSame, RInv, TypeInv
  <2>6. waits'[d] = {h \in GraphsOf(d) : graph'[h].st = "resetting"}
        BY <1>2, <1>4, <1>5, <2>1, <2>4
  <2>7. \A h \in GraphsOf(d) : graph'[h].st \in {"none", "resetting"}
        BY <1>2, <1>4, <1>5, <1>8 DEF MetaOK
  <2>8. MetaOK(d)'
        BY <1>5, <1>8, <2>2, <2>6, <2>7 DEF MetaOK, RecvFrame
  <2> QED  BY <1>1, <1>3, <1>6, <1>7, <2>2, <2>3, <2>5, <2>8, RecvKeeps
<1>9. CASE stage[d] # "resetting"
  <2>1. /\ stage[d] = "running" /\ g = JobOf(d) /\ g # Main(d) /\ d \in JobDatabases
        /\ job[d] = "resetting"
        BY <1>1, <1>9, ResettingFacts
  <2>2. /\ panic' = (panic \/ g = Main(d) \/ job[d] # "resetting")
        /\ job' = [job EXCEPT ![d] = "gone"] /\ waits' = waits
        BY <1>1, <2>1 DEF OnPartialGraphReset
  <2>3. panic' = panic
        BY <2>1, <2>2 DEF RInv, TypeInv
  <2>4. /\ job' \in [Databases -> JobStates] /\ job'[d] = "gone"
        /\ \A e \in Databases : e # d => job'[e] = job[e]
        BY <1>5, <2>2 DEF RInv, TypeInv, JobStates
  <2>5. OthersSame(d) /\ panic' \in BOOLEAN
        BY <2>2, <2>3, <2>4 DEF OthersSame, RInv, TypeInv
  <2>6. /\ graph[Main(d)].st = "running" /\ waits[d] = {}
        /\ phase \in {"injecting", "global"} =>
             \A h \in GraphsOf(d) : graph[h].st = "running" => graph[h].left = {}
        /\ phase # "boot"
        BY <1>5, <2>1 DEF MetaOK
  <2>7. graph'[Main(d)].st = "running" /\ graph'[JobOf(d)].st = "none"
        BY <1>2, <1>4, <1>5, <2>1, <2>6, DatabaseFacts
  <2>8. \A h \in GraphsOf(d) : graph'[h].st = "running" => graph[h].st = "running" /\ graph'[h] = graph[h]
        BY <1>2, <1>4, <1>5
  <2>9. MetaOK(d)'
        BY <2>1, <2>2, <2>4, <2>6, <2>7, <2>8 DEF MetaOK, RecvFrame
  <2> QED  BY <1>1, <1>3, <1>6, <1>7, <2>1, <2>3, <2>4, <2>5, <2>9, RecvKeeps
<1> QED  BY <1>8, <1>9

LEMMA ResetCollectedKeeps ==
  ASSUME RInv, NEW g \in Graphs, ResetCollected(g)
  PROVE  RInv' /\ (panic' => panic)
<1>1. /\ graph[g].st = "resetting" /\ graph[g].left = {}
      /\ graph' = [graph EXCEPT ![g] = NoGraph] /\ stage' = stage /\ OnPartialGraphReset(g)
      BY DEF ResetCollected
<1>2. RecvFrame(g)
      BY QueuesNow DEF ResetCollected, RecvFrame, cnVars, xVars
<1>3. resps' = resps
      BY DEF ResetCollected
<1>4. ASSUME NEW v \in Workers, conn[v]
      PROVE  \E s : /\ s.st = "resetting" /\ v \notin s.left
                    /\ CellOK(v, s, nodes[g], JobKind(g), cn[v][g], Pend(reqs[v], g), Pend(resps'[v], g))
  <2>1. Cell(v, g)
        BY <1>4 DEF RInv, StreamsOK
  <2> QED  BY <1>1, <1>3, <2>1 DEF Cell, CellWith
<1> QED  BY <1>1, <1>2, <1>4, ResetEndedKeeps

\* Worker w's answer to a reset is taken: it is the last one, or not.
LEMMA AnsweredKeeps ==
  ASSUME RInv, NEW w \in Workers, conn[w], NEW g, NEW m, AnswerTaken(w, g, m), RecvRest,
         graph[g].st = "resetting", m.type = "done", stage' = stage,
         IF graph[g].left = {w}
         THEN graph' = [graph EXCEPT ![g] = NoGraph] /\ OnPartialGraphReset(g)
         ELSE graph' = [graph EXCEPT ![g].left = @ \ {w}] /\ UNCHANGED <<waits, job, panic>>
  PROVE  RInv' /\ (panic' => panic)
<1>1. g \in Graphs /\ RecvFrame(g) /\ graph[g] \in GraphState /\ w \in graph[g].left
      BY TakenFrame, AnswerFacts DEF AnswerTaken
<1>2. PICK c : c = graph[g]
      OBVIOUS
<1>3. PICK x : x = [c EXCEPT !.left = c.left \ {w}]
      OBVIOUS
<1>4. x \in GraphState /\ x.st = "resetting" /\ x.left = c.left \ {w}
      /\ x.term = c.term /\ x.epoch = c.epoch
      BY <1>1, <1>2, <1>3 DEF GraphState
<1>5. ASSUME NEW v \in Workers, conn[v]
      PROVE  CellOK(v, x, nodes[g], JobKind(g), cn[v][g], Pend(reqs[v], g), Pend(resps'[v], g))
  <2>1. Cell(v, g) /\ CnOK(cn[v][g])
        BY <1>1, <1>5 DEF RInv, StreamsOK, CnsOK
  <2>2. CellOK(v, c, nodes[g], JobKind(g), cn[v][g], Pend(reqs[v], g), Pend(resps[v], g))
        BY <1>2, <2>1 DEF Cell, CellWith
  <2>3. CASE v # w
    <3>1. Pend(resps'[v], g) = Pend(resps[v], g)
          BY <2>3 DEF AnswerTaken
    <3>2. CellOK(v, x, nodes[g], JobKind(g), cn[v][g], Pend(reqs[v], g), Pend(resps[v], g))
          BY <1>2, <1>4, <2>1, <2>2, <2>3, CellSame
    <3> QED  BY <3>1, <3>2
  <2>4. CASE v = w
    <3>1. /\ m \in Pend(resps[v], g) /\ Pend(resps'[v], g) = Pend(resps[v], g) \ {m}
          /\ Pend(resps[v], g) = {m}
          BY <2>4 DEF AnswerTaken
    <3>2. CellOK(v, x, nodes[g], JobKind(g), cn[v][g], Pend(reqs[v], g), Pend(resps[v], g) \ {m})
          BY <1>2, <1>4, <2>1, <2>2, <2>4, <3>1, CellAnswered
    <3> QED  BY <3>1, <3>2
  <2> QED  BY <2>3, <2>4
<1>6. CASE graph[g].left = {w}
  <2>1. x.left = {}
        BY <1>2, <1>4, <1>6
  <2>2. \A v \in Workers : conn[v] =>
          \E s : /\ s.st = "resetting" /\ v \notin s.left
                 /\ CellOK(v, s, nodes[g], JobKind(g), cn[v][g], Pend(reqs[v], g), Pend(resps'[v], g))
        BY <1>4, <1>5, <2>1
  <2> QED  BY <1>1, <1>6, <2>2, ResetEndedKeeps
<1>7. CASE graph[g].left # {w}
  <2>1. graph' = [graph EXCEPT ![g] = x]
    <3>1. graph' = [graph EXCEPT ![g].left = @ \ {w}] /\ DOMAIN graph = Graphs
          BY <1>7 DEF RInv, TypeInv
    <3> QED  BY <1>1, <1>2, <1>3, <3>1, Zenon
  <2>2. waits' = waits /\ job' = job /\ panic' = panic
        BY <1>7
  <2>3. PICK d : d = g[1]
        OBVIOUS
  <2>4. d \in Databases /\ MetaOK(d) /\ GraphsOf(d) \subseteq Graphs
        BY <1>1, <2>3, GraphFacts DEF RInv, MetasOK, GraphsOf
  <2>5. GraphPut(g, x)
        BY <1>1, <1>4, <2>1, PutGraph
  <2>6. graph'[g] = x /\ \A h \in Graphs : h # g => graph'[h] = graph[h]
        BY <2>5 DEF GraphPut
  <2>7. \A h \in GraphsOf(d) : graph'[h].st = graph[h].st /\ graph'[h].left \subseteq graph[h].left
        BY <1>2, <1>4, <2>4, <2>6
  <2>8. MetaOK(d)'
        BY <2>2, <2>4, <2>7, FewerWaited DEF RecvRest
  <2>9. GraphOK(g)'
    <3>1. GraphOK(g) /\ Connected' = Connected
          BY <1>1 DEF RInv, MetasOK, RecvRest, Connected
    <3> QED  BY <1>2, <1>4, <2>6, <3>1 DEF GraphOK
  <2>10. JobKind(g)' = JobKind(g)
        BY <2>2 DEF JobKind
  <2>11. \A v \in Workers : conn[v] => CellAfter(v, g)
        BY <1>5, <2>6, <2>10 DEF CellAfter, RecvRest
  <2>12. OthersSame(d) /\ panic' \in BOOLEAN /\ job'[d] = job[d]
        BY <2>2 DEF OthersSame, RInv, TypeInv
  <2> QED  BY <1>1, <2>2, <2>3, <2>5, <2>8, <2>9, <2>11, <2>12, RecvKeeps
<1> QED  BY <1>6, <1>7

\* A failure is reported: the database is reset.
LEMMA ReportedKeeps ==
  ASSUME RInv, NEW w \in Workers, conn[w], NEW g, NEW m, AnswerTaken(w, g, m),
         graph[g].st # "resetting", EnterReset({g[1]}, graph, reqs, Connected),
         conn' = conn, cn' = cn, batches' = batches, xreq' = xreq, phase' = phase,
         nodes' = nodes, lastTerm' = lastTerm
  PROVE  RInv' /\ (panic' => panic)
<1>1. g \in Graphs /\ graph[g].st \in {"running", "initializing"}
      BY AnswerFacts DEF AnswerTaken, GraphState
<1>2. PICK d : d = g[1]
      OBVIOUS
<1>3. d \in Databases /\ g \in GraphsOf(d) /\ MetaOK(d) /\ stage[d] \in Stages
      BY <1>1, <1>2, GraphFacts DEF RInv, MetasOK, TypeInv
<1>4. stage[d] \in {"running", "initializing"}
      BY <1>1, <1>3 DEF MetaOK, Stages
<1>5. /\ NewResets(d) \subseteq GraphsOf(d) /\ g \in NewResets(d)
      /\ \A h \in NewResets(d) : graph[h].st \in {"running", "initializing"}
      BY <1>1, <1>3, <1>4, FailFacts
<1>6. PICK F0, F : F0 = {d} /\ F = Failing(F0)
      OBVIOUS
<1>7. F = {d} /\ F0 \subseteq Databases
      BY <1>3, <1>4, <1>6 DEF Failing
<1>8. ToReset(F) = NewResets(d) /\ ToReset(F) \subseteq Graphs
      BY <1>5, <1>7 DEF ToReset, GraphsOf
<1>9. /\ QueuesOK(reqs) /\ QueuesOK(resps') /\ \A v \in Workers : ~conn[v] => reqs[v] = <<>>
      /\ \A v \in Workers : ~conn[v] => resps'[v] = <<>>
      /\ \A v \in Workers : v \in Connected <=> conn[v]
      BY QueuesNow DEF AnswerTaken
<1>10. /\ \A v \in Workers, h \in Graphs : h # g => Pend(resps'[v], h) = Pend(resps[v], h)
       /\ \A v \in Workers : Pend(resps'[v], g) \subseteq Pend(resps[v], g)
      BY DEF AnswerTaken
<1>11. ReadyToReset(F, graph, reqs, Connected)
  <2>1. \A v \in Workers, h \in Graphs : conn[v] =>
          IF h \in ToReset(F)
          THEN /\ LiveCell(v, h, Pend(reqs[v], h), Pend(resps[v], h))
               /\ Pend(resps'[v], h) \subseteq Pend(resps[v], h)
          ELSE Pend(reqs[v], h) = Pend(reqs[v], h) /\ Pend(resps'[v], h) = Pend(resps[v], h)
    <3>1. ASSUME NEW v \in Workers, NEW h \in Graphs, conn[v], h \in ToReset(F)
          PROVE  /\ LiveCell(v, h, Pend(reqs[v], h), Pend(resps[v], h))
                 /\ Pend(resps'[v], h) \subseteq Pend(resps[v], h)
      <4>1. LiveCell(v, h, Pend(reqs[v], h), Pend(resps[v], h))
            BY <1>5, <1>8, <3>1, NowLive
      <4> QED  BY <1>10, <4>1
    <3>2. ASSUME NEW v \in Workers, NEW h \in Graphs, conn[v], h \notin ToReset(F)
          PROVE  Pend(resps'[v], h) = Pend(resps[v], h)
          BY <1>5, <1>8, <1>10, <3>2
    <3> QED  BY <3>1, <3>2
  <2> QED  BY <1>8, <1>9, <2>1, ReadyNow
<1>12. OtherwiseOK(Connected)
  <2>1. CnsOK'
        BY DEF CnsOK, RInv, BatchOK
  <2> QED  BY <1>9, <2>1 DEF OtherwiseOK, RInv, TypeInv
<1> QED  BY <1>2, <1>6, <1>7, <1>11, <1>12, EnterResetKeeps

LEMMA MetaRecvKeeps ==
  ASSUME RInv, NEW w \in Workers, MetaRecv(w)
  PROVE  RInv' /\ (panic' => panic)
<1>1. PICK m, g, s : m = Head(resps[w]) /\ g = m.g /\ s = graph[g]
      OBVIOUS
<1>2. conn[w] /\ resps[w] # <<>> /\ resps' = [resps EXCEPT ![w] = Tail(@)]
      BY DEF MetaRecv
<1>3. AnswerTaken(w, g, m)
      BY <1>1, <1>2, TakeAnswer
<1>4. /\ s \in GraphState /\ s.st # "none"
      /\ s.st = "resetting" => w \in s.left
      /\ s.st # "resetting" => m.type # "done"
      /\ s.st # "resetting" /\ m.type = "complete" => w \in s.left /\ m.epoch = s.epoch
      BY <1>1, <1>2, <1>3, AnswerFacts
<1>5. /\ conn' = conn /\ cn' = cn /\ batches' = batches /\ xreq' = xreq /\ phase' = phase
      /\ nodes' = nodes /\ lastTerm' = lastTerm
      BY DEF MetaRecv, cnVars, xVars
<1>6. m.type \in {"complete", "failure", "done"}
      BY <1>3 DEF AnswerTaken, AnswerTypes
<1>7. CASE m.type = "complete"
  <2>1. IF s.st = "resetting" \/ m.epoch # s.epoch \/ w \notin s.left
        THEN /\ panic' = (panic \/ s.st # "resetting")
             /\ UNCHANGED <<stage, waits, backoff, job, graph, reqs>>
        ELSE /\ graph' = Collected(g, w)
             /\ IF s.st = "initializing" /\ s.left = {w}
                THEN Initialized(g)
                ELSE UNCHANGED <<stage, waits, panic>>
             /\ UNCHANGED <<backoff, job, reqs>>
        BY <1>1, <1>4, <1>7 DEF MetaRecv
  <2>2. CASE s.st = "resetting"
    <3>1. /\ panic' = panic /\ stage' = stage /\ waits' = waits /\ job' = job /\ graph' = graph
          /\ reqs' = reqs
          BY <2>1, <2>2 DEF RInv, TypeInv
    <3>2. RecvRest
          BY <1>5, <3>1 DEF RecvRest
    <3> QED  BY <1>1, <1>2, <1>3, <1>7, <2>2, <3>1, <3>2, DroppedKeeps
  <2>3. CASE s.st # "resetting"
    <3>1. /\ graph' = Collected(g, w) /\ job' = job /\ reqs' = reqs
          /\ IF s.st = "initializing" /\ s.left = {w} THEN Initialized(g)
             ELSE UNCHANGED <<stage, waits, panic>>
          BY <1>4, <1>7, <2>1, <2>3
    <3>2. RecvRest
          BY <1>5, <3>1 DEF RecvRest
    <3> QED  BY <1>1, <1>2, <1>3, <1>7, <2>3, <3>1, <3>2, CollectKeeps
  <2> QED  BY <2>2, <2>3
<1>8. CASE m.type = "failure"
  <2>1. IF s.st = "resetting"
        THEN UNCHANGED <<stage, waits, backoff, job, graph, reqs, panic>>
        ELSE EnterReset({g[1]}, graph, reqs, Connected)
        BY <1>1, <1>4, <1>8 DEF MetaRecv
  <2>2. CASE s.st = "resetting"
    <3>1. /\ panic' = panic /\ stage' = stage /\ waits' = waits /\ job' = job /\ graph' = graph
          /\ reqs' = reqs
          BY <2>1, <2>2
    <3>2. RecvRest
          BY <1>5, <3>1 DEF RecvRest
    <3> QED  BY <1>1, <1>2, <1>3, <1>8, <2>2, <3>1, <3>2, DroppedKeeps
  <2>3. CASE s.st # "resetting"
        BY <1>1, <1>2, <1>3, <1>5, <2>1, <2>3, ReportedKeeps
  <2> QED  BY <2>2, <2>3
<1>9. CASE m.type = "done"
  <2>1. s.st = "resetting" /\ w \in s.left
        BY <1>4, <1>9
  <2>2. /\ stage' = stage /\ reqs' = reqs
        /\ IF s.left = {w}
           THEN graph' = [graph EXCEPT ![g] = NoGraph] /\ OnPartialGraphReset(g)
           ELSE graph' = [graph EXCEPT ![g].left = @ \ {w}] /\ UNCHANGED <<waits, job, panic>>
        BY <1>1, <1>9, <2>1, Zenon DEF MetaRecv
  <2>3. RecvRest
        BY <1>5, <2>2 DEF RecvRest
  <2> QED  BY <1>1, <1>2, <1>3, <1>9, <2>1, <2>2, <2>3, AnsweredKeeps
<1> QED  BY <1>6, <1>7, <1>8, <1>9

\* A graph that goes on waits for no worker that fails.
LEMMA NotWaitedFor ==
  ASSUME RInv, NEW w \in Workers, Polling, NEW F, F = Failing(FailedDatabases(w)),
         NEW g \in Graphs, g \notin ToReset(F), graph[g].st \in {"running", "initializing"}
  PROVE  w \notin graph[g].left
<1>1. PICK d : d = g[1]
      OBVIOUS
<1>2. d \in Databases /\ g \in GraphsOf(d) /\ MetaOK(d) /\ stage[d] \in Stages
      BY <1>1, GraphFacts DEF RInv, MetasOK, TypeInv
<1>3. stage[d] \in {"running", "initializing"}
      BY <1>2 DEF MetaOK, Stages
<1>4. g \in NewResets(d)
      BY <1>2, <1>3, FailFacts
<1>5. d \notin F
      BY <1>4 DEF ToReset
<1>6. d \notin FailedDatabases(w)
      BY <1>3, <1>5 DEF Failing
<1>7. CASE stage[d] = "initializing" \/ phase = "running"
      BY <1>2, <1>3, <1>6, <1>7 DEF FailedDatabases
<1>8. CASE stage[d] = "running" /\ phase # "running"
  <2>1. phase = "global"
        BY <1>8 DEF Polling
  <2>2. graph[g].st = "running"
        BY <1>1, <1>8, InitializingFacts
  <2>3. graph[g].left = {}
        BY <1>2, <1>8, <2>1, <2>2 DEF MetaOK
  <2> QED  BY <2>3
<1> QED  BY <1>3, <1>7, <1>8

LEMMA WorkerErrorKeeps ==
  ASSUME RInv, NEW w \in Workers, WorkerError(w)
  PROVE  RInv' /\ (panic' => panic)
<1>1. PICK F0, F : F0 = FailedDatabases(w) /\ F = Failing(F0)
      OBVIOUS
<1>2. PICK gr, rq, C : gr = WorkerGone(w) /\ rq = [reqs EXCEPT ![w] = <<>>] /\ C = Connected \ {w}
      OBVIOUS
<1>3. /\ Polling /\ conn[w] /\ conn' = [conn EXCEPT ![w] = FALSE] /\ resps' = [resps EXCEPT ![w] = <<>>]
      /\ EnterReset(F0, gr, rq, C)
      /\ phase' = phase /\ nodes' = nodes /\ lastTerm' = lastTerm /\ xreq' = xreq
      BY <1>1, <1>2 DEF WorkerError, xVars
<1>4. /\ QueuesOK(reqs) /\ QueuesOK(resps)
      /\ \A v \in Workers : ~conn[v] => reqs[v] = <<>> /\ resps[v] = <<>>
      /\ \A v \in Workers : v \in Connected <=> conn[v]
      /\ Connected \subseteq Workers
      BY QueuesNow
<1>5. F0 \subseteq Databases /\ F \subseteq Databases /\ \A d \in F : stage[d] \in {"running", "initializing"}
      BY <1>1 DEF FailedDatabases, Failing
<1>6. \A d \in F : /\ NewResets(d) \subseteq GraphsOf(d)
                   /\ \A g \in NewResets(d) : graph[g].st \in {"running", "initializing"}
      BY <1>5, FailFacts
<1>7. /\ ToReset(F) \subseteq Graphs
      /\ \A g \in ToReset(F) : graph[g].st \in {"running", "initializing"}
      BY <1>6 DEF ToReset, GraphsOf
<1>8. /\ C \subseteq Workers /\ w \notin C
      /\ \A v \in C : v \in Workers /\ conn[v] /\ v # w
      /\ \A v \in Workers : v \notin C => v = w \/ ~conn[v]
      BY <1>2, <1>4
<1>9. /\ DOMAIN rq = Workers /\ rq[w] = <<>> /\ \A v \in Workers : v # w => rq[v] = reqs[v]
      /\ DOMAIN resps' = Workers /\ resps'[w] = <<>> /\ \A v \in Workers : v # w => resps'[v] = resps[v]
      BY <1>2, <1>3 DEF RInv, TypeInv
<1>10. /\ QueuesOK(rq) /\ \A v \in Workers : v \notin C => rq[v] = <<>>
       /\ QueuesOK(resps') /\ \A v \in Workers : v \notin C => resps'[v] = <<>>
      BY <1>4, <1>8, <1>9, EmptyGood DEF QueuesOK
<1>11. ASSUME NEW g \in Graphs
       PROVE  /\ gr[g] \in GraphState /\ gr[g].st = graph[g].st /\ gr[g].term = graph[g].term
              /\ gr[g].epoch = graph[g].epoch
              /\ gr[g].left = IF graph[g].st = "resetting" THEN graph[g].left \ {w} ELSE graph[g].left
  <2>1. PICK c : c = graph[g]
        OBVIOUS
  <2>2. c \in GraphState
        BY <2>1 DEF RInv, TypeInv
  <2>3. gr[g] = IF c.st = "resetting" THEN [c EXCEPT !.left = @ \ {w}] ELSE c
        BY <1>2, <2>1 DEF WorkerGone
  <2>4. [c EXCEPT !.left = @ \ {w}] = [st |-> c.st, term |-> c.term, epoch |-> c.epoch, left |-> c.left \ {w}]
        BY <2>2 DEF GraphState
  <2>5. PICK x : x = [st |-> c.st, term |-> c.term, epoch |-> c.epoch, left |-> c.left \ {w}]
        OBVIOUS
  <2>6. x \in GraphState /\ x.st = c.st /\ x.term = c.term /\ x.epoch = c.epoch /\ x.left = c.left \ {w}
        BY <2>2, <2>5 DEF GraphState
  <2> QED  BY <2>1, <2>2, <2>3, <2>4, <2>5, <2>6
<1>12. gr \in [Graphs -> GraphState]
  <2>1. gr = [g \in Graphs |-> gr[g]]
        BY <1>2 DEF WorkerGone
  <2> QED  BY <1>11, <2>1
<1>13. \A g \in Graphs : gr[g].st = graph[g].st /\ gr[g].left \subseteq graph[g].left
      BY <1>11
<1>14. ASSUME NEW g \in Graphs, g \notin ToReset(F) PROVE gr[g].left \subseteq C
  <2>1. GraphOK(g) /\ graph[g] \in GraphState
        BY DEF RInv, MetasOK, TypeInv
  <2>2. graph[g].left \subseteq Connected /\ (graph[g].st = "none" => graph[g].left = {})
        BY <2>1 DEF GraphOK
  <2>3. graph[g].st \in {"running", "initializing"} => w \notin graph[g].left
        BY <1>1, <1>3, <1>14, NotWaitedFor
  <2>4. graph[g].st \in {"none", "running", "resetting", "initializing"}
        BY <2>1 DEF GraphState
  <2> QED  BY <1>2, <1>11, <2>2, <2>3, <2>4
<1>15. \A v \in Workers, g \in Graphs :
         Has(Pend(rq[v], g), "remove") => Has(Pend(reqs[v], g), "remove")
      BY <1>9, EmptyGood DEF Has
<1>16. ASSUME NEW v \in C, NEW g \in Graphs, g \notin ToReset(F)
       PROVE  CellOK(v, gr[g], nodes[g], JobKind(g), cn[v][g], Pend(rq[v], g), Pend(resps'[v], g))
  <2>1. v \in Workers /\ conn[v] /\ v # w
        BY <1>8
  <2>2. Cell(v, g) /\ CnOK(cn[v][g])
        BY <2>1 DEF RInv, StreamsOK, CnsOK
  <2>3. CellOK(v, graph[g], nodes[g], JobKind(g), cn[v][g], Pend(reqs[v], g), Pend(resps[v], g))
        BY <2>2 DEF Cell, CellWith
  <2>4. v \in gr[g].left <=> v \in graph[g].left
        BY <1>11, <2>1
  <2>5. CellOK(v, gr[g], nodes[g], JobKind(g), cn[v][g], Pend(reqs[v], g), Pend(resps[v], g))
        BY <1>11, <2>2, <2>3, <2>4, CellSame
  <2> QED  BY <1>9, <2>1, <2>5
<1>17. ASSUME NEW v \in C, NEW g \in ToReset(F)
       PROVE  \E A : LiveCell(v, g, Pend(rq[v], g), A) /\ Pend(resps'[v], g) \subseteq A
  <2>1. v \in Workers /\ conn[v] /\ v # w /\ g \in Graphs
        BY <1>7, <1>8
  <2>2. LiveCell(v, g, Pend(reqs[v], g), Pend(resps[v], g))
        BY <1>7, <2>1, NowLive
  <2> QED  BY <1>9, <2>1, <2>2
<1>18. ReadyToReset(F, gr, rq, C)
      BY <1>8, <1>10, <1>12, <1>13, <1>14, <1>15, <1>16, <1>17 DEF ReadyToReset
<1>19. /\ conn' \in [Workers -> BOOLEAN] /\ \A v \in Workers : conn'[v] <=> v \in C
      BY <1>2, <1>3, <1>4 DEF RInv, TypeInv
<1>20. /\ DOMAIN cn' = Workers /\ \A v \in Workers : DOMAIN cn'[v] = Graphs
       /\ \A v \in C : cn'[v] = cn[v]
       /\ batches' \in [Workers -> SUBSET SUBSET Graphs] /\ CnsOK'
  <2>1. CASE cn' = cn /\ batches' = batches
        BY <2>1 DEF RInv, TypeInv, CnsOK, BatchOK
  <2>2. CASE /\ cn' = [cn EXCEPT ![w] = [g \in Graphs |-> NoState]]
             /\ batches' = [batches EXCEPT ![w] = {}]
    <3>1. /\ DOMAIN cn' = Workers /\ DOMAIN cn'[w] = Graphs
          /\ \A g \in Graphs : cn'[w][g] = NoState
          /\ \A v \in Workers : v # w => cn'[v] = cn[v] /\ batches'[v] = batches[v]
          /\ batches' \in [Workers -> SUBSET SUBSET Graphs] /\ batches'[w] = {}
          BY <2>2 DEF RInv, TypeInv
    <3>2. ASSUME NEW v \in Workers, NEW g \in Graphs PROVE CnOK(cn'[v][g]) /\ BatchOK(v, g)'
      <4>1. CASE v = w
            BY <3>1, <4>1, NoStateFields DEF BatchOK
      <4>2. CASE v # w
            BY <3>1, <4>2 DEF BatchOK, RInv, CnsOK
      <4> QED  BY <4>1, <4>2
    <3>3. \A v \in Workers : DOMAIN cn'[v] = Graphs
          BY <3>1 DEF RInv, TypeInv
    <3>4. CnsOK'
          BY <3>2 DEF CnsOK
    <3> QED  BY <1>8, <3>1, <3>3, <3>4
  <2> QED  BY <2>1, <2>2 DEF WorkerError, cnVars
<1>21. OtherwiseOK(C)
      BY <1>3, <1>10, <1>19, <1>20 DEF OtherwiseOK
<1> QED  BY <1>1, <1>3, <1>5, <1>18, <1>21, EnterResetKeeps

------------------------------------------------------------------------------
(* The invariant. *)

\* Nothing is connected, and no graph exists, at the start.
LEMMA InitRInv == Init => RInv
<1> SUFFICES ASSUME Init PROVE RInv
    OBVIOUS
<1>1. TypeInv
  <2>1. NoGraph \in GraphState
        BY DEF NoGraph, GraphState
  <2> QED  BY <2>1 DEF Init, TypeInv, Stages, JobStates
<1>2. StreamsOK
      BY EmptyGood DEF Init, StreamsOK
<1>3. RemovedForGood
      BY EmptyGood DEF Init, RemovedForGood, Has
<1>4. CnsOK
      BY NoStateFields DEF Init, CnsOK, BatchOK
<1>5. MetasOK
  <2>1. ASSUME NEW g \in Graphs PROVE GraphOK(g)
        BY DEF Init, GraphOK, NoGraph
  <2>2. ASSUME NEW d \in Databases PROVE MetaOK(d)
        BY DEF Init, MetaOK, NoGraph, GraphsOf
  <2> QED  BY <2>1, <2>2 DEF MetasOK
<1> QED  BY <1>1, <1>2, <1>3, <1>4, <1>5 DEF RInv

\* What is the same in two states is as good in both.
LEMMA StutterKeeps ==
  ASSUME RInv, UNCHANGED vars
  PROVE  RInv' /\ panic' = panic
<1>1. /\ phase' = phase /\ stage' = stage /\ waits' = waits /\ job' = job /\ graph' = graph
      /\ nodes' = nodes /\ lastTerm' = lastTerm /\ conn' = conn /\ reqs' = reqs /\ resps' = resps
      /\ cn' = cn /\ batches' = batches /\ xreq' = xreq /\ panic' = panic
      BY DEF vars, metaVars, cnVars, xVars
<1>2. TypeInv'
      BY <1>1 DEF RInv, TypeInv
<1>3. StreamsOK'
  <2>1. \A w, g : Cell(w, g)' = Cell(w, g)
        BY <1>1, Zenon DEF Cell, CellWith, JobKind
  <2> QED  BY <1>1, <2>1 DEF RInv, StreamsOK
<1>4. RemovedForGood'
      BY <1>1 DEF RInv, RemovedForGood
<1>5. CnsOK'
      BY <1>1 DEF RInv, CnsOK, BatchOK
<1>6. MetasOK'
  <2>1. \A g : GraphOK(g)' = GraphOK(g)
        BY <1>1, Zenon DEF GraphOK, Connected
  <2>2. \A d : MetaOK(d)' = MetaOK(d)
        BY <1>1, Zenon DEF MetaOK, GraphsOf
  <2> QED  BY <2>1, <2>2 DEF RInv, MetasOK
<1> QED  BY <1>1, <1>2, <1>3, <1>4, <1>5, <1>6 DEF RInv

LEMMA MetaStepKeeps ==
  ASSUME RInv, NEW d \in Databases, MetaStep(d)
  PROVE  RInv' /\ (panic' => panic)
<1>1. CASE EnterInitializing(d)     BY <1>1, EnterInitializingKeeps
<1>2. CASE FailInitializing(d)      BY <1>2, FailInitializingKeeps
<1>3. CASE FailReload(d)            BY <1>3, BackoffKeeps
<1>4. CASE RemoveDatabase(d)        BY <1>4, RemoveDatabaseKeeps
<1>5. CASE BackoffPasses(d)         BY <1>5, BackoffKeeps
<1>6. CASE EnterRunning(d)          BY <1>6, EnterRunningKeeps
<1>7. CASE CreateDatabase(d)        BY <1>7, CreateDatabaseKeeps
<1>8. CASE CreateDatabaseFails(d)   BY <1>8, CreateDatabaseFailsKeeps
<1>9. CASE CreateJob(d)             BY <1>9, CreateJobKeeps
<1>10. CASE CreateJobFails(d)       BY <1>10, CreateJobFailsKeeps
<1>11. CASE DropJob(d)              BY <1>11, DropJobKeeps
<1>12. CASE StopJob(d)              BY <1>12, StopJobKeeps
<1>13. CASE FinishJob(d)            BY <1>13, FinishJobKeeps
<1> QED  BY <1>1, <1>2, <1>3, <1>4, <1>5, <1>6, <1>7, <1>8, <1>9, <1>10, <1>11, <1>12, <1>13
         DEF MetaStep

\* Every step keeps the invariant.  The only assertion that can fail is the one
\* about the actors of a barrier that a compute node handles.
LEMMA NextKeeps ==
  ASSUME RInv, [Next]_vars
  PROVE  RInv' /\ (panic' /\ InjectedActorsExist => panic)
<1>1. CASE UNCHANGED vars
      BY <1>1, StutterKeeps
<1>2. CASE GlobalRecover
      BY <1>2, GlobalRecoverKeeps
<1>3. CASE GlobalDone
      BY <1>3, GlobalDoneKeeps
<1>4. ASSUME NEW d \in Databases, GlobalInject(d) \/ MetaStep(d)
      PROVE  RInv' /\ (panic' => panic)
      BY <1>4, GlobalInjectKeeps, MetaStepKeeps
<1>5. ASSUME NEW g \in Graphs, InjectBarrier(g) \/ ResetCollected(g)
      PROVE  RInv' /\ (panic' => panic)
      BY <1>5, InjectBarrierKeeps, ResetCollectedKeeps
<1>6. ASSUME NEW w \in Workers,
             MetaRecv(w) \/ WorkerError(w) \/ Reconnect(w) \/ CnHandle(w) \/ CnResetDone(w)
      PROVE  RInv' /\ (panic' /\ InjectedActorsExist => panic)
      BY <1>6, MetaRecvKeeps, WorkerErrorKeeps, ReconnectKeeps, CnHandleKeeps, CnResetDoneKeeps
<1>7. ASSUME NEW w \in Workers, NEW g \in Graphs, CnComplete(w, g) \/ CnFail(w, g)
      PROVE  RInv' /\ (panic' => panic)
      BY <1>7, CnCompleteKeeps, CnFailKeeps
<1>8. ASSUME NEW w \in Workers, NEW v \in Workers, NEW g \in Graphs, XSend(w, v, g)
      PROVE  RInv' /\ (panic' => panic)
      BY <1>8, XSendKeeps
<1>9. CASE XDeliver
      BY <1>9, XDeliverKeeps
<1> QED  BY <1>1, <1>2, <1>3, <1>4, <1>5, <1>6, <1>7, <1>8, <1>9 DEF Next

\* The meta node's view of every graph, the compute nodes' view of it and the
\* messages between them fit together in every state: whatever the order of
\* failures, resets, reconnections and answers, and for any numbers of workers
\* and databases (partial_graph.rs, recovery.rs, worker.rs, barrier_worker/mod.rs).
THEOREM RecoveryInvariant == Spec => []RInv
<1>1. RInv /\ [Next]_vars => RInv'
      BY NextKeeps
<1> QED  BY <1>1, InitRInv, PTL DEF Spec

------------------------------------------------------------------------------
(* What the invariant says about the recovery protocol. *)

\* A running graph of a compute node hands its actors' outputs only to actors of
\* its own term: requests that came before the graph was created are dropped if
\* they are of another one (add_partial_graph, ExchangeSameTerm).
THEOREM ExchangeSameTermHolds == Spec => []ExchangeSameTerm
<1>1. RInv => ExchangeSameTerm
      BY DEF RInv, CnsOK, CnOK, ExchangeSameTerm
<1> QED  BY <1>1, RecoveryInvariant, PTL

\* The answers on their way to the meta node are about the life of the graph
\* that it has, though no message names it: none of a graph that was dropped or
\* removed, none of the term before, and for a graph being reset only from the
\* workers it still waits for (on_partial_graph_reset and collect in
\* partial_graph.rs).
THEOREM AnswersAreCurrentHolds == Spec => []AnswersAreCurrent
<1>1. RInv => AnswersAreCurrent
  <2> SUFFICES ASSUME RInv, NEW w \in Workers, NEW i \in DOMAIN resps[w]
               PROVE  LET m == resps[w][i]
                          s == graph[m.g]
                      IN CASE s.st \in {"running", "initializing"} -> m.type # "done" /\ m.term = s.term
                           [] s.st = "resetting" -> w \in s.left
                           [] OTHER -> FALSE
      BY DEF AnswersAreCurrent
  <2> DEFINE m == resps[w][i]
             g == m.g
  <2>1. /\ resps[w] \in Seq(Messages) /\ resps[w] # <<>>
        /\ i \in 1 .. Len(resps[w]) /\ m \in Messages
        BY DEF RInv, StreamsOK, Good
  <2>2. conn[w]
        BY <2>1 DEF RInv, StreamsOK
  <2>3. PICK h \in About(m) : h \in Graphs
        BY <2>1, MessageFacts
  <2>4. m \in Pend(resps[w], h)
        BY <2>1, <2>3 DEF Pend
  <2>5. CellOK(w, graph[h], nodes[h], JobKind(h), cn[w][h], Pend(reqs[w], h), Pend(resps[w], h))
        BY <2>2, <2>3 DEF RInv, StreamsOK, Cell, CellWith
  <2>6. m.type \in AnswerTypes
        BY <2>4, <2>5 DEF CellOK
  <2>7. h = g
        BY <2>3, <2>6 DEF About, AnswerTypes
  <2>8. /\ Kind(graph[g].st) # "none"
        /\ Kind(graph[g].st) = "resetting" => w \in graph[g].left
        /\ Kind(graph[g].st) = "live" => m.type # "done" /\ m.term = graph[g].term
        BY <2>4, <2>5, <2>7 DEF CellOK
  <2>9. graph[g].st \in {"none", "running", "resetting", "initializing"}
        BY <2>3, <2>7 DEF RInv, TypeInv, GraphState
  <2> QED  BY <2>8, <2>9 DEF Kind
<1> QED  BY <1>1, RecoveryInvariant, PTL

\* When a graph is built again no actor of its previous life is left on any
\* connected worker: the reset was answered after they were gone
\* (reset_partial_graphs of the compute node, OldActorsGone).
THEOREM OldActorsGoneHolds == Spec => []OldActorsGone
<1>1. RInv => OldActorsGone
  <2> SUFFICES ASSUME RInv, NEW w \in Connected, NEW g \in Graphs,
                      graph[g].st \in {"none", "initializing", "running"}, cn[w][g].actors
               PROVE  graph[g].st # "none" /\ cn[w][g].term = graph[g].term
      BY DEF OldActorsGone
  <2> DEFINE c == cn[w][g]
             R == Pend(reqs[w], g)
  <2>1. w \in Workers /\ conn[w]
        BY DEF Connected
  <2>2. /\ CellOK(w, graph[g], nodes[g], JobKind(g), c, R, Pend(resps[w], g))
        /\ CnOK(c)
        BY <2>1 DEF RInv, StreamsOK, CnsOK, Cell, CellWith
  <2>3. c.st \notin {"none", "received"} /\ c.st \in {"none", "received", "running", "suspended", "resetting"}
        BY <2>2 DEF CnOK
  <2>4. ~Has(R, "create")
        BY <2>2, <2>3 DEF CellOK, Has
  <2>5. ~Has(R, "remove")
        BY <2>2, <2>4 DEF CellOK, Has
  <2>6. c.st # "resetting"
        BY <2>2 DEF CellOK, Kind
  <2>7. Kind(graph[g].st) # "none"
        BY <2>2, <2>3, <2>5 DEF CellOK
  <2>8. Kind(graph[g].st) = "live"
        BY <2>7 DEF Kind
  <2> QED  BY <2>2, <2>3, <2>6, <2>7, <2>8 DEF CellOK, Kind
<1> QED  BY <1>1, RecoveryInvariant, PTL

LEMMA GraphsFacts ==
  ASSUME NEW d \in Databases
  PROVE  /\ Main(d) \in GraphsOf(d) /\ Main(d) # JobOf(d)
         /\ JobOf(d) \in GraphsOf(d) <=> d \in JobDatabases
         /\ GraphsOf(d) \subseteq {Main(d), JobOf(d)} /\ GraphsOf(d) \subseteq Graphs
BY DEF GraphsOf, Graphs, Main, JobOf

\* The recovery state of a database and the manager's graphs agree: it waits for
\* exactly the graphs being reset or initialized and runs the others, so that no
\* reset or initial barrier is forgotten or waited for twice; a graph waits only
\* for connected workers, and a compute node resets it in one batch.
THEOREM RecoveryTracksGraphsHolds == Spec => []RecoveryTracksGraphs
<1>1. RInv => RTypeOK
  <2> SUFFICES ASSUME RInv PROVE RTypeOK
      OBVIOUS
  <2>1. ASSUME NEW g \in Graphs
        PROVE  /\ graph[g].st \in {"none", "running", "resetting", "initializing"}
               /\ graph[g].left \subseteq Connected
               /\ graph[g].st \in {"running", "initializing"} => graph[g].left \subseteq nodes[g]
        BY DEF RInv, TypeInv, GraphState, MetasOK, GraphOK
  <2>2. ASSUME NEW w \in Workers, NEW g \in Graphs
        PROVE  Cardinality({B \in batches[w] : g \in B}) =
                 (IF cn[w][g].st = "resetting" THEN 1 ELSE 0)
    <3>1. BatchOK(w, g)
          BY DEF RInv, CnsOK
    <3>2. CASE cn[w][g].st = "resetting"
      <4>1. PICK B \in batches[w] : {X \in batches[w] : g \in X} = {B}
            BY <3>1, <3>2 DEF BatchOK
      <4>2. Cardinality({B}) = 1
            BY FS_Singleton
      <4> QED  BY <3>2, <4>1, <4>2
    <3>3. CASE cn[w][g].st # "resetting"
      <4>1. {X \in batches[w] : g \in X} = {}
            BY <3>1, <3>3 DEF BatchOK
      <4> QED  BY <3>3, <4>1, FS_EmptySet
    <3> QED  BY <3>2, <3>3
  <2>3. ASSUME NEW d \in Databases PROVE waits[d] \subseteq GraphsOf(d)
        BY DEF RInv, MetasOK, MetaOK
  <2> QED  BY <2>1, <2>2, <2>3 DEF RTypeOK
<1>2. ASSUME RInv, NEW d \in Databases
      PROVE  LET with(x) == {g \in GraphsOf(d) : graph[g].st = x}
             IN CASE stage[d] \in {"absent", "pending"} -> with("none") = GraphsOf(d)
                  [] stage[d] = "resetting" ->
                       with("resetting") = waits[d] /\ with("none") = GraphsOf(d) \ waits[d]
                  [] stage[d] = "initializing" ->
                       with("initializing") = waits[d] /\ with("resetting") = {}
                  [] OTHER ->
                       /\ graph[Main(d)].st = "running" /\ waits[d] = {}
                       /\ with("resetting") # {} <=> job[d] = "resetting"
                       /\ JobOf(d) \in with("running") <=> job[d] \in {"running", "finishing"}
  <2> DEFINE with(x) == {g \in GraphsOf(d) : graph[g].st = x}
  <2>1. MetaOK(d) /\ stage[d] \in Stages /\ job[d] \in JobStates
        BY <1>2 DEF RInv, MetasOK, TypeInv
  <2>2. \A g \in GraphsOf(d) : graph[g].st \in {"none", "running", "resetting", "initializing"}
        BY <1>2 DEF RInv, TypeInv, GraphState, GraphsOf
  <2>3. CASE stage[d] \in {"absent", "pending"}
        BY <2>1, <2>3 DEF MetaOK
  <2>4. CASE stage[d] = "resetting"
        BY <2>1, <2>2, <2>4 DEF MetaOK
  <2>5. CASE stage[d] = "initializing"
    <3>1. with("initializing") = waits[d]
          BY <2>1, <2>5 DEF MetaOK
    <3>2. \A g \in GraphsOf(d) : graph[g].st # "resetting"
          BY <2>1, <2>5, GraphsFacts DEF MetaOK
    <3> QED  BY <2>5, <3>1, <3>2
  <2>6. CASE stage[d] = "running"
    <3>1. /\ graph[Main(d)].st = "running" /\ waits[d] = {}
          /\ d \in JobDatabases =>
               CASE job[d] \in {"running", "finishing"} -> graph[JobOf(d)].st = "running"
                 [] job[d] = "resetting" -> graph[JobOf(d)].st = "resetting"
                 [] OTHER -> graph[JobOf(d)].st = "none"
          /\ job[d] \in {"running", "finishing", "resetting"} => d \in JobDatabases
          BY <2>1, <2>6 DEF MetaOK
    <3>2. with("resetting") # {} <=> job[d] = "resetting"
      <4>1. ASSUME job[d] = "resetting" PROVE JobOf(d) \in with("resetting")
            BY <3>1, <4>1, GraphsFacts
      <4>2. ASSUME NEW g \in with("resetting") PROVE job[d] = "resetting"
        <5>1. g = JobOf(d) /\ d \in JobDatabases /\ graph[JobOf(d)].st = "resetting"
              BY <3>1, <4>2, GraphsFacts
        <5> QED  BY <3>1, <5>1
      <4> QED  BY <4>1, <4>2
    <3>3. JobOf(d) \in with("running") <=> job[d] \in {"running", "finishing"}
          BY <3>1, GraphsFacts
    <3> QED  BY <2>6, <3>1, <3>2, <3>3
  <2> QED  BY <2>1, <2>3, <2>4, <2>5, <2>6 DEF Stages
<1>3. RInv => RecoveryTracksGraphs
      BY <1>1, <1>2 DEF RecoveryTracksGraphs
<1> QED  BY <1>3, RecoveryInvariant, PTL

\* The only assertion of either end that can ever fail is the one about the
\* actors that are to collect a barrier: in a behaviour in which they always
\* exist, no `assert`, `unreachable!` or `expect` of partial_graph.rs,
\* recovery.rs, worker.rs or barrier_worker/mod.rs does.
THEOREM OnlyMissingActorsPanic == Spec => ([]InjectedActorsExist => []NoAssertFails)
<1>1. Init => NoAssertFails
      BY DEF Init, NoAssertFails
<1>2. RInv /\ InjectedActorsExist /\ NoAssertFails /\ [Next]_vars => NoAssertFails'
      BY NextKeeps DEF NoAssertFails
<1> QED  BY <1>1, <1>2, RecoveryInvariant, PTL DEF Spec

------------------------------------------------------------------------------
(* The actors that are to collect a barrier exist.                            *)

\* A barrier that expects actors, and one that builds them.
Plain(m) == m.type = "inject" /\ m.kind # "build"
Builds(S) == \E m \in S : m.type = "inject" /\ m.kind = "build"

\* Graph g is to have actors on worker w: those of a job that finishes stop.
Needed(w, g) == Kind(graph[g].st) = "live" /\ w \in nodes[g] /\ JobKind(g) # "finishing"

\* They are there or are about to be built, and no barrier comes before them.
ActorsAt(w, g) ==
  /\ Needed(w, g) => conn[w] /\ (cn[w][g].actors \/ Builds(Pend(reqs[w], g)))
  /\ \A m \in Pend(reqs[w], g) : Plain(m) => cn[w][g].actors

ActorsOK == \A w \in Workers, g \in Graphs : ActorsAt(w, g)

\* No worker that a database runs on fails between the time global recovery
\* collects that database's initial barrier and its end.
NoCollectedFails ==
  phase = "global" =>
    \A w \in Workers : WorkerError(w) =>
      \A d \in Databases : stage[d] = "running" => ~OnWorker(d, w)

\* The queues r2 have all that r has, and no more barriers that expect actors.
Grows(r, r2) ==
  \A w \in Workers :
    /\ r2[w] \in Seq(Messages)
    /\ \A g : /\ Pend(r[w], g) \subseteq Pend(r2[w], g)
              /\ \A m \in Pend(r2[w], g) : Plain(m) => m \in Pend(r[w], g)

LEMMA GrowsSame ==
  ASSUME NEW r, \A w \in Workers : r[w] \in Seq(Messages)
  PROVE  Grows(r, r)
BY DEF Grows

LEMMA GrowsOn ==
  ASSUME NEW r, NEW r2, NEW r3, Grows(r, r2), Grows(r2, r3)
  PROVE  Grows(r, r3)
BY DEF Grows

\* One more message.
LEMMA PendAppend ==
  ASSUME NEW q \in Seq(Messages), NEW m \in Messages
  PROVE  /\ Append(q, m) \in Seq(Messages)
         /\ \A g : Pend(Append(q, m), g) = IF g \in About(m) THEN Pend(q, g) \cup {m}
                                           ELSE Pend(q, g)
<1> DEFINE p == Append(q, m)
<1>1. /\ p \in Seq(Messages) /\ Len(p) = Len(q) + 1 /\ Len(q) \in Nat
      /\ \A i \in 1 .. Len(q) : p[i] = q[i]
      /\ p[Len(q) + 1] = m
      OBVIOUS
<1> HIDE DEF p
<1>2. ASSUME NEW x PROVE (\E i \in 1 .. Len(p) : p[i] = x) <=> (\E i \in 1 .. Len(q) : q[i] = x) \/ x = m
  <2>1. ASSUME NEW i \in 1 .. Len(p), p[i] = x
        PROVE  (\E k \in 1 .. Len(q) : q[k] = x) \/ x = m
        BY <1>1, <2>1
  <2>2. ASSUME NEW i \in 1 .. Len(q), q[i] = x PROVE \E k \in 1 .. Len(p) : p[k] = x
        BY <1>1, <2>2
  <2>3. Len(q) + 1 \in 1 .. Len(p)
        BY <1>1
  <2> QED  BY <1>1, <2>1, <2>2, <2>3
<1>3. ASSUME NEW g PROVE Pend(p, g) = IF g \in About(m) THEN Pend(q, g) \cup {m} ELSE Pend(q, g)
      BY <1>2 DEF Pend
<1> QED  BY <1>1, <1>3 DEF p

LEMMA GrowsPost ==
  ASSUME NEW r, \A w \in Workers : r[w] \in Seq(Messages), NEW C, NEW m \in Messages, ~Plain(m)
  PROVE  /\ Grows(r, Post(r, C, m))
         /\ \A w \in Workers, g \in About(m) : w \in C => m \in Pend(Post(r, C, m)[w], g)
<1>1. ASSUME NEW w \in Workers
      PROVE  /\ Post(r, C, m)[w] \in Seq(Messages)
             /\ \A g : Pend(Post(r, C, m)[w], g) =
                         IF w \in C /\ g \in About(m) THEN Pend(r[w], g) \cup {m} ELSE Pend(r[w], g)
  <2>1. Post(r, C, m)[w] = IF w \in C THEN Append(r[w], m) ELSE r[w]
        BY DEF Post
  <2>2. CASE w \in C
    <3>1. PICK q \in Seq(Messages) : q = r[w]
          OBVIOUS
    <3>2. /\ Append(q, m) \in Seq(Messages)
          /\ \A g : Pend(Append(q, m), g) = IF g \in About(m) THEN Pend(q, g) \cup {m}
                                            ELSE Pend(q, g)
          BY PendAppend
    <3> QED  BY <2>1, <2>2, <3>1, <3>2
  <2>3. CASE w \notin C
        BY <2>1, <2>3
  <2> QED  BY <2>2, <2>3
<1> QED  BY <1>1 DEF Grows

\* A graph is started: on connected workers its actors are about to be built.
LEMMA GrowsStarted ==
  ASSUME NEW r, \A w \in Workers : r[w] \in Seq(Messages), NEW C, NEW g \in Graphs,
         NEW t \in Nat, NEW N, NEW early
  PROVE  /\ Grows(r, Started(r, C, g, t, N, early))
         /\ N \subseteq C =>
              \A w \in Workers : w \in N => Builds(Pend(Started(r, C, g, t, N, early)[w], g))
<1>1. PICK m, b : m = CreateGraph(g, t) /\ b = Inject(g, t, 1, "build")
      OBVIOUS
<1>2. /\ m \in Messages /\ ~Plain(m)
      /\ b \in Messages /\ ~Plain(b) /\ About(b) = {g} /\ b.type = "inject" /\ b.kind = "build"
      BY <1>1 DEF CreateGraph, Inject, Messages, Plain, About
<1>3. PICK r2 : r2 = Post(r, C, m)
      OBVIOUS
<1>4. Grows(r, r2) /\ \A w \in Workers : r2[w] \in Seq(Messages)
      BY <1>2, <1>3, GrowsPost DEF Grows
<1>5. PICK D : D = N \cap C
      OBVIOUS
<1>6. PICK r3 : r3 = Post(r2, D, b)
      OBVIOUS
<1>7. Grows(r2, r3) /\ \A w \in Workers : w \in D => b \in Pend(r3[w], g)
      BY <1>2, <1>4, <1>6, GrowsPost
<1>8. Started(r, C, g, t, N, early) = IF N \subseteq C \/ ~early THEN r3 ELSE r2
      BY <1>1, <1>3, <1>5, <1>6 DEF Started, InjectTo
<1>9. Grows(r, r3)
      BY <1>4, <1>7, GrowsOn
<1>10. Grows(r, Started(r, C, g, t, N, early))
      BY <1>4, <1>8, <1>9
<1>11. ASSUME N \subseteq C, NEW w \in Workers, w \in N
       PROVE  Builds(Pend(Started(r, C, g, t, N, early)[w], g))
  <2>1. b \in Pend(r3[w], g)
        BY <1>5, <1>7, <1>11
  <2> QED  BY <1>2, <1>8, <1>11, <2>1 DEF Builds
<1> QED  BY <1>10, <1>11

LEMMA GrowsReset ==
  ASSUME NEW r, \A w \in Workers : r[w] \in Seq(Messages), NEW C, NEW G, G \subseteq Graphs, NEW gr
  PROVE  Grows(r, ResetPartialGraphs(gr, r, C, G).reqs)
<1>1. CASE G = {}
      BY <1>1, GrowsSame DEF ResetPartialGraphs
<1>2. CASE G # {}
  <2>1. PICK m : m = ResetGraphs(G)
        OBVIOUS
  <2>2. m \in Messages /\ ~Plain(m)
        BY <1>2, <2>1 DEF ResetGraphs, Messages, Plain
  <2> QED  BY <1>2, <2>1, <2>2, GrowsPost DEF ResetPartialGraphs
<1> QED  BY <1>1, <1>2

\* inject_database_initial_barrier.
LEMMA GrowsInitial ==
  ASSUME RInv, NEW d \in Databases, NEW p \in Placements(d), NEW t \in Nat, NEW early, NEW s,
         s = InjectDatabaseInitialBarrier(
               [graph |-> graph, reqs |-> reqs, added |-> {}, bad |-> FALSE],
               Connected, d, t, p, early)
  PROVE  /\ Grows(reqs, s.reqs)
         /\ s.ok => \A w \in Workers, g \in DOMAIN p :
                      w \in p[g] => w \in Connected /\ Builds(Pend(s.reqs[w], g))
<1>0. PICK C : C = Connected
      OBVIOUS
<1>1. PICK m, j : m = Main(d) /\ j = JobOf(d)
      OBVIOUS
<1>2. m \in Graphs /\ m # j
      BY <1>1, DatabaseFacts
<1>3. /\ m \in DOMAIN p /\ DOMAIN p \subseteq Graphs
      /\ j \in DOMAIN p => DOMAIN p = {m, j} /\ j \in Graphs
      /\ j \notin DOMAIN p => DOMAIN p = {m}
      BY <1>1, PlacementFacts, DatabaseFacts
<1>4. \A w \in Workers : reqs[w] \in Seq(Messages)
      BY DEF RInv, StreamsOK, Good
<1>5. PICK s0 : s0 = [graph |-> graph, reqs |-> reqs, added |-> {}, bad |-> FALSE]
      OBVIOUS
<1>6. s0.reqs = reqs /\ s0.added = {}
      BY <1>5
<1>7. PICK a : a = RecoverGraph(s0, C, m, t, p[m], early)
      OBVIOUS
<1>8. /\ a.reqs = Started(reqs, C, m, t, p[m], early) /\ a.ok = (p[m] \subseteq C)
      /\ a.added = {m}
      BY <1>6, <1>7 DEF RecoverGraph, Started
<1>9. /\ Grows(reqs, a.reqs) /\ \A w \in Workers : a.reqs[w] \in Seq(Messages)
      /\ a.ok => \A w \in Workers : w \in p[m] => w \in C /\ Builds(Pend(a.reqs[w], m))
  <2>1. /\ Grows(reqs, a.reqs)
        /\ p[m] \subseteq C => \A w \in Workers : w \in p[m] => Builds(Pend(a.reqs[w], m))
        BY <1>2, <1>4, <1>8, GrowsStarted
  <2> QED  BY <1>8, <2>1 DEF Grows
<1>10. PICK b : b = RecoverGraph(a, C, j, t, p[j], early)
      OBVIOUS
<1>11. /\ b.reqs = Started(a.reqs, C, j, t, p[j], early) /\ b.ok = (p[j] \subseteq C)
       /\ b.added = {m, j}
      BY <1>8, <1>10 DEF RecoverGraph, Started
<1>12. j \in DOMAIN p =>
         /\ Grows(a.reqs, b.reqs)
         /\ b.ok => \A w \in Workers : w \in p[j] => w \in C /\ Builds(Pend(b.reqs[w], j))
  <2> SUFFICES ASSUME j \in DOMAIN p
               PROVE  /\ Grows(a.reqs, b.reqs)
                      /\ b.ok => \A w \in Workers : w \in p[j] => w \in C /\ Builds(Pend(b.reqs[w], j))
        OBVIOUS
  <2>1. PICK r : r = a.reqs
        OBVIOUS
  <2>2. /\ Grows(r, Started(r, C, j, t, p[j], early))
        /\ p[j] \subseteq C =>
             \A w \in Workers : w \in p[j] => Builds(Pend(Started(r, C, j, t, p[j], early)[w], j))
        BY <1>3, <1>9, <2>1, GrowsStarted
  <2> QED  BY <1>11, <2>1, <2>2
<1>13. PICK x : x = IF a.ok /\ j \in DOMAIN p THEN b ELSE a
      OBVIOUS
<1>14. /\ Grows(reqs, x.reqs) /\ x.added \subseteq Graphs
       /\ \A w \in Workers : x.reqs[w] \in Seq(Messages)
       /\ x.ok => \A w \in Workers, g \in DOMAIN p :
                    w \in p[g] => w \in C /\ Builds(Pend(x.reqs[w], g))
  <2>1. CASE a.ok /\ j \in DOMAIN p
    <3>1. x = b /\ Grows(reqs, b.reqs)
          BY <1>9, <1>12, <1>13, <2>1, GrowsOn
    <3>2. ASSUME b.ok, NEW w \in Workers, w \in p[m]
          PROVE  w \in C /\ Builds(Pend(b.reqs[w], m))
          BY <1>9, <1>12, <2>1, <3>2 DEF Grows, Builds
    <3> QED  BY <1>2, <1>3, <1>11, <1>12, <2>1, <3>1, <3>2 DEF Grows
  <2>2. CASE ~(a.ok /\ j \in DOMAIN p)
        BY <1>2, <1>3, <1>8, <1>9, <1>13, <2>2
  <2> QED  BY <2>1, <2>2
<1>15. PICK k : k = ResetPartialGraphs(x.graph, x.reqs, C, x.added)
      OBVIOUS
<1>16. Grows(x.reqs, k.reqs)
      BY <1>14, <1>15, GrowsReset
<1>17. /\ x.ok => s = x
       /\ ~x.ok => s.reqs = k.reqs /\ s.ok = FALSE
      BY <1>0, <1>1, <1>5, <1>7, <1>10, <1>13, <1>15 DEF InjectDatabaseInitialBarrier
<1> QED  BY <1>0, <1>14, <1>16, <1>17, GrowsOn

\* The meta node's steps: what is needed was, or is about to be built.
LEMMA MetaActors ==
  ASSUME RInv, ActorsOK, cn' = cn, conn' = conn, Grows(reqs, reqs'),
         \A w \in Workers, g \in Graphs :
           Needed(w, g)' => Needed(w, g) \/ (conn[w] /\ Builds(Pend(reqs'[w], g)))
  PROVE  ActorsOK'
<1> SUFFICES ASSUME NEW w \in Workers, NEW g \in Graphs PROVE ActorsAt(w, g)'
    BY DEF ActorsOK
<1>1. ActorsAt(w, g)
      BY DEF ActorsOK
<1>2. /\ Pend(reqs[w], g) \subseteq Pend(reqs'[w], g)
      /\ \A m \in Pend(reqs'[w], g) : Plain(m) => m \in Pend(reqs[w], g)
      BY DEF Grows
<1>3. Builds(Pend(reqs[w], g)) => Builds(Pend(reqs'[w], g))
      BY <1>2 DEF Builds
<1>4. Needed(w, g)' => conn'[w] /\ (cn'[w][g].actors \/ Builds(Pend(reqs'[w], g)))
      BY <1>1, <1>3 DEF ActorsAt
<1>5. \A m \in Pend(reqs'[w], g) : Plain(m) => cn'[w][g].actors
      BY <1>1, <1>2 DEF ActorsAt
<1> QED  BY <1>4, <1>5 DEF ActorsAt

LEMMA SeqsNow == RInv => \A w \in Workers : reqs[w] \in Seq(Messages)
BY DEF RInv, StreamsOK, Good

LEMMA QuietActors ==
  ASSUME RInv, ActorsOK, cn' = cn, conn' = conn, reqs' = reqs, graph' = graph, nodes' = nodes,
         job' = job
  PROVE  ActorsOK'
<1>1. Grows(reqs, reqs')
      BY SeqsNow, GrowsSame
<1>2. \A w, g : Needed(w, g)' => Needed(w, g)
      BY DEF Needed, JobKind
<1> QED  BY <1>1, <1>2, MetaActors

\* What a database has of its graphs after inject_database_initial_barrier.
LEMMA InitialActors ==
  ASSUME RInv, ActorsOK, NEW d \in Databases, \A g \in GraphsOf(d) : graph[g].st = "none",
         NEW p \in Placements(d), NEW t, t = lastTerm + 1, NEW early, NEW s,
         s = InjectDatabaseInitialBarrier(
               [graph |-> graph, reqs |-> reqs, added |-> {}, bad |-> FALSE],
               Connected, d, t, p, early),
         cn' = cn, conn' = conn, graph' = s.graph, reqs' = s.reqs,
         nodes' = (IF s.ok THEN Placed(p) ELSE nodes),
         \A e \in Databases : e # d => job'[e] = job[e]
  PROVE  ActorsOK'
<1>0. t \in Nat
      BY DEF RInv, TypeInv
<1>1. InitialOK(d, p, t, s)
      BY <1>0, InitialBarriers
<1>2. /\ Grows(reqs, s.reqs)
      /\ s.ok => \A w \in Workers, g \in DOMAIN p :
                   w \in p[g] => w \in Connected /\ Builds(Pend(s.reqs[w], g))
      BY <1>0, GrowsInitial
<1>3. /\ s.added \subseteq DOMAIN p /\ DOMAIN p \subseteq GraphsOf(d)
      /\ s.ok => s.added = DOMAIN p
      /\ \A g \in Graphs : g \notin s.added => s.graph[g] = graph[g]
      /\ ~s.ok => \A g \in s.added : s.graph[g].st = "resetting"
  <2>1. /\ s.added \subseteq DOMAIN p /\ (s.ok => s.added = DOMAIN p)
        /\ \A g \in Graphs : g \notin s.added => s.graph[g] = graph[g]
        BY <1>1 DEF InitialOK
  <2>2. ASSUME ~s.ok, NEW g \in s.added PROVE s.graph[g].st = "resetting"
    <3>1. s.graph[g] = [st |-> "resetting", term |-> 0, epoch |-> 0, left |-> Connected]
          BY <1>1, <2>2 DEF InitialOK
    <3> QED  BY <3>1
  <2> QED  BY <2>1, <2>2, PlacementFacts
<1>4. ASSUME NEW w \in Workers, NEW g \in Graphs, Needed(w, g)'
      PROVE  Needed(w, g) \/ (conn[w] /\ Builds(Pend(reqs'[w], g)))
  <2>1. CASE g \in s.added /\ s.ok
    <3>1. g \in DOMAIN p /\ nodes'[g] = p[g]
          BY <1>3, <2>1 DEF Placed
    <3>2. w \in p[g]
          BY <1>4, <3>1 DEF Needed
    <3> QED  BY <1>2, <2>1, <3>1, <3>2 DEF Connected
  <2>2. CASE g \in s.added /\ ~s.ok
        BY <1>3, <1>4, <2>2 DEF Needed, Kind
  <2>3. CASE g \notin s.added
    <3>1. graph'[g] = graph[g]
          BY <1>3, <2>3
    <3>2. CASE g \in GraphsOf(d)
          BY <1>4, <3>1, <3>2 DEF Needed, Kind
    <3>3. CASE g \notin GraphsOf(d)
      <4>1. g[1] \in Databases /\ g[1] # d
            BY <3>3, GraphFacts
      <4>2. nodes'[g] = nodes[g]
            BY <1>3, <3>3 DEF Placed
      <4>3. JobKind(g)' = JobKind(g)
            BY <4>1 DEF JobKind
      <4> QED  BY <1>4, <3>1, <4>2, <4>3 DEF Needed
    <3> QED  BY <3>2, <3>3
  <2> QED  BY <2>1, <2>2, <2>3
<1> QED  BY <1>2, <1>4, MetaActors

LEMMA EnterInitializingActors ==
  ASSUME RInv, ActorsOK, NEW d \in Databases, EnterInitializing(d)
  PROVE  ActorsOK'
<1>1. stage[d] = "resetting" /\ waits[d] = {} /\ MetaOK(d)
      BY DEF EnterInitializing, RInv, MetasOK
<1>2. \A g \in GraphsOf(d) : graph[g].st = "none"
      BY <1>1 DEF MetaOK
<1>3. PICK p, s :
        /\ p \in Placements(d)
        /\ s = InjectDatabaseInitialBarrier(
                 [graph |-> graph, reqs |-> reqs, added |-> {}, bad |-> FALSE],
                 Connected, d, lastTerm + 1, p, FALSE)
        /\ s.ok
        /\ graph' = s.graph /\ reqs' = s.reqs
        /\ nodes' = Placed(p)
        /\ job' = [job EXCEPT ![d] = JobAfter(d, p)]
      BY Zenon DEF EnterInitializing
<1>4. conn' = conn /\ cn' = cn /\ \A e \in Databases : e # d => job'[e] = job[e]
      BY <1>3 DEF EnterInitializing, cnVars, RInv, TypeInv
<1> QED  BY <1>2, <1>3, <1>4, InitialActors

LEMMA FailInitializingActors ==
  ASSUME RInv, ActorsOK, NEW d \in Databases, FailInitializing(d)
  PROVE  ActorsOK'
<1>1. stage[d] = "resetting" /\ waits[d] = {} /\ MetaOK(d)
      BY DEF FailInitializing, RInv, MetasOK
<1>2. \A g \in GraphsOf(d) : graph[g].st = "none"
      BY <1>1 DEF MetaOK
<1>3. PICK p, early, s :
        /\ p \in Placements(d) /\ early \in BOOLEAN
        /\ s = InjectDatabaseInitialBarrier(
                 [graph |-> graph, reqs |-> reqs, added |-> {}, bad |-> FALSE],
                 Connected, d, lastTerm + 1, p, early)
        /\ ~s.ok
        /\ graph' = s.graph /\ reqs' = s.reqs
      BY Zenon DEF FailInitializing
<1>4. conn' = conn /\ cn' = cn /\ nodes' = nodes /\ \A e \in Databases : e # d => job'[e] = job[e]
      BY DEF FailInitializing, cnVars
<1> QED  BY <1>2, <1>3, <1>4, InitialActors

LEMMA GlobalInjectActors ==
  ASSUME RInv, ActorsOK, NEW d \in Databases, GlobalInject(d)
  PROVE  ActorsOK'
<1>1. stage[d] = "pending" /\ MetaOK(d)
      BY DEF GlobalInject, RInv, MetasOK
<1>2. \A g \in GraphsOf(d) : graph[g].st = "none"
      BY <1>1 DEF MetaOK
<1>3. conn' = conn /\ cn' = cn
      BY DEF GlobalInject, cnVars
<1>4. CASE \E p, early, s :
             /\ p \in Placements(d) /\ early \in BOOLEAN
             /\ s = InjectDatabaseInitialBarrier(
                      [graph |-> graph, reqs |-> reqs, added |-> {}, bad |-> FALSE],
                      Connected, d, lastTerm + 1, p, early)
             /\ graph' = s.graph /\ reqs' = s.reqs
             /\ nodes' = IF s.ok THEN Placed(p) ELSE nodes
             /\ job' = IF s.ok THEN [job EXCEPT ![d] = JobAfter(d, p)] ELSE job
  <2>1. PICK p, early, s :
             /\ p \in Placements(d) /\ early \in BOOLEAN
             /\ s = InjectDatabaseInitialBarrier(
                      [graph |-> graph, reqs |-> reqs, added |-> {}, bad |-> FALSE],
                      Connected, d, lastTerm + 1, p, early)
             /\ graph' = s.graph /\ reqs' = s.reqs
             /\ nodes' = IF s.ok THEN Placed(p) ELSE nodes
             /\ job' = IF s.ok THEN [job EXCEPT ![d] = JobAfter(d, p)] ELSE job
        BY <1>4, Zenon
  <2>2. \A e \in Databases : e # d => job'[e] = job[e]
        BY <2>1 DEF RInv, TypeInv
  <2> QED  BY <1>2, <1>3, <2>1, <2>2, InitialActors
<1>5. CASE UNCHANGED <<graph, reqs, panic, waits, nodes, job, lastTerm>>
      BY <1>3, <1>5, QuietActors
<1> QED  BY <1>4, <1>5, Zenon DEF GlobalInject

LEMMA GlobalRecoverActors ==
  ASSUME GlobalRecover
  PROVE  ActorsOK'
<1>1. graph' = [g \in Graphs |-> NoGraph] /\ reqs' = [w \in Workers |-> <<>>]
      BY DEF GlobalRecover
<1>2. \A w \in Workers, g \in Graphs : ~Needed(w, g)'
      BY <1>1 DEF Needed, Kind, NoGraph
<1>3. \A w \in Workers, g \in Graphs : Pend(reqs'[w], g) = {}
      BY <1>1, EmptyGood
<1> QED  BY <1>2, <1>3 DEF ActorsOK, ActorsAt

\* A worker that was not connected has no graph that needs it.
LEMMA ReconnectActors ==
  ASSUME RInv, ActorsOK, NEW w \in Workers, Reconnect(w)
  PROVE  ActorsOK'
<1>0. PICK q : q = SetToSeq({CreateGraph(g, graph[g].term) :
                         g \in {h \in Graphs : graph[h].st \in {"running", "initializing"}}})
      OBVIOUS
<1>1. /\ ~conn[w] /\ conn' = [conn EXCEPT ![w] = TRUE]
      /\ cn' = [cn EXCEPT ![w] = [g \in Graphs |-> NoState]]
      /\ reqs' = [reqs EXCEPT ![w] = q]
      BY <1>0 DEF Reconnect
<1>2. job' = job /\ graph' = graph /\ nodes' = nodes
      BY DEF Reconnect, metaVars
<1>3. \A g \in Graphs :
        Pend(q, g) = IF graph[g].st \in {"running", "initializing"}
                     THEN {CreateGraph(g, graph[g].term)} ELSE {}
      BY <1>0, ToldGood
<1>4. \A v, g : Needed(v, g)' => Needed(v, g)
      BY <1>2 DEF Needed, JobKind
<1>5. ASSUME NEW v \in Workers, NEW g \in Graphs PROVE ActorsAt(v, g)'
  <2>1. ActorsAt(v, g)
        BY DEF ActorsOK
  <2>2. CASE v = w
    <3>1. ~Needed(v, g)'
          BY <1>1, <1>4, <2>1, <2>2 DEF ActorsAt
    <3>2. reqs'[v] = q
          BY <1>1, <2>2 DEF RInv, TypeInv
    <3>3. \A m \in Pend(reqs'[v], g) : ~Plain(m)
          BY <1>3, <3>2 DEF Plain, CreateGraph
    <3> QED  BY <3>1, <3>3 DEF ActorsAt
  <2>3. CASE v # w
    <3>1. conn'[v] = conn[v] /\ cn'[v] = cn[v] /\ reqs'[v] = reqs[v]
          BY <1>1, <2>3 DEF RInv, TypeInv
    <3> QED  BY <1>4, <2>1, <3>1 DEF ActorsAt
  <2> QED  BY <2>2, <2>3
<1> QED  BY <1>5 DEF ActorsOK

\* No graph is needed that was not.
LEMMA NoMoreActors ==
  ASSUME RInv, ActorsOK, cn' = cn, conn' = conn, nodes' = nodes, Grows(reqs, reqs'),
         \A g \in Graphs :
           Kind(graph'[g].st) = "live" =>
             Kind(graph[g].st) = "live" /\ (JobKind(g) = "finishing" => JobKind(g)' = "finishing")
  PROVE  ActorsOK'
<1>1. \A w \in Workers, g \in Graphs : Needed(w, g)' => Needed(w, g)
      BY DEF Needed
<1> QED  BY <1>1, MetaActors

\* Graph g is started on the workers N, which are connected.
LEMMA StartedActors ==
  ASSUME RInv, ActorsOK, cn' = cn, conn' = conn, NEW g \in Graphs, NEW t \in Nat, NEW N,
         N \in SUBSET Workers, N \subseteq Connected, NEW early,
         reqs' = Started(reqs, Connected, g, t, N, early),
         nodes' = [nodes EXCEPT ![g] = N],
         \A h \in Graphs : h # g => graph'[h] = graph[h],
         \A h \in Graphs : h # g => JobKind(h)' = JobKind(h)
  PROVE  ActorsOK'
<1>1. /\ Grows(reqs, reqs')
      /\ \A w \in Workers : w \in N => Builds(Pend(reqs'[w], g))
      BY SeqsNow, GrowsStarted
<1>2. nodes'[g] = N /\ \A h \in Graphs : h # g => nodes'[h] = nodes[h]
      BY DEF RInv, TypeInv
<1>3. ASSUME NEW w \in Workers, NEW h \in Graphs, Needed(w, h)'
      PROVE  Needed(w, h) \/ (conn[w] /\ Builds(Pend(reqs'[w], h)))
  <2>1. CASE h = g
        BY <1>1, <1>2, <1>3, <2>1 DEF Needed, Connected
  <2>2. CASE h # g
        BY <1>2, <1>3, <2>2 DEF Needed
  <2> QED  BY <2>1, <2>2
<1> QED  BY <1>1, <1>3, MetaActors

LEMMA CreateDatabaseActors ==
  ASSUME RInv, ActorsOK, NEW d \in Databases, CreateDatabase(d)
  PROVE  ActorsOK'
<1>1. PICK g, t : g = Main(d) /\ t = lastTerm + 1
      OBVIOUS
<1>2. g \in Graphs /\ t \in Nat
      BY <1>1, DatabaseFacts DEF RInv, TypeInv
<1>3. PICK M \in SUBSET Workers :
        /\ M \subseteq Connected
        /\ graph' = [graph EXCEPT ![g] = [st |-> "running", term |-> t, epoch |-> 1, left |-> M]]
        /\ reqs' = Started(reqs, Connected, g, t, M, FALSE)
        /\ nodes' = [nodes EXCEPT ![g] = M]
      BY <1>1 DEF CreateDatabase, AddGraph, Started
<1>4. conn' = conn /\ cn' = cn /\ job' = job
      BY DEF CreateDatabase, cnVars
<1>5. \A h \in Graphs : h # g => graph'[h] = graph[h] /\ JobKind(h)' = JobKind(h)
      BY <1>3, <1>4 DEF RInv, TypeInv, JobKind
<1> QED  BY <1>2, <1>3, <1>4, <1>5, StartedActors

LEMMA CreateJobActors ==
  ASSUME RInv, ActorsOK, NEW d \in Databases, CreateJob(d)
  PROVE  ActorsOK'
<1>1. PICK g, t : g = JobOf(d) /\ t = graph[Main(d)].term
      OBVIOUS
<1>2. g \in Graphs /\ t \in Nat
      BY <1>1, DatabaseFacts DEF CreateJob, RInv, TypeInv, GraphState
<1>3. PICK M \in SUBSET Workers :
        /\ M \subseteq Connected
        /\ graph' = [graph EXCEPT ![g] = [st |-> "running", term |-> t, epoch |-> 1, left |-> M]]
        /\ reqs' = Started(reqs, Connected, g, t, M, FALSE)
        /\ nodes' = [nodes EXCEPT ![g] = M]
      BY <1>1 DEF CreateJob, AddGraph, Started
<1>4. /\ conn' = conn /\ cn' = cn
      /\ \A e \in Databases : e # d => job'[e] = job[e]
      BY DEF CreateJob, cnVars, RInv, TypeInv
<1>5. ASSUME NEW h \in Graphs, h # g PROVE graph'[h] = graph[h] /\ JobKind(h)' = JobKind(h)
  <2>1. graph'[h] = graph[h]
        BY <1>3, <1>5 DEF RInv, TypeInv
  <2>2. CASE h = JobOf(h[1])
        BY <1>1, <1>4, <1>5, <2>1, <2>2, GraphFacts DEF JobKind
  <2>3. CASE h # JobOf(h[1])
        BY <2>1, <2>3 DEF JobKind
  <2> QED  BY <2>2, <2>3
<1> QED  BY <1>2, <1>3, <1>4, <1>5, StartedActors

\* One more reset.
LEMMA ResetGrown ==
  ASSUME NEW r, NEW x, Grows(r, x.reqs), NEW g \in Graphs, NEW y,
         y = ResetPartialGraphs(x.graph, x.reqs, Connected, {g})
  PROVE  Grows(x.reqs, y.reqs)
<1>1. PICK q, f : q = x.reqs /\ f = x.graph
      OBVIOUS
<1>2. \A w \in Workers : q[w] \in Seq(Messages)
      BY <1>1 DEF Grows
<1>3. Grows(q, ResetPartialGraphs(f, q, Connected, {g}).reqs)
      BY <1>2, GrowsReset
<1> QED  BY <1>1, <1>3

\* A graph that cannot be started is reset.
LEMMA CreateDatabaseFailsActors ==
  ASSUME RInv, ActorsOK, NEW d \in Databases, CreateDatabaseFails(d)
  PROVE  ActorsOK'
<1>1. PICK g, t : g = Main(d) /\ t = lastTerm + 1
      OBVIOUS
<1>2. g \in Graphs /\ t \in Nat
      BY <1>1, DatabaseFacts DEF RInv, TypeInv
<1>3. PICK N, early, s, q :
        /\ N \in SUBSET Workers /\ early \in BOOLEAN
        /\ s = AddGraph(g, t, N, early)
        /\ q = ResetPartialGraphs(s.graph, s.reqs, Connected, {g})
        /\ graph' = q.graph /\ reqs' = q.reqs
      BY <1>1, Zenon DEF CreateDatabaseFails
<1>4. /\ s.graph = [graph EXCEPT ![g] = [st |-> "running", term |-> t, epoch |-> 1, left |-> N]]
      /\ s.reqs = Started(reqs, Connected, g, t, N, early)
      BY <1>3 DEF AddGraph, Started
<1>5. Grows(reqs, s.reqs)
  <2>1. Grows(reqs, Started(reqs, Connected, g, t, N, early))
        BY <1>2, SeqsNow, GrowsStarted
  <2> QED  BY <1>4, <2>1
<1>6. Grows(s.reqs, reqs')
      BY <1>2, <1>3, <1>5, ResetGrown
<1>7. Grows(reqs, reqs')
      BY <1>5, <1>6, GrowsOn
<1>8. conn' = conn /\ cn' = cn /\ nodes' = nodes /\ job' = job
      BY DEF CreateDatabaseFails, cnVars
<1>9. ASSUME NEW h \in Graphs
      PROVE  /\ Kind(graph'[h].st) = "live" => Kind(graph[h].st) = "live"
             /\ JobKind(h)' = JobKind(h)
  <2>1. h # g => s.graph[h] = graph[h]
        BY <1>4 DEF RInv, TypeInv
  <2>2. graph'[h] = IF h = g THEN [st |-> "resetting", term |-> 0, epoch |-> 0, left |-> Connected]
                    ELSE s.graph[h]
        BY <1>3 DEF ResetPartialGraphs, RemainingWorkers
  <2> QED  BY <1>8, <2>1, <2>2 DEF Kind, JobKind
<1> QED  BY <1>7, <1>8, <1>9, NoMoreActors

LEMMA CreateJobFailsActors ==
  ASSUME RInv, ActorsOK, NEW d \in Databases, CreateJobFails(d)
  PROVE  ActorsOK'
<1>1. PICK g, k, t : g = JobOf(d) /\ k = Main(d) /\ t = graph[k].term
      OBVIOUS
<1>2. g \in Graphs /\ k \in Graphs /\ t \in Nat
      BY <1>1, DatabaseFacts DEF CreateJobFails, RInv, TypeInv, GraphState
<1>3. PICK N, early, s :
        /\ N \in SUBSET Workers /\ early \in BOOLEAN
        /\ s = AddGraph(g, t, N, early)
        /\ LET a == ResetPartialGraphs(s.graph, s.reqs, Connected, {g})
               b == ResetPartialGraphs(a.graph, a.reqs, Connected, {k})
           IN graph' = b.graph /\ reqs' = b.reqs
      BY <1>1, Zenon DEF CreateJobFails
<1>4. PICK a : a = ResetPartialGraphs(s.graph, s.reqs, Connected, {g})
      OBVIOUS
<1>5. PICK b : b = ResetPartialGraphs(a.graph, a.reqs, Connected, {k})
      OBVIOUS
<1>6. graph' = b.graph /\ reqs' = b.reqs
      BY <1>3, <1>4, <1>5, Zenon
<1>7. /\ s.graph = [graph EXCEPT ![g] = [st |-> "running", term |-> t, epoch |-> 1, left |-> N]]
      /\ s.reqs = Started(reqs, Connected, g, t, N, early)
      BY <1>3 DEF AddGraph, Started
<1>8. Grows(reqs, s.reqs)
  <2>1. Grows(reqs, Started(reqs, Connected, g, t, N, early))
        BY <1>2, SeqsNow, GrowsStarted
  <2> QED  BY <1>7, <2>1
<1>9. Grows(s.reqs, a.reqs)
      BY <1>2, <1>4, <1>8, ResetGrown
<1>10. Grows(a.reqs, reqs')
      BY <1>2, <1>5, <1>6, <1>9, ResetGrown
<1>11. Grows(reqs, reqs')
      BY <1>8, <1>9, <1>10, GrowsOn
<1>12. conn' = conn /\ cn' = cn /\ nodes' = nodes /\ job' = job
      BY DEF CreateJobFails, cnVars
<1>13. ASSUME NEW h \in Graphs
       PROVE  /\ Kind(graph'[h].st) = "live" => Kind(graph[h].st) = "live"
              /\ JobKind(h)' = JobKind(h)
  <2>1. h # g => s.graph[h] = graph[h]
        BY <1>7 DEF RInv, TypeInv
  <2>2. a.graph[h] = IF h = g THEN [st |-> "resetting", term |-> 0, epoch |-> 0, left |-> Connected]
                     ELSE s.graph[h]
        BY <1>4 DEF ResetPartialGraphs, RemainingWorkers
  <2>3. graph'[h] = IF h = k THEN [st |-> "resetting", term |-> 0, epoch |-> 0, left |-> Connected]
                    ELSE a.graph[h]
        BY <1>5, <1>6 DEF ResetPartialGraphs, RemainingWorkers
  <2> QED  BY <1>12, <2>1, <2>2, <2>3 DEF Kind, JobKind
<1> QED  BY <1>11, <1>12, <1>13, NoMoreActors

LEMMA DropJobActors ==
  ASSUME RInv, ActorsOK, NEW d \in Databases, DropJob(d)
  PROVE  ActorsOK'
<1>1. PICK g : g = JobOf(d)
      OBVIOUS
<1>2. g \in Graphs /\ job[d] = "running"
      BY <1>1, DatabaseFacts DEF DropJob, RInv, MetasOK, MetaOK
<1>3. PICK r : r = ResetPartialGraphs(graph, reqs, Connected, {g})
      OBVIOUS
<1>4. graph' = r.graph /\ reqs' = r.reqs
      BY <1>1, <1>3, Zenon DEF DropJob
<1>5. Grows(reqs, reqs')
      BY <1>2, <1>3, <1>4, SeqsNow, GrowsReset
<1>6. /\ conn' = conn /\ cn' = cn /\ nodes' = nodes
      /\ \A e \in Databases : e # d => job'[e] = job[e]
      BY DEF DropJob, cnVars, RInv, TypeInv
<1>7. ASSUME NEW h \in Graphs, Kind(graph'[h].st) = "live"
      PROVE  Kind(graph[h].st) = "live" /\ JobKind(h)' = JobKind(h)
  <2>1. graph'[h] = IF h = g THEN [st |-> "resetting", term |-> 0, epoch |-> 0, left |-> Connected]
                    ELSE graph[h]
        BY <1>3, <1>4 DEF ResetPartialGraphs, RemainingWorkers
  <2>2. h # g
        BY <1>7, <2>1 DEF Kind
  <2>3. JobKind(h)' = JobKind(h)
        BY <1>1, <1>6, <2>2, GraphFacts DEF JobKind
  <2> QED  BY <1>7, <2>1, <2>2, <2>3
<1> QED  BY <1>5, <1>6, <1>7, NoMoreActors

LEMMA FinishJobActors ==
  ASSUME RInv, ActorsOK, NEW d \in Databases, FinishJob(d)
  PROVE  ActorsOK'
<1>1. PICK g, m : g = JobOf(d) /\ m = RemoveGraph(g)
      OBVIOUS
<1>2. g \in Graphs
      BY <1>1, DatabaseFacts DEF FinishJob, RInv, MetasOK, MetaOK
<1>3. graph' = [graph EXCEPT ![g] = NoGraph] /\ reqs' = Post(reqs, Connected, m)
      BY <1>1 DEF FinishJob
<1>4. m \in Messages /\ ~Plain(m)
      BY <1>1, <1>2 DEF RemoveGraph, Messages, Plain
<1>5. Grows(reqs, reqs')
      BY <1>3, <1>4, SeqsNow, GrowsPost
<1>6. /\ conn' = conn /\ cn' = cn /\ nodes' = nodes
      /\ \A e \in Databases : e # d => job'[e] = job[e]
      BY DEF FinishJob, cnVars, RInv, TypeInv
<1>7. ASSUME NEW h \in Graphs, Kind(graph'[h].st) = "live"
      PROVE  Kind(graph[h].st) = "live" /\ JobKind(h)' = JobKind(h)
  <2>1. graph'[h] = IF h = g THEN NoGraph ELSE graph[h]
        BY <1>3 DEF RInv, TypeInv
  <2>2. h # g
        BY <1>7, <2>1 DEF Kind, NoGraph
  <2>3. JobKind(h)' = JobKind(h)
        BY <1>1, <1>6, <2>2, GraphFacts DEF JobKind
  <2> QED  BY <1>7, <2>1, <2>2, <2>3
<1> QED  BY <1>5, <1>6, <1>7, NoMoreActors

\* One queue after another.
LEMMA PendConcat ==
  ASSUME NEW q \in Seq(Messages), NEW r \in Seq(Messages)
  PROVE  \A g : Pend(q \o r, g) = Pend(q, g) \cup Pend(r, g)
<1> DEFINE p == q \o r
<1>1. /\ p \in Seq(Messages) /\ Len(q) \in Nat /\ Len(r) \in Nat /\ Len(p) = Len(q) + Len(r)
      /\ \A i \in 1 .. Len(q) : p[i] = q[i]
      /\ \A i \in 1 .. Len(r) : p[Len(q) + i] = r[i]
      OBVIOUS
<1> HIDE DEF p
<1>2. ASSUME NEW x
      PROVE  (\E i \in 1 .. Len(p) : p[i] = x) <=>
               (\E i \in 1 .. Len(q) : q[i] = x) \/ (\E i \in 1 .. Len(r) : r[i] = x)
  <2>1. ASSUME NEW i \in 1 .. Len(p), p[i] = x
        PROVE  (\E k \in 1 .. Len(q) : q[k] = x) \/ (\E k \in 1 .. Len(r) : r[k] = x)
    <3>1. CASE i \in 1 .. Len(q)
          BY <1>1, <2>1, <3>1
    <3>2. CASE i \notin 1 .. Len(q)
      <4>1. i - Len(q) \in 1 .. Len(r) /\ i = Len(q) + (i - Len(q))
            BY <1>1, <3>2
      <4>2. p[i] = r[i - Len(q)]
            BY <1>1, <4>1
      <4> QED  BY <2>1, <4>1, <4>2
    <3> QED  BY <3>1, <3>2
  <2>2. ASSUME NEW i \in 1 .. Len(q), q[i] = x PROVE \E k \in 1 .. Len(p) : p[k] = x
        BY <1>1, <2>2
  <2>3. ASSUME NEW i \in 1 .. Len(r), r[i] = x PROVE \E k \in 1 .. Len(p) : p[k] = x
    <3>1. Len(q) + i \in 1 .. Len(p)
          BY <1>1
    <3> QED  BY <1>1, <2>3, <3>1
  <2> QED  BY <2>1, <2>2, <2>3
<1>3. \A g : Pend(p, g) = Pend(q, g) \cup Pend(r, g)
      BY <1>2 DEF Pend
<1> QED  BY <1>3 DEF p

\* The queues rq and the workers C with which databases are reset: barriers go
\* to actors that exist, and a worker that is not in C has no graph that goes on.
ActorsReady(F, rq, C) ==
  \A w \in Workers :
    /\ rq[w] \in Seq(Messages)
    /\ w \in C => /\ conn'[w] /\ cn'[w] = cn[w]
                  /\ \A g \in Graphs : /\ Pend(reqs[w], g) \subseteq Pend(rq[w], g)
                                       /\ \A m \in Pend(rq[w], g) : Plain(m) => cn[w][g].actors
    /\ w \notin C => /\ rq[w] = <<>>
                     /\ \A g \in Graphs : g \notin ToReset(F) => ~Needed(w, g)

LEMMA EnterResetActors ==
  ASSUME RInv, RInv', ActorsOK, NEW F0, F0 \subseteq Databases, NEW F, F = Failing(F0),
         NEW gr, \A g \in Graphs : gr[g].st = graph[g].st,
         NEW rq, NEW C, ActorsReady(F, rq, C), nodes' = nodes, EnterReset(F0, gr, rq, C)
  PROVE  ActorsOK'
<1>1. PICK R, q : R = ToReset(F) /\ q = ResetList(F)
      OBVIOUS
<1>2. /\ \A g \in Graphs : graph'[g] =
             IF g \in R THEN [st |-> "resetting", term |-> 0, epoch |-> 0, left |-> C] ELSE gr[g]
      /\ \A w \in Workers : reqs'[w] = IF w \in C THEN rq[w] \o q ELSE rq[w]
      /\ \A d \in Databases : /\ stage'[d] = IF d \in F THEN "resetting" ELSE stage[d]
                              /\ job'[d] = IF d \in F THEN JobLost(d) ELSE job[d]
      BY <1>1 DEF EnterReset, Failing, ToReset, ResetList, RemainingWorkers
<1>3. /\ F \subseteq Databases
      /\ \A d \in F : stage[d] \in {"running", "initializing"}
      BY DEF Failing
<1>4. \A d \in F : NewResets(d) \subseteq GraphsOf(d) /\ Main(d) \in NewResets(d)
      BY <1>3, FailFacts
<1>5. /\ Good(q)
      /\ \A g : g \notin R => Pend(q, g) = {}
      /\ \A g \in R : \E m \in Messages : m.type = "reset" /\ Pend(q, g) = {m}
      BY <1>1, <1>3, <1>4, ResetListGood
<1>6. q \in Seq(Messages) /\ \A g : \A m \in Pend(q, g) : ~Plain(m)
      BY <1>5 DEF Good, Plain
<1>7. ASSUME NEW w \in Workers, NEW g \in Graphs, Needed(w, g)'
      PROVE  Needed(w, g) /\ g \notin R
  <2>1. g \notin R /\ graph'[g] = gr[g]
        BY <1>2, <1>7 DEF Needed, Kind
  <2>2. Kind(graph[g].st) = "live" /\ Kind(graph'[g].st) = "live" /\ w \in nodes[g]
        BY <1>7, <2>1 DEF Needed
  <2>3. g[1] \in Databases /\ g \in GraphsOf(g[1])
        BY GraphFacts
  <2>4. g[1] \notin F
    <3>1. ASSUME g[1] \in F PROVE FALSE
      <4>1. stage'[g[1]] = "resetting" /\ MetaOK(g[1])'
            BY <1>2, <2>3, <3>1 DEF RInv, MetasOK
      <4>2. graph'[g].st \in {"none", "resetting"}
            BY <2>3, <4>1 DEF MetaOK, GraphsOf
      <4> QED  BY <2>2, <4>2 DEF Kind
    <3> QED  BY <3>1
  <2>5. JobKind(g)' = JobKind(g)
        BY <1>2, <2>3, <2>4 DEF JobKind
  <2> QED  BY <1>7, <2>1, <2>2, <2>5 DEF Needed
<1>8. ASSUME NEW w \in Workers, NEW g \in Graphs PROVE ActorsAt(w, g)'
  <2>1. ActorsAt(w, g)
        BY DEF ActorsOK
  <2>2. CASE w \in C
    <3>1. PICK r : r = rq[w]
          OBVIOUS
    <3>2. /\ r \in Seq(Messages) /\ conn'[w] /\ cn'[w] = cn[w]
          /\ Pend(reqs[w], g) \subseteq Pend(r, g)
          /\ \A m \in Pend(r, g) : Plain(m) => cn[w][g].actors
          BY <2>2, <3>1 DEF ActorsReady
    <3>3. Pend(reqs'[w], g) = Pend(r, g) \cup Pend(q, g)
      <4>1. reqs'[w] = r \o q
            BY <1>2, <2>2, <3>1
      <4>2. \A h : Pend(r \o q, h) = Pend(r, h) \cup Pend(q, h)
            BY <1>6, <3>2, PendConcat
      <4> QED  BY <4>1, <4>2
    <3>4. Builds(Pend(reqs[w], g)) => Builds(Pend(reqs'[w], g))
          BY <3>2, <3>3 DEF Builds
    <3>5. \A m \in Pend(reqs'[w], g) : Plain(m) => cn'[w][g].actors
          BY <1>6, <3>2, <3>3
    <3>6. Needed(w, g)' => conn'[w] /\ (cn'[w][g].actors \/ Builds(Pend(reqs'[w], g)))
          BY <1>7, <2>1, <3>2, <3>4 DEF ActorsAt
    <3> QED  BY <3>5, <3>6 DEF ActorsAt
  <2>3. CASE w \notin C
    <3>1. reqs'[w] = <<>> /\ (g \notin R => ~Needed(w, g))
          BY <1>1, <1>2, <2>3 DEF ActorsReady
    <3>2. Pend(reqs'[w], g) = {} /\ ~Needed(w, g)'
          BY <1>7, <3>1, EmptyGood
    <3> QED  BY <3>2 DEF ActorsAt
  <2> QED  BY <2>2, <2>3
<1> QED  BY <1>8 DEF ActorsOK

\* The barrier goes to actors that exist: what builds them was collected.
LEMMA NextBarrierActors ==
  ASSUME RInv, RInv', ActorsOK, NEW g \in Graphs, NEW kind \in {"plain", "stop"}, NEW jobNext,
         Injectable(g, kind, jobNext), NextBarrier(g, kind, jobNext)
  PROVE  ActorsOK'
<1>1. PICK d : d = g[1]
      OBVIOUS
<1>2. d \in Databases /\ g \in GraphsOf(d) /\ Main(d) # JobOf(d)
      BY <1>1, GraphFacts, DatabaseFacts
<1>3. MetaOK(d) /\ stage[d] = "running" /\ phase = "running" /\ graph[g].left = {}
      BY <1>1, <1>2 DEF RInv, MetasOK, NextBarrier
<1>4. graph[g].st = "running"
  <2>1. CASE g = Main(d)
        BY <1>3, <2>1 DEF MetaOK
  <2>2. CASE g = JobOf(d) /\ job[d] = "running"
        BY <1>3, <2>2 DEF MetaOK
  <2> QED  BY <1>1, <2>1, <2>2 DEF Injectable
<1>5. JobKind(g) # "finishing"
      BY <1>1, <1>2 DEF JobKind, Injectable
<1>6. PICK e, m : e = graph[g].epoch + 1 /\ m = Inject(g, graph[g].term, e, kind)
      OBVIOUS
<1>7. m \in Messages /\ About(m) = {g}
  <2>1. graph[g] \in GraphState
        BY DEF RInv, TypeInv
  <2>2. e \in Nat /\ graph[g].term \in Nat
        BY <1>6, <2>1 DEF GraphState
  <2> QED  BY <1>6, <2>2 DEF Inject, Messages, About
<1>8. PICK r : r = Post(reqs, nodes[g] \cap Connected, m)
      OBVIOUS
<1>9. InjectTo(reqs, Connected, g, graph[g].term, e, kind, nodes[g], FALSE) = r
      BY <1>6, <1>8 DEF InjectTo
<1>10. ASSUME NEW w \in Workers, w \in nodes[g] PROVE conn[w] /\ cn[w][g].actors
  <2>1. Needed(w, g) /\ ActorsAt(w, g)
        BY <1>4, <1>5, <1>10 DEF Needed, Kind, ActorsOK
  <2>2. conn[w] /\ (cn[w][g].actors \/ Builds(Pend(reqs[w], g)))
        BY <2>1 DEF ActorsAt
  <2>3. CellOK(w, graph[g], nodes[g], JobKind(g), cn[w][g], Pend(reqs[w], g), Pend(resps[w], g))
        BY <2>2 DEF RInv, StreamsOK, Cell, CellWith
  <2>4. ~Builds(Pend(reqs[w], g))
        BY <1>3, <1>4, <2>3 DEF CellOK, Kind, Builds
  <2> QED  BY <2>2, <2>4
<1>11. nodes[g] \subseteq Connected
      BY <1>10 DEF Connected, RInv, TypeInv
<1>12. /\ graph' = [graph EXCEPT ![g].epoch = e, ![g].left = nodes[g]]
       /\ reqs' = r /\ job' = [job EXCEPT ![d] = jobNext]
       /\ nodes' = nodes /\ conn' = conn /\ cn' = cn
      BY <1>1, <1>6, <1>9, <1>11 DEF NextBarrier, cnVars
<1>13. \A h \in Graphs : graph'[h].st = graph[h].st
  <2>1. \A h \in Graphs : h # g => graph'[h] = graph[h]
        BY <1>12 DEF RInv, TypeInv
  <2>2. PICK s : s = graph[g]
        OBVIOUS
  <2>3. graph'[g] = [s EXCEPT !.epoch = e, !.left = nodes[g]] /\ s \in GraphState
        BY <1>12, <2>2 DEF RInv, TypeInv
  <2>4. graph'[g].st = s.st
        BY <2>3 DEF GraphState
  <2> QED  BY <2>1, <2>2, <2>4
<1>14. ASSUME NEW w \in Workers, NEW h \in Graphs, Needed(w, h)' PROVE Needed(w, h)
  <2>1. Kind(graph[h].st) = "live" /\ w \in nodes[h] /\ JobKind(h)' # "finishing"
        BY <1>12, <1>13, <1>14 DEF Needed
  <2>2. JobKind(h) # "finishing"
    <3>1. CASE h = g
          BY <1>5, <3>1
    <3>2. CASE h # g
      <4>1. h = JobOf(h[1]) => h[1] # d \/ jobNext = job[d]
            BY <1>1, <1>2, <3>2 DEF Injectable
      <4>2. h = JobOf(h[1]) => job'[h[1]] = job[h[1]]
            BY <1>2, <1>12, <4>1, GraphFacts DEF RInv, TypeInv
      <4> QED  BY <2>1, <4>2 DEF JobKind
    <3> QED  BY <3>1, <3>2
  <2> QED  BY <2>1, <2>2 DEF Needed
<1>15. ASSUME NEW w \in Workers, NEW h \in Graphs
       PROVE  Pend(reqs'[w], h) = IF w \in nodes[g] /\ h = g THEN Pend(reqs[w], h) \cup {m}
                                  ELSE Pend(reqs[w], h)
  <2>1. PICK q \in Seq(Messages) : q = reqs[w]
        BY SeqsNow
  <2>2. reqs'[w] = IF w \in nodes[g] THEN Append(q, m) ELSE q
        BY <1>8, <1>11, <1>12, <2>1 DEF Post
  <2>3. \A x : Pend(Append(q, m), x) = IF x \in About(m) THEN Pend(q, x) \cup {m} ELSE Pend(q, x)
        BY <1>7, PendAppend
  <2> QED  BY <1>7, <2>1, <2>2, <2>3
<1>16. ASSUME NEW w \in Workers, NEW h \in Graphs PROVE ActorsAt(w, h)'
  <2>1. ActorsAt(w, h)
        BY DEF ActorsOK
  <2>2. Builds(Pend(reqs[w], h)) => Builds(Pend(reqs'[w], h))
        BY <1>15 DEF Builds
  <2>3. Needed(w, h)' => conn'[w] /\ (cn'[w][h].actors \/ Builds(Pend(reqs'[w], h)))
        BY <1>12, <1>14, <2>1, <2>2 DEF ActorsAt
  <2>4. \A x \in Pend(reqs'[w], h) : Plain(x) => cn'[w][h].actors
        BY <1>10, <1>12, <1>15, <2>1 DEF ActorsAt
  <2> QED  BY <2>3, <2>4 DEF ActorsAt
<1> QED  BY <1>16 DEF ActorsOK

LEMMA InjectBarrierActors ==
  ASSUME RInv, RInv', ActorsOK, NEW g \in Graphs, InjectBarrier(g)
  PROVE  ActorsOK'
<1>1. PICK j : j = job[g[1]]
      OBVIOUS
<1>2. NextBarrier(g, "plain", j) /\ Injectable(g, "plain", j)
      BY <1>1, GraphFacts DEF InjectBarrier, Injectable
<1> QED  BY <1>2, NextBarrierActors

LEMMA StopJobActors ==
  ASSUME RInv, RInv', ActorsOK, NEW d \in Databases, StopJob(d)
  PROVE  ActorsOK'
<1>1. PICK g : g = JobOf(d)
      OBVIOUS
<1>2. MetaOK(d) /\ job[d] = "running"
      BY DEF RInv, MetasOK, StopJob
<1>3. g \in Graphs /\ g[1] = d
      BY <1>1, <1>2, DatabaseFacts DEF MetaOK
<1>4. NextBarrier(g, "stop", "finishing") /\ Injectable(g, "stop", "finishing")
      BY <1>1, <1>2, <1>3 DEF StopJob, Injectable
<1> QED  BY <1>3, <1>4, NextBarrierActors

\* A graph that was reset is gone; the job that it may be of was being dropped.
LEMMA ResetEndedActors ==
  ASSUME RInv, ActorsOK, NEW g \in Graphs, graph[g].st = "resetting",
         graph' = [graph EXCEPT ![g] = NoGraph], OnPartialGraphReset(g),
         cn' = cn, conn' = conn, nodes' = nodes, reqs' = reqs
  PROVE  ActorsOK'
<1>1. PICK d : d = g[1]
      OBVIOUS
<1>2. /\ d \in Databases
      /\ \/ stage[d] = "resetting"
         \/ stage[d] = "running" /\ g = JobOf(d)
      BY <1>1, ResettingFacts
<1>3. Grows(reqs, reqs')
      BY SeqsNow, GrowsSame
<1>4. ASSUME NEW h \in Graphs, Kind(graph'[h].st) = "live"
      PROVE  Kind(graph[h].st) = "live" /\ JobKind(h)' = JobKind(h)
  <2>1. graph'[h] = IF h = g THEN NoGraph ELSE graph[h]
        BY DEF RInv, TypeInv
  <2>2. h # g
        BY <1>4, <2>1 DEF Kind, NoGraph
  <2>3. CASE stage[d] = "resetting"
    <3>1. job' = job
          BY <1>1, <2>3 DEF OnPartialGraphReset
    <3> QED  BY <1>4, <2>1, <2>2, <3>1 DEF JobKind
  <2>4. CASE stage[d] = "running" /\ g = JobOf(d)
    <3>1. job' = [job EXCEPT ![d] = "gone"]
          BY <1>1, <2>4 DEF OnPartialGraphReset
    <3>2. h = JobOf(h[1]) => job'[h[1]] = job[h[1]]
          BY <2>2, <2>4, <3>1, GraphFacts DEF RInv, TypeInv
    <3> QED  BY <1>4, <2>1, <2>2, <3>2 DEF JobKind
  <2> QED  BY <1>2, <2>3, <2>4
<1> QED  BY <1>3, <1>4, NoMoreActors

LEMMA ResetCollectedActors ==
  ASSUME RInv, ActorsOK, NEW g \in Graphs, ResetCollected(g)
  PROVE  ActorsOK'
<1>1. /\ graph[g].st = "resetting" /\ graph' = [graph EXCEPT ![g] = NoGraph]
      /\ OnPartialGraphReset(g) /\ cn' = cn /\ conn' = conn /\ nodes' = nodes /\ reqs' = reqs
      BY DEF ResetCollected, cnVars
<1> QED  BY <1>1, ResetEndedActors

LEMMA MetaRecvActors ==
  ASSUME RInv, RInv', ActorsOK, NEW w \in Workers, MetaRecv(w)
  PROVE  ActorsOK'
<1>1. PICK m, g, s : m = Head(resps[w]) /\ g = m.g /\ s = graph[g]
      OBVIOUS
<1>2. conn[w] /\ resps[w] # <<>> /\ resps' = [resps EXCEPT ![w] = Tail(@)]
      BY DEF MetaRecv
<1>3. AnswerTaken(w, g, m)
      BY <1>1, <1>2, TakeAnswer
<1>4. /\ g \in Graphs /\ s \in GraphState /\ s.st # "none"
      /\ s.st = "resetting" => w \in s.left
      /\ s.st # "resetting" => m.type # "done"
  <2>1. g \in Graphs
        BY <1>3 DEF AnswerTaken
  <2> QED  BY <1>1, <1>2, <1>3, <2>1, AnswerFacts
<1>5. conn' = conn /\ cn' = cn /\ nodes' = nodes
      BY DEF MetaRecv, cnVars
<1>6. m.type \in {"complete", "failure", "done"}
      BY <1>3 DEF AnswerTaken, AnswerTypes
<1>7. Grows(reqs, reqs)
      BY SeqsNow, GrowsSame
<1>8. CASE m.type = "complete"
  <2>1. /\ job' = job /\ reqs' = reqs
        /\ graph' = graph \/ graph' = Collected(g, w)
        BY <1>1, <1>4, <1>8 DEF MetaRecv
  <2>2. CASE graph' = graph
        BY <1>5, <2>1, <2>2, QuietActors
  <2>3. CASE graph' = Collected(g, w)
    <3>1. PICK x : /\ GraphPut(g, x)
                   /\ x.st = IF graph[g].st = "initializing" /\ x.left = {} THEN "running"
                             ELSE graph[g].st
          BY <1>4, <2>3, CollectedPut
    <3>2. \A h \in Graphs : Kind(graph'[h].st) = Kind(graph[h].st) /\ JobKind(h)' = JobKind(h)
          BY <2>1, <3>1 DEF GraphPut, Kind, JobKind
    <3> QED  BY <1>5, <1>7, <2>1, <3>2, NoMoreActors
  <2> QED  BY <2>1, <2>2, <2>3
<1>9. CASE m.type = "failure"
  <2>1. IF s.st = "resetting"
        THEN UNCHANGED <<stage, waits, backoff, job, graph, reqs, panic>>
        ELSE EnterReset({g[1]}, graph, reqs, Connected)
        BY <1>1, <1>4, <1>9 DEF MetaRecv
  <2>2. CASE s.st = "resetting"
        BY <1>5, <2>1, <2>2, QuietActors
  <2>3. CASE s.st # "resetting"
    <3>1. PICK F0, F : F0 = {g[1]} /\ F = Failing(F0)
          OBVIOUS
    <3>2. F0 \subseteq Databases /\ EnterReset(F0, graph, reqs, Connected)
          BY <1>4, <2>1, <2>3, <3>1, GraphFacts
    <3>3. ActorsReady(F, reqs, Connected)
      <4>1. ASSUME NEW v \in Workers
            PROVE  /\ reqs[v] \in Seq(Messages)
                   /\ \A h \in Graphs : \A x \in Pend(reqs[v], h) : Plain(x) => cn[v][h].actors
                   /\ ~conn[v] => reqs[v] = <<>> /\ \A h \in Graphs : ~Needed(v, h)
            BY SeqsNow DEF ActorsOK, ActorsAt, RInv, StreamsOK
      <4>2. \A v \in Workers : v \in Connected <=> conn[v]
            BY DEF Connected
      <4> QED  BY <1>5, <4>1, <4>2 DEF ActorsReady
    <3> QED  BY <1>5, <3>1, <3>2, <3>3, EnterResetActors
  <2> QED  BY <2>2, <2>3
<1>10. CASE m.type = "done"
  <2>1. s.st = "resetting" /\ w \in s.left
        BY <1>4, <1>10
  <2>2. /\ reqs' = reqs
        /\ IF s.left = {w}
           THEN graph' = [graph EXCEPT ![g] = NoGraph] /\ OnPartialGraphReset(g)
           ELSE graph' = [graph EXCEPT ![g].left = @ \ {w}] /\ job' = job
        BY <1>1, <1>10, <2>1, Zenon DEF MetaRecv
  <2>3. CASE s.left = {w}
        BY <1>1, <1>4, <1>5, <2>1, <2>2, <2>3, ResetEndedActors
  <2>4. CASE s.left # {w}
    <3>1. graph' = [graph EXCEPT ![g].left = @ \ {w}] /\ job' = job
          BY <2>2, <2>4
    <3>2. \A h \in Graphs : h # g => graph'[h] = graph[h]
          BY <3>1 DEF RInv, TypeInv
    <3>3. graph'[g] = [s EXCEPT !.left = @ \ {w}]
          BY <1>1, <1>4, <3>1 DEF RInv, TypeInv
    <3>4. graph'[g].st = s.st
          BY <1>4, <3>3 DEF GraphState
    <3>5. \A h \in Graphs : graph'[h].st = graph[h].st /\ JobKind(h)' = JobKind(h)
          BY <1>1, <3>1, <3>2, <3>4 DEF JobKind
    <3> QED  BY <1>5, <1>7, <2>2, <3>5, NoMoreActors
  <2> QED  BY <2>3, <2>4
<1> QED  BY <1>6, <1>8, <1>9, <1>10

\* A worker that fails takes with it every database that needs it.
LEMMA FailsWithWorker ==
  ASSUME RInv, NEW w \in Workers, WorkerError(w), NoCollectedFails,
         NEW g \in Graphs, Needed(w, g)
  PROVE  g \in ToReset(Failing(FailedDatabases(w)))
<1>1. PICK d : d = g[1]
      OBVIOUS
<1>2. /\ d \in Databases /\ g \in GraphsOf(d) /\ MetaOK(d) /\ stage[d] \in Stages
      /\ g = Main(d) \/ (g = JobOf(d) /\ d \in JobDatabases)
      /\ Main(d) # JobOf(d)
      BY <1>1, GraphFacts, DatabaseFacts DEF RInv, MetasOK, TypeInv
<1>3. graph[g].st \in {"running", "initializing"} /\ w \in nodes[g] /\ JobKind(g) # "finishing"
  <2>1. graph[g] \in GraphState
        BY DEF RInv, TypeInv
  <2>2. graph[g].st \in {"none", "running", "resetting", "initializing"}
        BY <2>1 DEF GraphState
  <2> QED  BY <2>2 DEF Needed, Kind
<1>4. stage[d] \in {"running", "initializing"}
      BY <1>2, <1>3 DEF MetaOK, Stages
<1>5. OnWorker(d, w)
  <2>1. CASE g = Main(d)
        BY <1>3, <2>1 DEF OnWorker
  <2>2. CASE g = JobOf(d) /\ d \in JobDatabases
    <3>1. job[d] # "finishing"
          BY <1>1, <1>3, <2>2 DEF JobKind
    <3>2. job[d] = "running"
      <4>1. CASE stage[d] = "initializing"
            BY <1>2, <1>3, <2>2, <4>1 DEF MetaOK
      <4>2. CASE stage[d] = "running"
            BY <1>2, <1>3, <2>2, <3>1, <4>2 DEF MetaOK
      <4> QED  BY <1>4, <4>1, <4>2
    <3> QED  BY <1>3, <2>2, <3>2 DEF OnWorker
  <2> QED  BY <1>2, <2>1, <2>2
<1>6. phase \in {"running", "global"}
      BY DEF WorkerError, Polling
<1>7. phase = "global" => stage[d] # "running"
      BY <1>2, <1>5 DEF NoCollectedFails
<1>8. d \in FailedDatabases(w)
      BY <1>2, <1>4, <1>5, <1>6, <1>7 DEF FailedDatabases
<1>9. d \in Failing(FailedDatabases(w))
      BY <1>4, <1>8 DEF Failing
<1>10. g \in NewResets(d)
      BY <1>2, <1>3, <1>4, FailFacts
<1> QED  BY <1>9, <1>10 DEF ToReset

LEMMA WorkerErrorActors ==
  ASSUME RInv, RInv', ActorsOK, NEW w \in Workers, WorkerError(w), NoCollectedFails
  PROVE  ActorsOK'
<1>1. PICK F0, F : F0 = FailedDatabases(w) /\ F = Failing(F0)
      OBVIOUS
<1>2. PICK gr, rq, C : gr = WorkerGone(w) /\ rq = [reqs EXCEPT ![w] = <<>>] /\ C = Connected \ {w}
      OBVIOUS
<1>3. /\ conn' = [conn EXCEPT ![w] = FALSE] /\ nodes' = nodes
      /\ EnterReset(F0, gr, rq, C)
      /\ cn' = cn \/ cn' = [cn EXCEPT ![w] = [g \in Graphs |-> NoState]]
      BY <1>1, <1>2 DEF WorkerError, cnVars
<1>4. F0 \subseteq Databases
      BY <1>1 DEF FailedDatabases
<1>5. ASSUME NEW g \in Graphs PROVE gr[g].st = graph[g].st
  <2>1. PICK c : c = graph[g]
        OBVIOUS
  <2>2. c \in GraphState
        BY <2>1 DEF RInv, TypeInv
  <2>3. gr[g] = c \/ gr[g] = [c EXCEPT !.left = @ \ {w}]
        BY <1>2, <2>1 DEF WorkerGone
  <2> QED  BY <2>1, <2>2, <2>3 DEF GraphState
<1>6. ASSUME NEW v \in Workers
      PROVE  /\ v # w => rq[v] = reqs[v] /\ conn'[v] = conn[v] /\ cn'[v] = cn[v]
             /\ rq[w] = <<>>
      BY <1>2, <1>3 DEF RInv, TypeInv
<1>7. ActorsReady(F, rq, C)
  <2>1. ASSUME NEW v \in Workers, v \in C
        PROVE  /\ rq[v] \in Seq(Messages) /\ conn'[v] /\ cn'[v] = cn[v]
               /\ \A g \in Graphs : /\ Pend(reqs[v], g) \subseteq Pend(rq[v], g)
                                    /\ \A m \in Pend(rq[v], g) : Plain(m) => cn[v][g].actors
    <3>1. v # w /\ conn[v]
          BY <1>2, <2>1 DEF Connected
    <3>2. /\ rq[v] = reqs[v] /\ conn'[v] = conn[v] /\ cn'[v] = cn[v]
          BY <1>6, <3>1
    <3>3. \A g \in Graphs : \A m \in Pend(reqs[v], g) : Plain(m) => cn[v][g].actors
          BY DEF ActorsOK, ActorsAt
    <3> QED  BY <3>1, <3>2, <3>3, SeqsNow
  <2>2. ASSUME NEW v \in Workers, v \notin C
        PROVE  /\ rq[v] = <<>> /\ rq[v] \in Seq(Messages)
               /\ \A g \in Graphs : g \notin ToReset(F) => ~Needed(v, g)
    <3>1. CASE v = w
      <4>1. \A g \in Graphs : Needed(w, g) => g \in ToReset(F)
            BY <1>1, FailsWithWorker
      <4>2. rq[v] = <<>>
            BY <1>6, <3>1
      <4>3. <<>> \in Seq(Messages)
            OBVIOUS
      <4> QED  BY <3>1, <4>1, <4>2, <4>3
    <3>2. CASE v # w
      <4>1. ~conn[v] /\ rq[v] = reqs[v]
            BY <1>2, <1>6, <2>2, <3>2 DEF Connected
      <4>2. reqs[v] = <<>> /\ \A g \in Graphs : ~Needed(v, g)
            BY <4>1 DEF RInv, StreamsOK, ActorsOK, ActorsAt
      <4> QED  BY <4>1, <4>2
    <3> QED  BY <3>1, <3>2
  <2> QED  BY <2>1, <2>2 DEF ActorsReady
<1> QED  BY <1>1, <1>3, <1>4, <1>5, <1>7, EnterResetActors

(* The compute nodes' steps. *)

\* Compute node w does not lose actors of graph g that are needed.
KeepsActors(w, g) ==
  /\ Pend(reqs'[w], g) \subseteq Pend(reqs[w], g)
  /\ cn[w][g].actors =>
       \/ cn'[w][g].actors
       \/ ~Needed(w, g) /\ \A m \in Pend(reqs'[w], g) : ~Plain(m)
  /\ Builds(Pend(reqs[w], g)) => cn'[w][g].actors \/ Builds(Pend(reqs'[w], g)) \/ ~Needed(w, g)

LEMMA WorkerActors ==
  ASSUME RInv, ActorsOK, NEW w \in Workers, UNCHANGED <<metaVars, conn>>,
         \A v \in Workers : v # w => reqs'[v] = reqs[v] /\ cn'[v] = cn[v],
         reqs[w] = <<>> => reqs'[w] = <<>>,
         conn[w] => \A g \in Graphs : KeepsActors(w, g)
  PROVE  ActorsOK'
<1>1. graph' = graph /\ nodes' = nodes /\ job' = job /\ conn' = conn
      BY DEF metaVars
<1>2. ASSUME NEW v, NEW g PROVE Needed(v, g)' = Needed(v, g)
      BY <1>1 DEF Needed, JobKind
<1>3. ASSUME NEW v \in Workers, NEW g \in Graphs PROVE ActorsAt(v, g)'
  <2>1. ActorsAt(v, g)
        BY DEF ActorsOK
  <2>2. CASE v # w
        BY <1>1, <1>2, <2>1, <2>2 DEF ActorsAt
  <2>3. CASE v = w /\ ~conn[w]
    <3>1. reqs'[v] = <<>> /\ ~Needed(v, g)
          BY <2>1, <2>3 DEF ActorsAt, RInv, StreamsOK
    <3> QED  BY <1>2, <3>1, EmptyGood DEF ActorsAt
  <2>4. CASE v = w /\ conn[w]
    <3>1. KeepsActors(v, g)
          BY <2>4
    <3>2. Needed(v, g) => conn'[v] /\ (cn'[v][g].actors \/ Builds(Pend(reqs'[v], g)))
          BY <1>1, <2>1, <2>4, <3>1 DEF ActorsAt, KeepsActors
    <3>3. \A m \in Pend(reqs'[v], g) : Plain(m) => cn'[v][g].actors
          BY <2>1, <3>1 DEF ActorsAt, KeepsActors
    <3> QED  BY <1>2, <3>2, <3>3 DEF ActorsAt
  <2> QED  BY <2>2, <2>3, <2>4
<1> QED  BY <1>3 DEF ActorsOK

\* The requests stay as they are.
LEMMA SameRequestsActors ==
  ASSUME RInv, ActorsOK, NEW w \in Workers, UNCHANGED <<metaVars, conn>>, reqs' = reqs,
         \A v \in Workers : v # w => cn'[v] = cn[v],
         \A g \in Graphs : conn[w] /\ cn[w][g].actors =>
           \/ cn'[w][g].actors
           \/ ~Needed(w, g) /\ \A m \in Pend(reqs[w], g) : ~Plain(m)
  PROVE  ActorsOK'
<1>1. conn[w] => \A g \in Graphs : KeepsActors(w, g)
      BY DEF KeepsActors
<1> QED  BY <1>1, WorkerActors

LEMMA CnCompleteActors ==
  ASSUME RInv, ActorsOK, NEW w \in Workers, NEW g \in Graphs, CnComplete(w, g)
  PROVE  ActorsOK'
<1>1. PICK c, b, x : c = cn[w][g] /\ b = Head(c.issued) /\ x = ~b.stop
      OBVIOUS
<1>2. /\ c.issued # <<>> /\ UNCHANGED <<metaVars, conn>> /\ reqs' = reqs
      /\ cn' = [cn EXCEPT ![w][g].issued = Tail(@), ![w][g].actors = x]
      BY <1>1, Zenon DEF CnComplete
<1>3. CnOK(c) /\ CnOK(cn[w][g]) /\ TypeInv
      BY <1>1 DEF RInv, CnsOK
<1>4. OnlyCell(w, g) /\ cn'[w][g].actors = x
  <2>1. /\ OnlyCell(w, g)
        /\ DOMAIN cn'[w][g] = DOMAIN cn[w][g]
        /\ cn'[w][g].st = cn[w][g].st /\ cn'[w][g].term = cn[w][g].term
        /\ cn'[w][g].actors = x /\ cn'[w][g].issued = Tail(cn[w][g].issued)
        /\ cn'[w][g].outs = cn[w][g].outs
        BY <1>2, <1>3, CnCompleted, Zenon
  <2> QED  BY <2>1
<1>5. ASSUME conn[w], ~x
      PROVE  ~Needed(w, g) /\ \A m \in Pend(reqs[w], g) : ~Plain(m)
  <2>1. CellOK(w, graph[g], nodes[g], JobKind(g), c, Pend(reqs[w], g), Pend(resps[w], g))
        BY <1>1, <1>5 DEF RInv, StreamsOK, Cell, CellWith
  <2>2. b \in Issue /\ c.issued = <<b>>
        BY <1>1, <1>2, <1>3 DEF CnOK
  <2>3. Kind(graph[g].st) = "live" => (b.stop <=> JobKind(g) = "finishing")
        BY <2>1, <2>2 DEF CellOK
  <2>4. \A m \in Pend(reqs[w], g) : m.type # "inject"
        BY <1>2, <2>1 DEF CellOK
  <2> QED  BY <1>1, <1>5, <2>3, <2>4 DEF Needed, Plain
<1>6. ASSUME NEW h \in Graphs, conn[w], cn[w][h].actors
      PROVE  \/ cn'[w][h].actors
             \/ ~Needed(w, h) /\ \A m \in Pend(reqs[w], h) : ~Plain(m)
  <2>1. CASE h = g
        BY <1>4, <1>5, <1>6, <2>1
  <2>2. CASE h # g
        BY <1>4, <1>6, <2>2 DEF OnlyCell
  <2> QED  BY <2>1, <2>2
<1>7. \A v \in Workers : v # w => cn'[v] = cn[v]
      BY <1>4 DEF OnlyCell
<1> QED  BY <1>2, <1>6, <1>7, SameRequestsActors

LEMMA CnFailActors ==
  ASSUME RInv, ActorsOK, NEW w \in Workers, NEW g \in Graphs, CnFail(w, g)
  PROVE  ActorsOK'
<1>1. /\ cn' = [cn EXCEPT ![w][g].st = "suspended", ![w][g].issued = <<>>]
      /\ UNCHANGED <<metaVars, conn>> /\ reqs' = reqs
      BY DEF CnFail
<1>2. CnOK(cn[w][g]) /\ TypeInv
      BY DEF RInv, CnsOK
<1>3. OnlyCell(w, g) /\ cn'[w][g].actors = cn[w][g].actors
      BY <1>1, <1>2, CnSuspended
<1>4. /\ \A v \in Workers : v # w => cn'[v] = cn[v]
      /\ \A h \in Graphs : cn[w][h].actors => cn'[w][h].actors
      BY <1>3 DEF OnlyCell
<1> QED  BY <1>1, <1>4, SameRequestsActors

LEMMA XDeliverActors ==
  ASSUME RInv, ActorsOK, XDeliver
  PROVE  ActorsOK'
<1>1. PICK x \in xreq :
        /\ cn' = IF XAccepts(cn[x.to][x.g], x.term)
                 THEN [cn EXCEPT ![x.to][x.g].outs = @ \cup {x.term},
                                 ![x.to][x.g].st = IF @ = "none" THEN "received" ELSE @]
                 ELSE cn
        /\ UNCHANGED <<metaVars, conn, reqs>>
      BY Zenon DEF XDeliver
<1>2. PICK w \in Workers, g \in Graphs, t \in Nat : w = x.to /\ g = x.g /\ t = x.term
      BY DEF RInv, TypeInv
<1>3. CnOK(cn[w][g]) /\ TypeInv
      BY DEF RInv, CnsOK
<1>4. CASE cn' = [cn EXCEPT ![w][g].outs = @ \cup {t},
                            ![w][g].st = IF @ = "none" THEN "received" ELSE @]
  <2>1. OnlyCell(w, g) /\ cn'[w][g].actors = cn[w][g].actors
        BY <1>3, <1>4, CnReceived
  <2>2. /\ \A v \in Workers : v # w => cn'[v] = cn[v]
        /\ \A h \in Graphs : cn[w][h].actors => cn'[w][h].actors
        BY <2>1 DEF OnlyCell
  <2> QED  BY <1>1, <2>2, SameRequestsActors
<1>5. CASE cn' = cn
      BY <1>1, <1>5, SameRequestsActors
<1> QED  BY <1>1, <1>2, <1>4, <1>5, Zenon

\* Actors go with a graph that is being reset: nothing is on its way to them.
LEMMA CnResetDoneActors ==
  ASSUME RInv, ActorsOK, NEW w \in Workers, CnResetDone(w)
  PROVE  ActorsOK'
<1>1. PICK B \in batches[w] :
        cn' = [cn EXCEPT ![w] = [g \in Graphs |-> IF g \in B THEN NoState ELSE @[g]]]
      BY DEF CnResetDone
<1>2. reqs' = reqs /\ UNCHANGED <<metaVars, conn>>
      BY DEF CnResetDone
<1>3. /\ \A v \in Workers : v # w => cn'[v] = cn[v]
      /\ \A g \in Graphs : cn'[w][g] = IF g \in B THEN NoState ELSE cn[w][g]
      BY <1>1 DEF RInv, TypeInv
<1>4. ASSUME NEW g \in Graphs, conn[w], cn[w][g].actors
      PROVE  \/ cn'[w][g].actors
             \/ ~Needed(w, g) /\ \A m \in Pend(reqs[w], g) : ~Plain(m)
  <2>1. CASE g \notin B
        BY <1>3, <1>4, <2>1
  <2>2. CASE g \in B
    <3>1. cn[w][g].st = "resetting"
          BY <2>2 DEF RInv, CnsOK, BatchOK
    <3>2. CellOK(w, graph[g], nodes[g], JobKind(g), cn[w][g], Pend(reqs[w], g), Pend(resps[w], g))
          BY <1>4 DEF RInv, StreamsOK, Cell, CellWith
    <3>3. Kind(graph[g].st) = "resetting" /\ Pend(reqs[w], g) = {}
          BY <3>1, <3>2 DEF CellOK
    <3> QED  BY <3>3 DEF Needed
  <2> QED  BY <2>1, <2>2
<1> QED  BY <1>2, <1>3, <1>4, SameRequestsActors

LEMMA CnHandleActors ==
  ASSUME RInv, ActorsOK, NEW w \in Workers, CnHandle(w)
  PROVE  ActorsOK'
<1>1. PICK m : m = Head(reqs[w])
      OBVIOUS
<1>2. /\ conn[w] /\ reqs[w] # <<>> /\ reqs' = [reqs EXCEPT ![w] = Tail(@)]
      /\ UNCHANGED <<metaVars, conn>>
      BY DEF CnHandle
<1>3. Taken(w, m)
      BY <1>1, <1>2, TakeRequest
<1>4. m \in Messages /\ m.type \in {"create", "inject", "remove", "reset"}
      BY <1>3 DEF Taken, RequestTypes
<1>5. /\ \A v \in Workers : v # w => reqs'[v] = reqs[v]
      /\ \A g \in About(m) : /\ m \in Pend(reqs[w], g) /\ Pend(reqs'[w], g) = Pend(reqs[w], g) \ {m}
                             /\ \A x \in Pend(reqs[w], g) : x = m \/ Rank(m) < Rank(x)
      /\ \A g : g \notin About(m) => Pend(reqs'[w], g) = Pend(reqs[w], g)
      BY <1>3 DEF Taken
<1>6. ASSUME NEW g \in Graphs
      PROVE  /\ CellOK(w, graph[g], nodes[g], JobKind(g), cn[w][g], Pend(reqs[w], g), Pend(resps[w], g))
             /\ CnOK(cn[w][g]) /\ ActorsAt(w, g) /\ Pend(reqs[w], g) \subseteq Messages
      BY <1>2, PendIn DEF RInv, StreamsOK, CnsOK, Cell, CellWith, ActorsOK
<1>7. TypeInv
      BY DEF RInv
<1>8. ASSUME NEW g \in Graphs, g \notin About(m), cn'[w][g] = cn[w][g] PROVE KeepsActors(w, g)
      BY <1>5, <1>8 DEF KeepsActors
<1>9. CASE m.type = "create"
  <2>1. PICK g : g = m.g
        OBVIOUS
  <2>2. g \in Graphs /\ About(m) = {g}
        BY <1>4, <1>9, <2>1, AboutOne
  <2>3. PICK c2 : c2 = Created(m.term, cn[w][g].outs \cap {m.term})
        OBVIOUS
  <2>4. cn' = [cn EXCEPT ![w][g] = c2]
        BY <1>1, <1>9, <2>1, <2>3 DEF CnHandle, CnCreate, Created
  <2>5. OnlyCell(w, g) /\ cn'[w][g] = c2
        BY <1>7, <2>2, <2>4, CnPut
  <2>6. ~cn[w][g].actors
        BY <1>5, <1>6, <1>9, <2>2 DEF CellOK, CnOK
  <2>7. KeepsActors(w, g)
    <3>1. Builds(Pend(reqs[w], g)) => Builds(Pend(reqs'[w], g))
          BY <1>5, <1>9, <2>2 DEF Builds
    <3> QED  BY <1>5, <2>2, <2>6, <3>1 DEF KeepsActors
  <2>8. /\ \A v \in Workers : v # w => cn'[v] = cn[v]
        /\ \A h \in Graphs : h # g => cn'[w][h] = cn[w][h]
        BY <2>5 DEF OnlyCell
  <2>9. \A h \in Graphs : KeepsActors(w, h)
        BY <1>8, <2>2, <2>7, <2>8
  <2> QED  BY <1>2, <1>5, <2>8, <2>9, WorkerActors
<1>10. CASE m.type = "inject"
  <2>1. PICK g : g = m.g
        OBVIOUS
  <2>2. g \in Graphs /\ About(m) = {g}
        BY <1>4, <1>10, <2>1, AboutOne
  <2>3. CnInject(w, m)
        BY <1>1, <1>10 DEF CnHandle
  <2>4. ~Has(Pend(reqs[w], g), "create")
        BY <1>5, <1>6, <1>10, <2>2, HeadFirst
  <2>5. cn[w][g].st \in {"running", "suspended"}
        BY <1>5, <1>6, <1>10, <2>2, <2>4 DEF CellOK
  <2>6. PICK b : b = [epoch |-> m.epoch, stop |-> m.kind = "stop"]
        OBVIOUS
  <2>7. /\ cn'[w][g].actors
        /\ \A v \in Workers : v # w => cn'[v] = cn[v]
        /\ \A h \in Graphs : h # g => cn'[w][h] = cn[w][h]
    <3>1. CASE cn[w][g].st = "running"
      <4>1. cn' = [cn EXCEPT ![w][g].actors = TRUE, ![w][g].issued = Append(@, b)]
            BY <2>1, <2>3, <2>6, <3>1, Zenon DEF CnInject
      <4>2. OnlyCell(w, g) /\ cn'[w][g].actors = TRUE
            BY <1>6, <1>7, <2>2, <4>1, CnInjected
      <4> QED  BY <4>2 DEF OnlyCell
    <3>2. CASE cn[w][g].st # "running"
      <4>1. cn' = cn
            BY <2>1, <2>3, <3>2, Zenon DEF CnInject
      <4>2. cn[w][g].actors
            BY <1>6, <2>2, <2>5, <3>2 DEF CnOK
      <4> QED  BY <4>1, <4>2
    <3> QED  BY <3>1, <3>2
  <2>8. KeepsActors(w, g)
        BY <1>5, <2>2, <2>7 DEF KeepsActors
  <2>9. \A h \in Graphs : KeepsActors(w, h)
        BY <1>8, <2>2, <2>7, <2>8
  <2> QED  BY <1>2, <1>5, <2>7, <2>9, WorkerActors
<1>11. CASE m.type = "remove"
  <2>1. PICK g : g = m.g
        OBVIOUS
  <2>2. g \in Graphs /\ About(m) = {g}
        BY <1>4, <1>11, <2>1, AboutOne
  <2>3. cn' = [cn EXCEPT ![w][g] = NoState]
        BY <1>1, <1>11, <2>1 DEF CnHandle, CnRemove
  <2>4. OnlyCell(w, g)
        BY <1>7, <2>2, <2>3, CnPut
  <2>5. Pend(reqs[w], g) = {m}
        BY <1>5, <1>6, <1>11, <2>2, HeadFirst
  <2>6. Kind(graph[g].st) = "none"
        BY <1>6, <1>11, <2>2, <2>5 DEF CellOK
  <2>7. ~Needed(w, g) /\ Pend(reqs'[w], g) = {} /\ ~Builds(Pend(reqs[w], g))
        BY <1>5, <1>11, <2>2, <2>5, <2>6 DEF Needed, Builds
  <2>8. KeepsActors(w, g)
        BY <2>7 DEF KeepsActors
  <2>9. /\ \A v \in Workers : v # w => cn'[v] = cn[v]
        /\ \A h \in Graphs : h # g => cn'[w][h] = cn[w][h]
        BY <2>4 DEF OnlyCell
  <2>10. \A h \in Graphs : KeepsActors(w, h)
        BY <1>8, <2>2, <2>8, <2>9
  <2> QED  BY <1>2, <1>5, <2>9, <2>10, WorkerActors
<1>12. CASE m.type = "reset"
  <2>1. PICK here : here = m.gs \ {g \in m.gs : cn[w][g].st = "none"}
        OBVIOUS
  <2>2. CnReset(w, m) /\ About(m) = m.gs
        BY <1>1, <1>12 DEF CnHandle, About
  <2>3. cn' = [cn EXCEPT ![w] = [g \in Graphs |->
                IF g \in here THEN [cn[w][g] EXCEPT !.st = "resetting", !.issued = <<>>,
                                                    !.outs = {}]
                ELSE cn[w][g]]]
        BY <2>1, <2>2, Zenon DEF CnReset
  <2>4. /\ \A v \in Workers : v # w => cn'[v] = cn[v]
        /\ \A g \in Graphs : cn'[w][g] = IF g \in here
                  THEN [cn[w][g] EXCEPT !.st = "resetting", !.issued = <<>>, !.outs = {}]
                  ELSE cn[w][g]
        BY <1>7, <2>3, Zenon DEF TypeInv
  <2>5. ASSUME NEW g \in Graphs PROVE KeepsActors(w, g)
    <3>1. CASE g \notin About(m)
      <4>1. cn'[w][g] = cn[w][g]
            BY <2>1, <2>2, <2>4, <3>1
      <4> QED  BY <1>8, <3>1, <4>1
    <3>2. CASE g \in About(m)
      <4>1. Pend(reqs[w], g) = {m}
            BY <1>5, <1>6, <1>12, <3>2, HeadFirst
      <4>2. cn'[w][g].actors = cn[w][g].actors
        <5>1. CASE g \in here
              BY <1>6, <2>4, <5>1, CnResetting
        <5>2. CASE g \notin here
              BY <2>4, <5>2
        <5> QED  BY <5>1, <5>2
      <4>3. ~Builds(Pend(reqs[w], g)) /\ Pend(reqs'[w], g) \subseteq Pend(reqs[w], g)
            BY <1>5, <1>12, <3>2, <4>1 DEF Builds
      <4> QED  BY <4>2, <4>3 DEF KeepsActors
    <3> QED  BY <3>1, <3>2
  <2> QED  BY <1>2, <1>5, <2>4, <2>5, WorkerActors
<1> QED  BY <1>4, <1>9, <1>10, <1>11, <1>12

LEMMA MetaStepActors ==
  ASSUME RInv, RInv', ActorsOK, NEW d \in Databases, MetaStep(d)
  PROVE  ActorsOK'
<1>1. CASE EnterInitializing(d)     BY <1>1, EnterInitializingActors
<1>2. CASE FailInitializing(d)      BY <1>2, FailInitializingActors
<1>3. CASE FailReload(d)            BY <1>3, QuietActors DEF FailReload, cnVars
<1>4. CASE RemoveDatabase(d)        BY <1>4, QuietActors DEF RemoveDatabase, cnVars
<1>5. CASE BackoffPasses(d)         BY <1>5, QuietActors DEF BackoffPasses, cnVars
<1>6. CASE EnterRunning(d)          BY <1>6, QuietActors DEF EnterRunning, cnVars
<1>7. CASE CreateDatabase(d)        BY <1>7, CreateDatabaseActors
<1>8. CASE CreateDatabaseFails(d)   BY <1>8, CreateDatabaseFailsActors
<1>9. CASE CreateJob(d)             BY <1>9, CreateJobActors
<1>10. CASE CreateJobFails(d)       BY <1>10, CreateJobFailsActors
<1>11. CASE DropJob(d)              BY <1>11, DropJobActors
<1>12. CASE StopJob(d)              BY <1>12, StopJobActors
<1>13. CASE FinishJob(d)            BY <1>13, FinishJobActors
<1> QED  BY <1>1, <1>2, <1>3, <1>4, <1>5, <1>6, <1>7, <1>8, <1>9, <1>10, <1>11, <1>12, <1>13
         DEF MetaStep

LEMMA NextActors ==
  ASSUME RInv, RInv', ActorsOK, [Next]_vars, [NoCollectedFails]_vars
  PROVE  ActorsOK'
<1>1. CASE UNCHANGED vars
      BY <1>1, QuietActors DEF vars, metaVars, cnVars
<1>2. CASE GlobalRecover
      BY <1>2, GlobalRecoverActors
<1>3. CASE GlobalDone
      BY <1>3, QuietActors DEF GlobalDone, cnVars
<1>4. ASSUME NEW d \in Databases, GlobalInject(d) \/ MetaStep(d) PROVE ActorsOK'
      BY <1>4, GlobalInjectActors, MetaStepActors
<1>5. ASSUME NEW g \in Graphs, InjectBarrier(g) \/ ResetCollected(g) PROVE ActorsOK'
      BY <1>5, InjectBarrierActors, ResetCollectedActors
<1>6. ASSUME NEW w \in Workers, MetaRecv(w) \/ Reconnect(w) \/ CnHandle(w) \/ CnResetDone(w)
      PROVE  ActorsOK'
      BY <1>6, MetaRecvActors, ReconnectActors, CnHandleActors, CnResetDoneActors
<1>7. ASSUME NEW w \in Workers, WorkerError(w), ~UNCHANGED vars PROVE ActorsOK'
      BY <1>7, WorkerErrorActors
<1>8. ASSUME NEW w \in Workers, NEW g \in Graphs, CnComplete(w, g) \/ CnFail(w, g)
      PROVE  ActorsOK'
      BY <1>8, CnCompleteActors, CnFailActors
<1>9. ASSUME NEW w \in Workers, NEW v \in Workers, NEW g \in Graphs, XSend(w, v, g)
      PROVE  ActorsOK'
      BY <1>9, QuietActors DEF XSend, metaVars, cnVars
<1>10. CASE XDeliver
      BY <1>10, XDeliverActors
<1> QED  BY <1>1, <1>2, <1>3, <1>4, <1>5, <1>6, <1>7, <1>8, <1>9, <1>10 DEF Next

\* The barrier that a compute node is about to handle finds its actors.
LEMMA ActorsExist == RInv /\ ActorsOK => InjectedActorsExist
<1> SUFFICES ASSUME RInv, ActorsOK, NEW w \in Workers, conn[w], reqs[w] # <<>>,
                    Head(reqs[w]).type = "inject", Head(reqs[w]).kind # "build"
             PROVE  cn[w][Head(reqs[w]).g].actors
    BY DEF InjectedActorsExist
<1>1. PICK q, m, g : q = reqs[w] /\ m = Head(q) /\ g = m.g
      OBVIOUS
<1>2. Good(q)
      BY <1>1 DEF RInv, StreamsOK
<1>3. m \in Messages /\ \A h \in About(m) : m \in Pend(q, h)
      BY <1>1, <1>2, TailGood
<1>4. g \in Graphs /\ About(m) = {g}
      BY <1>1, <1>3, AboutOne
<1>5. ActorsAt(w, g) /\ m \in Pend(reqs[w], g) /\ Plain(m)
      BY <1>1, <1>3, <1>4 DEF ActorsOK, Plain
<1> QED  BY <1>1, <1>5 DEF ActorsAt

LEMMA InitActors == Init => ActorsOK
<1> SUFFICES ASSUME Init, NEW w \in Workers, NEW g \in Graphs PROVE ActorsAt(w, g)
    BY DEF ActorsOK
<1>1. ~Needed(w, g)
      BY DEF Init, NoGraph, Needed
<1>2. Pend(reqs[w], g) = {}
      BY EmptyGood DEF Init
<1> QED  BY <1>1, <1>2 DEF ActorsAt

\* Wherever a barrier is handled its actors exist, so that no assertion of the
\* meta node or of a compute node ever fails, provided that no worker fails in
\* global recovery on which a database that was already collected runs: that
\* case, in which FailedDatabases leaves the database out (worker.rs), is the
\* only one that breaks the protocol.
THEOREM PanicsOnlyInGlobalRecovery ==
  Spec => ([][NoCollectedFails]_vars => []InjectedActorsExist /\ []NoAssertFails)
<1>1. RInv /\ RInv' /\ ActorsOK /\ [Next]_vars /\ [NoCollectedFails]_vars => ActorsOK'
      BY NextActors
<1>2. RInv /\ ActorsOK => InjectedActorsExist
      BY ActorsExist
<1> QED  BY <1>1, <1>2, InitActors, RecoveryInvariant, OnlyMissingActorsPanic, PTL DEF Spec

\* With a single database, as in every deployment that does not create more,
\* the actors of each barrier exist (InjectedActorsExist).
THEOREM OneDatabaseActorsExist ==
  ASSUME \A d, e \in Databases : d = e
  PROVE  Spec => []InjectedActorsExist
<1>1. ASSUME NEW w \in Workers, phase = "global", WorkerError(w), NEW d \in Databases
      PROVE  stage[d] # "running"
      BY <1>1 DEF WorkerError, Polling
<1>2. NoCollectedFails
      BY <1>1 DEF NoCollectedFails
<1> QED  BY <1>2, PanicsOnlyInGlobalRecovery, PTL

\* With a single database no assertion of either end fails (NoAssertFails).
THEOREM OneDatabaseNoAssertFails ==
  ASSUME \A d, e \in Databases : d = e
  PROVE  Spec => []NoAssertFails
BY OneDatabaseActorsExist, OnlyMissingActorsPanic, PTL

=============================================================================
