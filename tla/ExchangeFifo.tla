----------------------------- MODULE ExchangeFifo -----------------------------
(***************************************************************************)
(* What an exchange channel promises to the two actors it connects: the    *)
(* downstream actor sees the upstream actor's messages in the order they   *)
(* were sent, without gap or repetition; no more barrier batches and row   *)
(* permits are between the two actors than the channel was created with;   *)
(* and once the channel breaks, what still arrives is a prefix of what was *)
(* under way.  Semaphores, the exchange service and the batching of        *)
(* permits are left out: PermitChannel shows how the code keeps this.      *)
(***************************************************************************)
EXTENDS Integers, Sequences, SequencesExt, FiniteSetsExt

CONSTANTS
  Kinds,        \* what a message counts against: a subset of its kinds
  Capacity      \* per kind of permit: how much may be under way

VARIABLES
  buf,          \* messages sent and not yet delivered, oldest first
  last,         \* identity of the message delivered last, 0 at first
  broken        \* the channel no longer carries what is sent

fvars == <<buf, last, broken>>

\* How much the messages of b take of permits of kind k.
UnderWay(b, k) ==
  MapThenSumSet(LAMBDA i : b[i].permits, {i \in DOMAIN b : b[i].kind = k})

FInit ==
  /\ buf = <<>>
  /\ last = 0
  /\ broken = FALSE

\* Identities are consecutive: nothing the sender was told is sent is left
\* out.
FPut ==
  /\ ~broken
  /\ Len(buf') = Len(buf) + 1
  /\ SubSeq(buf', 1, Len(buf)) = buf
  /\ buf'[Len(buf')].id = (IF buf = <<>> THEN last ELSE buf[Len(buf)].id) + 1
  /\ \A k \in Kinds : UnderWay(buf', k) <= Capacity[k]
  /\ UNCHANGED <<last, broken>>

FTake ==
  /\ buf # <<>>
  /\ Head(buf).id = last + 1
  /\ last' = Head(buf).id
  /\ buf' = Tail(buf)
  /\ UNCHANGED broken

FBreak ==
  /\ broken' = TRUE
  /\ IsPrefix(buf', buf)
  /\ UNCHANGED last

FNext == FPut \/ FTake \/ FBreak

FSpec == FInit /\ [][FNext]_fvars

=============================================================================
