--------------------------- MODULE PeriodicBarriers ---------------------------
(***************************************************************************)
(* Which barriers are checkpoints: PeriodicBarriers in                     *)
(* meta/src/barrier/schedule.rs, together with the places that may inject  *)
(* nothing for the barrier it produced, both handle_new_barrier functions  *)
(* in meta/src/barrier/checkpoint/control.rs and the event loop of         *)
(* meta/src/barrier/worker.rs.                                             *)
(*                                                                         *)
(* The scheduler counts the barriers it hands out, not the ones that are   *)
(* injected.  A periodic barrier is skipped when its database is not       *)
(* running, has no job or already has in_flight_barrier_nums barriers      *)
(* pending; a command may be rejected, or have nothing left to do, after   *)
(* the counter was reset for its checkpoint.                               *)
(***************************************************************************)
EXTENDS Naturals

CONSTANTS
  Databases,
  Frequencies,          \* values of checkpoint_frequency
  InFlightBarrierNums,  \* in_flight_barrier_nums: pending barriers allowed
  PendingBound,         \* bound: commands may exceed the limit, up to here
  MissedBound           \* bound: checkpoints handed out and not injected

ASSUME PeriodicAssumption ==
  /\ Frequencies \subseteq Nat \ {0}
  /\ InFlightBarrierNums \in Nat \ {0}
  /\ PendingBound \in Nat /\ InFlightBarrierNums <= PendingBound
  /\ MissedBound \in Nat

Default == 0            \* checkpoint_frequency = None for a database

VARIABLES
  sysFreq,      \* sys_checkpoint_frequency
  dbFreq,       \* per database: checkpoint_frequency, or Default
  num,          \* per database: num_uncheckpointed_barrier
  force,        \* force_checkpoint_databases
  running,      \* databases that are not in recovery
  populated,    \* databases with a job: a graph, and database_info not empty
  pending,      \* per database: pending_barrier_num of its partial graph
  run,          \* history: non-checkpoint barriers injected since the last
                \* injected checkpoint or change of frequency
  missed,       \* history: checkpoint barriers handed out since then for
                \* which nothing was injected
  owed          \* history: databases whose forced checkpoint was neither
                \* injected nor skipped yet

vars == <<sysFreq, dbFreq, num, force, running, populated, pending, run,
          missed, owed>>

Frequency(db) == IF dbFreq[db] = Default THEN sysFreq ELSE dbFreq[db]

\* The types of the variables.
PTypeOK ==
  /\ sysFreq \in Frequencies
  /\ dbFreq \in [Databases -> Frequencies \cup {Default}]
  /\ num \in [Databases -> Nat]
  /\ force \subseteq Databases
  /\ running \subseteq Databases
  /\ populated \subseteq Databases
  /\ pending \in [Databases -> 0..PendingBound]
  /\ run \in [Databases -> Nat]
  /\ missed \in [Databases -> Nat]
  /\ owed \subseteq Databases

Init ==
  /\ sysFreq \in Frequencies
  /\ dbFreq \in [Databases -> Frequencies \cup {Default}]
  /\ num = [db \in Databases |-> 0]
  /\ force = {}
  /\ running = Databases
  /\ populated \in SUBSET Databases
  /\ pending = [db \in Databases |-> 0]
  /\ run = [db \in Databases |-> 0]
  /\ missed = [db \in Databases |-> 0]
  /\ owed = {}

-----------------------------------------------------------------------------

\* set_sys_checkpoint_frequency: an unchanged value is ignored; otherwise the
\* databases that use the default start counting again.
SetSysCheckpointFrequency(f) ==
  LET affected(db) == dbFreq[db] = Default IN
  /\ f # sysFreq
  /\ sysFreq' = f
  /\ num' = [db \in Databases |-> IF affected(db) THEN 0 ELSE num[db]]
  /\ run' = [db \in Databases |-> IF affected(db) THEN 0 ELSE run[db]]
  /\ missed' = [db \in Databases |-> IF affected(db) THEN 0 ELSE missed[db]]
  /\ UNCHANGED <<dbFreq, force, running, populated, pending, owed>>

\* update_database_barrier on an existing database always starts over.
UpdateDatabaseBarrier(db, f) ==
  /\ dbFreq' = [dbFreq EXCEPT ![db] = f]
  /\ num' = [num EXCEPT ![db] = 0]
  /\ run' = [run EXCEPT ![db] = 0]
  /\ missed' = [missed EXCEPT ![db] = 0]
  /\ UNCHANGED <<sysFreq, force, running, populated, pending, owed>>

\* force_checkpoint_in_next_barrier, called when a job is ready to merge or a
\* finished job waits for a checkpoint.
ForceCheckpointInNextBarrier(db) ==
  /\ db \in running
  /\ force' = force \cup {db}
  /\ owed' = owed \cup {db}
  /\ UNCHANGED <<sysFreq, dbFreq, num, running, populated, pending, run,
                 missed>>

TryGetCheckpointOffByOne(db) == num[db] >= Frequency(db)      \* (Mistake)

TryGetCheckpoint(db) == num[db] + 1 >= Frequency(db)

\* update_num_uncheckpointed_barrier runs on every barrier handed out.
UpdateNum(db, checkpoint) ==
  num' = [num EXCEPT ![db] = IF checkpoint THEN 0 ELSE @ + 1]

\* The barrier reaches the database's partial graph.
Injected(db, checkpoint) ==
  /\ pending[db] < PendingBound
  /\ pending' = [pending EXCEPT ![db] = @ + 1]
  /\ run' = [run EXCEPT ![db] = IF checkpoint THEN 0 ELSE @ + 1]
  /\ missed' = [missed EXCEPT ![db] = IF checkpoint THEN 0 ELSE @]
  /\ owed' = IF checkpoint THEN owed \ {db} ELSE owed

\* Nothing is injected for the barrier; the scheduler is not told.
Skipped(db, checkpoint) ==
  /\ checkpoint => missed[db] < MissedBound
  /\ missed' = [missed EXCEPT ![db] = IF checkpoint THEN @ + 1 ELSE @]
  /\ owed' = IF checkpoint THEN owed \ {db} ELSE owed
  /\ UNCHANGED <<pending, run>>

\* handle_new_barrier for a barrier without a command: skipped when the
\* database is not running, has no job or has too many barriers pending.
HandlePeriodic(db, checkpoint) ==
  IF db \in running \cap populated /\ pending[db] < InFlightBarrierNums
    THEN Injected(db, checkpoint)
    ELSE Skipped(db, checkpoint)

\* next_barrier serves a forced checkpoint before anything else.
ForcedBarrier(db) ==
  /\ db \in force
  /\ force' = force \ {db}
  /\ UpdateNum(db, TRUE)
  /\ HandlePeriodic(db, TRUE)
  /\ UNCHANGED <<sysFreq, dbFreq, running, populated>>

\* next_barrier takes a scheduled command, of a database that is not in
\* recovery, and its barrier is injected whatever is pending.  An empty
\* database is entered by the creation of its first job only, and is empty
\* again after the drop of its last one; every command but Resume needs a
\* checkpoint.
CommandBarrier(db, needCheckpoint, emptied) ==
  LET checkpoint == needCheckpoint \/ TryGetCheckpoint(db) IN
  /\ force = {}
  /\ db \in running
  /\ emptied => db \in populated
  /\ emptied \/ db \notin populated => needCheckpoint
  /\ populated' = IF emptied THEN populated \ {db} ELSE populated \cup {db}
  /\ UpdateNum(db, checkpoint)
  /\ Injected(db, checkpoint)
  /\ UNCHANGED <<sysFreq, dbFreq, force, running>>

\* The same, but nothing is injected: every job the command drops was still
\* being created, the reschedule is rejected or has no plan, the job may not be
\* created while paused, its upstream or its snapshot epoch is not found, or
\* the database is empty.  Only the last can happen to a Resume.
CommandSkipped(db, needCheckpoint) ==
  LET checkpoint == needCheckpoint \/ TryGetCheckpoint(db) IN
  /\ force = {}
  /\ db \in running
  /\ db \in populated => needCheckpoint
  /\ UpdateNum(db, checkpoint)
  /\ Skipped(db, checkpoint)
  /\ UNCHANGED <<sysFreq, dbFreq, force, running, populated>>

TickBeforeForced(db) ==            \* (Mistake) the timer is polled first
  LET checkpoint == TryGetCheckpoint(db) IN
  /\ UpdateNum(db, checkpoint)
  /\ HandlePeriodic(db, checkpoint)
  /\ UNCHANGED <<sysFreq, dbFreq, force, running, populated>>

\* next_barrier is woken by the database's interval timer.
Tick(db) ==
  LET checkpoint == TryGetCheckpoint(db) IN
  /\ force = {}
  /\ UpdateNum(db, checkpoint)
  /\ HandlePeriodic(db, checkpoint)
  /\ UNCHANGED <<sysFreq, dbFreq, force, running, populated>>

RetireUnguarded(db) ==             \* (Mistake) a completion counted twice
  /\ pending' = [pending EXCEPT ![db] = @ - 1]
  /\ UNCHANGED <<sysFreq, dbFreq, num, force, running, populated, run, missed,
                 owed>>

\* A pending barrier of the database's graph is completed.
Retire(db) ==
  /\ pending[db] > 0
  /\ pending' = [pending EXCEPT ![db] = @ - 1]
  /\ UNCHANGED <<sysFreq, dbFreq, num, force, running, populated, run, missed,
                 owed>>

\* The database enters recovery: its graph is reset, the scheduler is not told.
DatabaseFails(db) ==
  /\ db \in running
  /\ running' = running \ {db}
  /\ pending' = [pending EXCEPT ![db] = 0]
  /\ UNCHANGED <<sysFreq, dbFreq, num, force, populated, run, missed, owed>>

DatabaseRecovers(db) ==
  /\ db \notin running
  /\ running' = running \cup {db}
  /\ UNCHANGED <<sysFreq, dbFreq, num, force, populated, pending, run, missed,
                 owed>>

Next ==
  \/ \E f \in Frequencies : SetSysCheckpointFrequency(f)
  \/ \E db \in Databases :
       \/ \E f \in Frequencies \cup {Default} : UpdateDatabaseBarrier(db, f)
       \/ ForceCheckpointInNextBarrier(db)
       \/ ForcedBarrier(db)
       \/ \E need, emptied \in BOOLEAN : CommandBarrier(db, need, emptied)
       \/ \E need \in BOOLEAN : CommandSkipped(db, need)
       \/ Tick(db)
       \/ Retire(db)
       \/ DatabaseFails(db)
       \/ DatabaseRecovers(db)

Spec == Init /\ [][Next]_vars

-----------------------------------------------------------------------------

\* Between two injected checkpoints of a database there are fewer than n
\* barriers, n its checkpoint frequency, and at most n more for each checkpoint
\* barrier that was handed out and not injected, whatever mix of timers,
\* commands, forced checkpoints, reconfiguration and recovery produced them.
\* try_get_checkpoint counts barriers handed out, so this is all it ensures of
\* the injected ones.
CheckpointEveryNInjected ==
  \A db \in Databases : run[db] < (missed[db] + 1) * Frequency(db)

\* A forced checkpoint (force_checkpoint_in_next_barrier) is the next barrier
\* its database is handed: no barrier is injected before it unless it is
\* skipped.
ForcedComesNext ==
  [][\A db \in Databases :
       db \in owed /\ pending'[db] > pending[db] => db \notin owed']_vars

\* The inductive invariant: the scheduler's counter stays below the frequency;
\* it counts every barrier injected since the last checkpoint was handed out, so
\* each missed checkpoint hides less than one period; an owed checkpoint is
\* still flagged.
PInv ==
  /\ PTypeOK
  /\ \A db \in Databases : num[db] < Frequency(db)
  /\ \A db \in Databases : run[db] <= missed[db] * Frequency(db) + num[db]
  /\ owed \subseteq force

=============================================================================
