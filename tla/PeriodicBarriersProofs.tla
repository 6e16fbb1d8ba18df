----------------------- MODULE PeriodicBarriersProofs -----------------------
(***************************************************************************)
(* The checkpoint frequency holds for every number of databases, every      *)
(* frequency and every in-flight limit.  PInv is inductive: the counter num *)
(* stays below the frequency in force, and it counts the barriers injected  *)
(* since the last checkpoint that was handed out.                          *)
(***************************************************************************)
EXTENDS PeriodicBarriers, TLAPS

\* A database's frequency, its own or the system's, is positive.
LEMMA FrequencyPositive ==
  ASSUME PTypeOK, NEW db \in Databases
  PROVE  Frequency(db) \in Nat /\ Frequency(db) > 0
<1>1. \A f \in Frequencies : f \in Nat /\ f > 0
      BY PeriodicAssumption
<1>2. CASE dbFreq[db] = Default
      BY <1>1, <1>2 DEF PTypeOK, Frequency
<1>3. CASE dbFreq[db] # Default
  <2>1. dbFreq[db] \in Frequencies
        BY <1>3 DEF PTypeOK
  <2> QED  BY <1>1, <1>3, <2>1 DEF Frequency
<1> QED  BY <1>2, <1>3

\* The initial state satisfies the invariant.
LEMMA PInitEstablishes == Init => PInv
<1> SUFFICES ASSUME Init PROVE PInv
    OBVIOUS
<1>1. PTypeOK
      BY PeriodicAssumption DEF Init, PTypeOK
<1>2. \A db \in Databases : num[db] < Frequency(db)
      BY <1>1, FrequencyPositive DEF Init
<1>3. \A db \in Databases : run[db] <= missed[db] * Frequency(db) + num[db]
  <2> TAKE db \in Databases
  <2>1. run[db] = 0 /\ missed[db] = 0 /\ num[db] = 0
        BY DEF Init
  <2>2. Frequency(db) \in Nat
        BY <1>1, FrequencyPositive
  <2> QED  BY <2>1, <2>2
<1>4. owed \subseteq force
      BY DEF Init
<1> QED  BY <1>1, <1>2, <1>3, <1>4 DEF PInv

\* A barrier that is injected or skipped keeps the bookkeeping in step with
\* the counter, whatever handed it out.
LEMMA HandingOut ==
  ASSUME PInv, NEW db \in Databases, NEW ck \in BOOLEAN,
         UpdateNum(db, ck), ~ck => num[db] + 1 < Frequency(db),
         Injected(db, ck) \/ Skipped(db, ck),
         UNCHANGED <<sysFreq, dbFreq, running>>, populated' \subseteq Databases,
         force' \subseteq force, force \subseteq force' \cup {db},
         db \in force /\ db \notin force' => ck, force = {} \/ ck
  PROVE  PInv'
<1>0. PTypeOK
      BY DEF PInv
<1>1. /\ sysFreq' = sysFreq /\ dbFreq' = dbFreq /\ running' = running
      /\ force' \subseteq Databases
      BY <1>0 DEF PTypeOK
<1>2. /\ num' \in [Databases -> Nat]
      /\ \A d \in Databases : num'[d] = IF d = db THEN IF ck THEN 0 ELSE num[db] + 1 ELSE num[d]
      BY <1>0 DEF PTypeOK, UpdateNum
<1>3. /\ pending' \in [Databases -> 0..PendingBound]
      /\ run' \in [Databases -> Nat]
      /\ missed' \in [Databases -> Nat]
      /\ owed' \subseteq Databases
      /\ owed' = IF ck THEN owed \ {db} ELSE owed
  <2>1. CASE Injected(db, ck)
    <3>1. pending[db] + 1 \in 0..PendingBound
          BY <1>0, <2>1, PeriodicAssumption DEF PTypeOK, Injected
    <3> QED  BY <1>0, <2>1, <3>1 DEF PTypeOK, Injected
  <2>2. CASE Skipped(db, ck)
        BY <1>0, <2>2 DEF PTypeOK, Skipped
  <2> QED  BY <2>1, <2>2
<1>4. PTypeOK'
      BY <1>0, <1>1, <1>2, <1>3 DEF PTypeOK
<1>5. \A d \in Databases : Frequency(d)' = Frequency(d)
      BY <1>1 DEF Frequency
<1>6. \A d \in Databases : num'[d] < Frequency(d)'
      BY <1>0, <1>2, <1>5, FrequencyPositive DEF PInv
<1>7. \A d \in Databases : run'[d] <= missed'[d] * Frequency(d)' + num'[d]
  <2> TAKE d \in Databases
  <2>0. /\ num \in [Databases -> Nat] /\ run \in [Databases -> Nat]
        /\ missed \in [Databases -> Nat] /\ Frequency(d) \in Nat
        /\ run[d] <= missed[d] * Frequency(d) + num[d]
        /\ num[d] < Frequency(d)
        BY <1>0, FrequencyPositive DEF PTypeOK, PInv
  <2>1. CASE d # db
    <3>1. run'[d] = run[d] /\ missed'[d] = missed[d] /\ num'[d] = num[d]
          BY <1>2, <2>0, <2>1 DEF Injected, Skipped
    <3> QED  BY <1>5, <2>0, <3>1
  <2>2. CASE d = db /\ Injected(db, ck) /\ ck
    <3>1. run'[d] = 0 /\ missed'[d] = 0 /\ num'[d] = 0
          BY <1>2, <2>0, <2>2 DEF Injected
    <3> QED  BY <1>5, <2>0, <3>1
  <2>3. CASE d = db /\ Injected(db, ck) /\ ~ck
    <3>1. run'[d] = run[d] + 1 /\ missed'[d] = missed[d] /\ num'[d] = num[d] + 1
          BY <1>2, <2>0, <2>3 DEF Injected
    <3>2. missed[d] * Frequency(d) \in Nat
          BY <2>0
    <3> QED  BY <1>5, <2>0, <3>1, <3>2
  <2>4. CASE d = db /\ Skipped(db, ck) /\ ck
    <3>1. run'[d] = run[d] /\ missed'[d] = missed[d] + 1 /\ num'[d] = 0
          BY <1>2, <2>0, <2>4 DEF Skipped
    <3>2. /\ missed[d] * Frequency(d) \in Nat
          /\ (missed[d] + 1) * Frequency(d) = missed[d] * Frequency(d) + Frequency(d)
          BY <2>0
    <3> QED  BY <1>5, <2>0, <3>1, <3>2
  <2>5. CASE d = db /\ Skipped(db, ck) /\ ~ck
    <3>1. run'[d] = run[d] /\ missed'[d] = missed[d] /\ num'[d] = num[d] + 1
          BY <1>2, <2>0, <2>5 DEF Skipped
    <3>2. missed[d] * Frequency(d) \in Nat
          BY <2>0
    <3> QED  BY <1>5, <2>0, <3>1, <3>2
  <2> QED  BY <2>1, <2>2, <2>3, <2>4, <2>5
<1>8. owed' \subseteq force'
      BY <1>3 DEF PInv
<1> QED  BY <1>4, <1>6, <1>7, <1>8 DEF PInv

\* Every step preserves the invariant.
LEMMA PStepPreserves == PInv /\ [Next]_vars => PInv'
<1> SUFFICES ASSUME PInv, [Next]_vars PROVE PInv'
    OBVIOUS
<1>0. PTypeOK
      BY DEF PInv
<1>1. ASSUME NEW f \in Frequencies, SetSysCheckpointFrequency(f) PROVE PInv'
  <2>1. PTypeOK'
        BY <1>0, <1>1, PeriodicAssumption DEF PTypeOK, SetSysCheckpointFrequency
  <2>2. \A db \in Databases : num'[db] < Frequency(db)'
    <3> TAKE db \in Databases
    <3>1. CASE dbFreq[db] = Default
          BY <1>1, <2>1, <3>1, PeriodicAssumption
          DEF SetSysCheckpointFrequency, Frequency, PTypeOK
    <3>2. CASE dbFreq[db] # Default
          BY <1>1, <3>2 DEF SetSysCheckpointFrequency, Frequency, PInv
    <3> QED  BY <3>1, <3>2
  <2>3. \A db \in Databases : run'[db] <= missed'[db] * Frequency(db)' + num'[db]
    <3> TAKE db \in Databases
    <3>1. CASE dbFreq[db] = Default
      <4>1. run'[db] = 0 /\ missed'[db] = 0 /\ num'[db] = 0 /\ Frequency(db)' \in Nat
            BY <1>1, <2>1, <3>1, PeriodicAssumption
            DEF SetSysCheckpointFrequency, Frequency, PTypeOK
      <4> QED  BY <4>1
    <3>2. CASE dbFreq[db] # Default
          BY <1>1, <3>2 DEF SetSysCheckpointFrequency, Frequency, PInv
    <3> QED  BY <3>1, <3>2
  <2> QED  BY <1>1, <2>1, <2>2, <2>3 DEF SetSysCheckpointFrequency, PInv
<1>2. ASSUME NEW db \in Databases, NEW f \in Frequencies \cup {Default},
             UpdateDatabaseBarrier(db, f) PROVE PInv'
  <2>1. PTypeOK'
        BY <1>0, <1>2, PeriodicAssumption DEF PTypeOK, UpdateDatabaseBarrier
  <2>0. \A d \in Databases : Frequency(d)' \in Nat /\ Frequency(d)' > 0
    <3> TAKE d \in Databases
    <3>1. \A g \in Frequencies : g \in Nat /\ g > 0
          BY PeriodicAssumption
    <3>2. CASE dbFreq'[d] = Default
          BY <2>1, <3>1, <3>2 DEF PTypeOK, Frequency
    <3>3. CASE dbFreq'[d] # Default
      <4>1. dbFreq'[d] \in Frequencies
            BY <2>1, <3>3 DEF PTypeOK
      <4> QED  BY <3>1, <3>3, <4>1 DEF Frequency
    <3> QED  BY <3>2, <3>3
  <2>2. \A d \in Databases : num'[d] < Frequency(d)'
    <3> TAKE d \in Databases
    <3>1. CASE d = db
      <4>1. num'[d] = 0
            BY <1>0, <1>2, <3>1 DEF UpdateDatabaseBarrier, PTypeOK
      <4> QED  BY <2>0, <4>1
    <3>2. CASE d # db
          BY <1>0, <1>2, <3>2 DEF UpdateDatabaseBarrier, Frequency, PInv, PTypeOK
    <3> QED  BY <3>1, <3>2
  <2>3. \A d \in Databases : run'[d] <= missed'[d] * Frequency(d)' + num'[d]
    <3> TAKE d \in Databases
    <3>1. CASE d = db
      <4>1. run'[d] = 0 /\ missed'[d] = 0 /\ num'[d] = 0
            BY <1>0, <1>2, <3>1 DEF UpdateDatabaseBarrier, PTypeOK
      <4> QED  BY <2>0, <4>1
    <3>2. CASE d # db
          BY <1>0, <1>2, <3>2 DEF UpdateDatabaseBarrier, Frequency, PInv, PTypeOK
    <3> QED  BY <3>1, <3>2
  <2> QED  BY <1>2, <2>1, <2>2, <2>3 DEF UpdateDatabaseBarrier, PInv
<1>3. ASSUME NEW db \in Databases, ForceCheckpointInNextBarrier(db) PROVE PInv'
      BY <1>0, <1>3 DEF ForceCheckpointInNextBarrier, PInv, PTypeOK, Frequency
<1>4. ASSUME NEW db \in Databases, ForcedBarrier(db) PROVE PInv'
  <2>1. Injected(db, TRUE) \/ Skipped(db, TRUE)
        BY <1>4 DEF ForcedBarrier, HandlePeriodic
  <2> QED  BY <1>0, <1>4, <2>1, HandingOut DEF ForcedBarrier, PTypeOK
<1>5. ASSUME NEW db \in Databases, NEW need \in BOOLEAN, NEW emptied \in BOOLEAN,
             CommandBarrier(db, need, emptied) \/ CommandSkipped(db, need)
      PROVE  PInv'
  <2> DEFINE ck == need \/ TryGetCheckpoint(db)
  <2>1. ck \in BOOLEAN
        BY DEF TryGetCheckpoint
  <2>2. ~ck => num[db] + 1 < Frequency(db)
        BY <1>0, FrequencyPositive DEF TryGetCheckpoint, PTypeOK
  <2>3. populated' \subseteq Databases
        BY <1>0, <1>5 DEF CommandBarrier, CommandSkipped, PTypeOK
  <2>4. /\ UpdateNum(db, ck)
        /\ Injected(db, ck) \/ Skipped(db, ck)
        /\ force = {}
        /\ UNCHANGED <<sysFreq, dbFreq, running, force>>
        BY <1>5 DEF CommandBarrier, CommandSkipped
  <2> HIDE DEF ck
  <2> QED  BY <2>1, <2>2, <2>3, <2>4, HandingOut
<1>6. ASSUME NEW db \in Databases, Tick(db) PROVE PInv'
  <2>1. TryGetCheckpoint(db) \in BOOLEAN
        BY DEF TryGetCheckpoint
  <2>2. ~TryGetCheckpoint(db) => num[db] + 1 < Frequency(db)
        BY <1>0, FrequencyPositive DEF TryGetCheckpoint, PTypeOK
  <2>3. Injected(db, TryGetCheckpoint(db)) \/ Skipped(db, TryGetCheckpoint(db))
        BY <1>6 DEF Tick, HandlePeriodic
  <2> QED  BY <1>0, <1>6, <2>1, <2>2, <2>3, HandingOut DEF Tick, PTypeOK
<1>7. ASSUME NEW db \in Databases, Retire(db) PROVE PInv'
      BY <1>0, <1>7, PeriodicAssumption DEF Retire, PInv, PTypeOK, Frequency
<1>8. ASSUME NEW db \in Databases, DatabaseFails(db) PROVE PInv'
      BY <1>0, <1>8, PeriodicAssumption DEF DatabaseFails, PInv, PTypeOK, Frequency
<1>9. ASSUME NEW db \in Databases, DatabaseRecovers(db) PROVE PInv'
      BY <1>0, <1>9 DEF DatabaseRecovers, PInv, PTypeOK, Frequency
<1>10. CASE UNCHANGED vars
      BY <1>10 DEF vars, PInv, PTypeOK, Frequency
<1> QED
    BY <1>1, <1>2, <1>3, <1>4, <1>5, <1>6, <1>7, <1>8, <1>9, <1>10 DEF Next

\* The bookkeeping of the scheduler is consistent in every reachable state.
THEOREM PInvariance == Spec => []PInv
BY PInitEstablishes, PStepPreserves, PTL DEF Spec

\* Between two injected checkpoints there are fewer barriers than the
\* frequency in force, and less than one period more for each checkpoint
\* handed out that was not injected, for every number of databases and limit.
THEOREM FrequencyHolds == Spec => []CheckpointEveryNInjected
<1>1. PInv => CheckpointEveryNInjected
  <2> SUFFICES ASSUME PInv, NEW db \in Databases
      PROVE run[db] < (missed[db] + 1) * Frequency(db)
      BY DEF CheckpointEveryNInjected
  <2>1. run[db] <= missed[db] * Frequency(db) + num[db] /\ num[db] < Frequency(db)
        BY DEF PInv
  <2>2. /\ run[db] \in Nat /\ num[db] \in Nat /\ missed[db] \in Nat
        /\ Frequency(db) \in Nat
        BY FrequencyPositive DEF PInv, PTypeOK
  <2>3. /\ missed[db] * Frequency(db) \in Nat
        /\ (missed[db] + 1) * Frequency(db) = missed[db] * Frequency(db) + Frequency(db)
        BY <2>2
  <2> QED  BY <2>1, <2>2, <2>3
<1> QED  BY <1>1, PInvariance, PTL

\* A forced checkpoint is the next barrier its database is handed.
THEOREM ForcedNext == Spec => ForcedComesNext
<1> DEFINE Step == \A db \in Databases :
                     db \in owed /\ pending'[db] > pending[db] => db \notin owed'
<1>1. PInv /\ [Next]_vars => [Step]_vars
  <2> SUFFICES ASSUME PInv, Next, NEW db \in Databases, db \in owed,
                      pending'[db] > pending[db]
      PROVE db \notin owed'
      OBVIOUS
  <2>0. /\ db \in force
        /\ pending \in [Databases -> 0..PendingBound] /\ PendingBound \in Nat
        BY PeriodicAssumption DEF PInv, PTypeOK
  <2>1. ASSUME NEW d \in Databases, ForcedBarrier(d) PROVE db \notin owed'
    <3>1. CASE d = db
          BY <2>1, <3>1 DEF ForcedBarrier, HandlePeriodic, Injected, Skipped
    <3>2. CASE d # db
      <4>1. pending'[db] = pending[db]
            BY <2>0, <2>1, <3>2 DEF ForcedBarrier, HandlePeriodic, Injected, Skipped
      <4> QED  BY <2>0, <4>1
    <3> QED  BY <3>1, <3>2
  <2>2. ASSUME NEW d \in Databases, NEW need \in BOOLEAN, NEW emptied \in BOOLEAN,
               CommandBarrier(d, need, emptied) \/ CommandSkipped(d, need)
        PROVE FALSE
        BY <2>0, <2>2 DEF CommandBarrier, CommandSkipped
  <2>3. ASSUME NEW d \in Databases, Tick(d) PROVE FALSE
        BY <2>0, <2>3 DEF Tick
  <2>4. ASSUME pending' = pending PROVE FALSE
        BY <2>0, <2>4
  <2>5. ASSUME NEW d \in Databases, Retire(d) PROVE FALSE
        BY <2>0, <2>5 DEF Retire
  <2>6. ASSUME NEW d \in Databases, DatabaseFails(d) PROVE FALSE
        BY <2>0, <2>6 DEF DatabaseFails
  <2> QED
      BY <2>1, <2>2, <2>3, <2>4, <2>5, <2>6
      DEF Next, SetSysCheckpointFrequency, UpdateDatabaseBarrier,
          ForceCheckpointInNextBarrier, DatabaseRecovers
<1> QED  BY <1>1, PInvariance, PTL DEF Spec, ForcedComesNext

=============================================================================
