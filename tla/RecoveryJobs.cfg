SPECIFICATION Spec
CONSTANTS
  Workers = {w1, w2}
  Databases = {d1}
  JobDatabases = {d1}
  MaxFaults = 1
  MaxBarrier = 2
  MaxExchange = 0
SYMMETRY WorkerSymmetry
INVARIANTS
  NoAssertFails
  AnswersAreCurrent
  OldActorsGone
  RecoveryTracksGraphs
CHECK_DEADLOCK FALSE
