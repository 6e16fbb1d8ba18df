SPECIFICATION Spec
CONSTANTS
  Workers = {w1, w2}
  Databases = {d1, d2}
  JobDatabases = {}
  MaxFaults = 1
  MaxBarrier = 2
  MaxExchange = 0
SYMMETRY WorkerSymmetry
INVARIANTS
  InjectedActorsExist
CHECK_DEADLOCK FALSE
