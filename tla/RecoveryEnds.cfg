SPECIFICATION FairSpec
CONSTANTS
  Workers = {w1, w2}
  Databases = {d1}
  JobDatabases = {}
  MaxFaults = 2
  MaxBarrier = 2
  MaxExchange = 1
INVARIANTS
  InjectedActorsExist
  ExchangeSameTerm
PROPERTIES
  RecoveryEnds
CHECK_DEADLOCK FALSE
