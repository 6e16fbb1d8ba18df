SPECIFICATION Spec
CONSTANTS
  Databases = {d1, d2}
  Frequencies = {1, 2, 3}
  InFlightBarrierNums = 2
  PendingBound = 3
  MissedBound = 1
INVARIANTS
  PInv
  CheckpointEveryNInjected
PROPERTIES
  ForcedComesNext
