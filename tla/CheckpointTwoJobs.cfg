SPECIFICATION Spec
CONSTANTS
  Jobs = {j1, j2}
  InFlightNums = 1
  MaxPending = 3
  MaxLagged = 4
  MayDrop = {}
  Ordered = {j1, j2}
  Commands = {{}, {j1}, {j2}}
  Truncation = FALSE
  MaxEpoch = 4
  MaxCrashes = 1
INVARIANTS
  NoJobForgotten
  MergeIsAtomic
  JobPendingBounded
SYMMETRY JobSymmetry
CHECK_DEADLOCK FALSE
