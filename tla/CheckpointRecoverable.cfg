SPECIFICATION Spec
CONSTANTS
  Jobs = {j1, j2}
  InFlightNums = 1
  MaxPending = 5
  MaxLagged = 4
  MayDrop = {}
  Ordered = {}
  Commands = {}
  Truncation = FALSE
  MaxEpoch = 4
  MaxCrashes = 0
INVARIANTS
  RecoverableAtAnyTime
SYMMETRY JobSymmetry
CHECK_DEADLOCK FALSE
