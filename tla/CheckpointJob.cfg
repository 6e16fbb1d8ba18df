SPECIFICATION FairSpec
CONSTANTS
  Jobs = {j1}
  InFlightNums = 2
  MaxPending = 2
  MaxLagged = 3
  MayDrop = {j1}
  Ordered = {}
  Commands = {}
  Truncation = TRUE
  MaxEpoch = 5
  MaxCrashes = 1
INVARIANTS
  RecoverableAtAnyTime
  CommittedOnce
  NoUpstreamEpochSkipped
  NeededLogPresent
  NoSubscriberLeaks
PROPERTIES
  CreatedOnlyWhenCaughtUp
  MergedJobFinishes
CHECK_DEADLOCK FALSE
