SPECIFICATION FairSpec
CONSTANTS
  Actors = {a1, a2, a3}
  InitialActors = {a1, a2}
  Fragments = {f1, f2}
  FirstFragment = f1
  NoFragment = NoFragment
  MaxEpoch = 2
  MaxWatermark = 0
  StagedCap = 1
  ChunkSize = 2
  ChanCap = 1
INVARIANTS
  NeverMisaligned
  ConsistentCut
  UpstreamsFollowUpdates
PROPERTIES
  BarriersComeOut
CHECK_DEADLOCK FALSE
