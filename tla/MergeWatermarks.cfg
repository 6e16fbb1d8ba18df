SPECIFICATION Spec
CONSTANTS
  Actors = {a1, a2, a3}
  InitialActors = {a1, a2}
  Fragments = {f1, f2}
  FirstFragment = f1
  NoFragment = NoFragment
  MaxEpoch = 1
  MaxWatermark = 3
  StagedCap = 1
  ChunkSize = 1
  ChanCap = 1
INVARIANTS
  WatermarkPromised
  NoWatermarkHeldBack
CHECK_DEADLOCK FALSE
