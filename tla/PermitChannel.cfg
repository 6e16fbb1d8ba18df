SPECIFICATION FairSpec
CONSTANTS
  InitialPermits = 4
  ChannelBatched = 2
  InputBatched = 3
  ConcurrentBarriers = 1
  Cards = {0, 5}
  Placements = {TRUE, FALSE}
  MaxSend = 4
INVARIANTS
  ChannelInv
  StarvedOnlyByBatch
PROPERTIES
  SendResolves
  EndReachesInput
  CarriesInOrder
CHECK_DEADLOCK FALSE
