SPECIFICATION FairSpec
CONSTANTS
  Workers = {w1, w2}
  Epochs = {1, 2, 3, 4, 5}
INVARIANTS
  IInv
  CommitOrder
PROPERTIES
  PipelineSpec
  EveryBarrierLeaves
CHECK_DEADLOCK FALSE
