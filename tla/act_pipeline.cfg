CONSTANTS
  a1 = a1
  a2 = a2
  c1 = c1
  c2 = c2
  c3 = c3
  A = A
  C = C
  Nodes <- MixedPair
  Orders <- PairOrders
  NodeGroups <- BothGroups
  GroupOf <- InGroup
  AtomicGroups <- OnlyA
  MayDrain <- A2C1
  Unregistered <- OneUnregisteredA
  MinSize <- OneMinC
  Batching = TRUE
  MaxBatch = 5
  MaxTaintFailures = 1
  MaxAborts = 1
  MaxRefusals = 1
  MaxScaleDownParallelism = 2
  MaxDrainParallelism = 1
SPECIFICATION FairActuation
INVARIANTS HeldOnce  
PROPERTIES ImplementsNodeDeletion DeletionsEnd
