CONSTANTS
  a1 = a1
  a2 = a2
  b1 = b1
  c1 = c1
  c2 = c2
  A = A
  B = B
  C = C
  AllNodes <- FiveNodes
  NodeGroups <- ThreeGroups
  GroupOf <- GroupAt
  AtomicGroups <- TwoAtomic
  Orders <- TwoOrders
  MaxScaleDownParallelism = 2
  MaxDrainParallelism = 1
  Drains <- SomeDrains
  Nodes <- TwoNodes
  Clusters <- SomeClusters
SPECIFICATION StageSpec
INVARIANTS DrainedMeansGone UpdatesTakeEffect NoMarkLeft
PROPERTIES BudgetsKept PriorityOrder ActuationReturns
