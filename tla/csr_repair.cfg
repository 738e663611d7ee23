CONSTANTS
  g1 = g1
  g2 = g2
  i1 = i1
  i2 = i2
  i3 = i3
  NodeGroups <- OneGroup
  Instances <- Three
  GroupOf <- AllInG1
  MaxNodeProvisionTime = 1
  BackoffDuration = 1
  OkTotalUnreadyCount = 0
  MaxTotalUnreadyPercentage = 45
  HasTemplate <- OneGroup
  HasInstanceImplemented = TRUE
  MaxSize = 3
  MinSize = 0
  InitialNodes <- First
  InitialUpcoming <- NoGroups
  ZeroOrMaxNodeScaling <- NoGroups
  AllowNonAtomicScaleUpToMax = FALSE
  ForceDeleteLongUnregisteredNodes = FALSE
  TurnsTo = {}
  Interleaved = {"idle", "unregistered"}
  MaxLosses = 0
  MaxFailures = 1
  MaxScaleUps = 1
  MaxRestarts = 0
SPECIFICATION FairSpec
 
PROPERTY ScaleUpsAreSettled
