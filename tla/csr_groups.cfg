CONSTANTS
  g1 = g1
  g2 = g2
  i1 = i1
  i2 = i2
  i3 = i3
  NodeGroups <- TwoGroups
  Instances <- Two
  GroupOf <- OneEach
  MaxNodeProvisionTime = 1
  BackoffDuration = 1
  OkTotalUnreadyCount = 0
  MaxTotalUnreadyPercentage = 45
  HasTemplate <- OneGroup
  HasInstanceImplemented = FALSE
  MaxSize = 1
  MinSize = 0
  InitialNodes <- First
  InitialUpcoming <- OtherGroup
  ZeroOrMaxNodeScaling <- OneGroup
  AllowNonAtomicScaleUpToMax = FALSE
  ForceDeleteLongUnregisteredNodes = TRUE
  TurnsTo = {"unready", "suspended"}
  Interleaved = {"idle", "unregistered"}
  MaxLosses = 1
  MaxFailures = 0
  MaxScaleUps = 1
  MaxRestarts = 1
SPECIFICATION Spec
PROPERTY RemovalRespectsProvisionTime
