CONSTANTS
    n1 = n1
    n2 = n2
    g1 = g1
    g2 = g2
    Nodes = {n1, n2}
    NodeGroups = {g1, g2}
    GroupOf <- TwoGroups
    MinSize <- MinZero
    UnneededTime = 1
    UnreadyTime = 2
    RecheckTimeout = 2
    MaxScaleDownParallelism = 2
    ScaleDownDelayTypeLocal = TRUE
    ScaleDownDelayAfterAdd = 2
    ScaleDownDelayAfterDelete = 1
    ScaleDownDelayAfterFailure = 1
    MaxBulkSoftTaintCount = 1
    NodeDeletionCandidateTTL = 0
    Longest = 3
    GracefulDegradationEnabled = TRUE
    EnforceNodeGroupMinSize = TRUE
    MayScaleUpInPart = TRUE
    MayFailDeletion = TRUE
    MayRestart = TRUE
    Gaps <- EveryLoop
    LoadsReached <- AllLoads
    MaxDisturbances = 2
SPECIFICATION FairSpec
PROPERTIES  IdleNodesGo
