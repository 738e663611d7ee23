CONSTANTS
    a = a
    b = b
    c = c
    q1 = q1
    q2 = q2
    Groups = {a, b, c}
    MaxSize <- MCMaxSize
    MaxMaxSize = 3
    MinSize <- MCMinSize
    Class <- MCClass
    ZeroOrMax = {c}
    NodeResources <- MCNodeResources
    Quotas = {q1, q2}
    AppliesTo <- MCAppliesTo
    Limit <- MCLimit
    MaxNodesTotal = 6
    MaxNodesPerScaleUp = 2
    BalanceSimilarNodeGroups = TRUE
    ParallelScaleUp = FALSE
    SalvoScaleUp = TRUE
    EnforceNodeGroupMinSize = TRUE
    Modes = {TRUE, FALSE}
    Needs = {1, 2, 4}
    MaxDisturbances = 3
SPECIFICATION FairSpec
 
PROPERTY ScaleUpsArrive
