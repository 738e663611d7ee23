SPECIFICATION SimulationSpec
CONSTANTS
    n1 = n1
    n2 = n2
    n3 = n3
    u1 = u1
    e1 = e1
    e2 = e2
    s1 = s1
    s2 = s2
    web1 = web1
    web2 = web2
    job = job
    old = old
    evicted = evicted
    ds = ds
    c1 = c1
    c2 = c2
    c3 = c3
    pdb = pdb
    Nil = Nil
    Unknown = Unknown
    Nodes <- MCNodes
    Pods <- MCPods
    ClaimIds <- MCClaimIds
    ClaimsOf <- MCClaimsOf
    OwnerOf <- MCOwnerOf
    MaxReservations = 2
    MaxPods <- MCMaxPods
    DevicesOn <- MCDevicesOn
    HostSpread <- MCHostSpread
    Facts <- MCFacts
    Selects <- MCSelects
    SkipNodesWithSystemPods = TRUE
    SkipNodesWithLocalStorage = TRUE
    SkipNodesWithCustomControllerPods = FALSE
    Priority <- MCPriority
    Template <- MCTemplate
    MaxPodsPerOwnerRef = 10
    NewNodes <- MCNewNodes
    SalvoNodes <- MCSalvoNodes
    TemplatePods <- MCTemplatePods
    MaxNodesPerScaleUp = 2
    MaxNodesTotal = 5
    Worlds <- MCWorlds
    MaxLoops = 2
    MaxEstimates = 2
    ExpendablePodsPriorityCutoff = 0
    GracefulDegradationEnabled = TRUE
INVARIANTS SimulationsAreSound 
PROPERTIES SimulationsAreUndone PlannerForgetsNothing
CHECK_DEADLOCK FALSE
