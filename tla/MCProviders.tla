------------------------------ MODULE MCProviders ------------------------------
(* The cloud providers behind one interface (NewCloudProvider, cloudprovider/builder): the flag      *)
(* --cloud-provider chooses one for the life of the process, so the run starts with a choice of the *)
(* provider and of a start of it, and the state of the others stays unused.  The properties are     *)
(* what the core relies on whatever the provider is.                                                *)
EXTENDS Integers, FiniteSets

VARIABLES provider,
          vm, target, exists, th, phase, left, recent, excused,
          gc, todo, bulk, listed, raced,                               \* GCE
          cap, etag, deployments, ac, obj, gs, mgrAge, puts, opt,      \* Azure
          res, inf, held,                                              \* Cluster API
          nodeGroupsCache, nodeGroupForNodeCache, attributed,          \* external gRPC
          lister                                                       \* KWOK

gceOnly == <<gc, todo, bulk, listed, raced>>
azureOnly == <<cap, etag, deployments, ac, obj, gs, mgrAge, puts, opt>>
capiOnly == <<res, inf, held>>
grpcOnly == <<nodeGroupsCache, nodeGroupForNodeCache, attributed>>
vars == <<provider, vm, target, exists, th, phase, left, recent, excused, gceOnly, azureOnly, capiOnly, grpcOnly, lister>>

Running(names, run) == [i \in names |-> IF i \in run THEN "running" ELSE "none"]

\* GCE: a MIG, and an auto-discovered one whose base name starts with the base name of the first
GceMigs == {"a", "ab"}
GceNames == {"a1", "a2", "a3", "a4", "b1"}
GceNone == [fault |-> 0, increase |-> 0, decrease |-> 0, delete |-> 0, regen |-> 0, user |-> 0]
GceBase == [exists |-> GceMigs, vm |-> Running(GceNames, {"a1", "b1"}), target |-> [m \in GceMigs |-> 1],
            bulk |-> FALSE, left |-> GceNone]
GceAlone == [GceBase EXCEPT !.exists = {"a"}, !.target["ab"] = 0, !.vm["b1"] = "none"]
GceScenarios ==
    {[GceBase EXCEPT !.bulk = TRUE, !.left.regen = 1],
     [GceBase EXCEPT !.left.increase = 2],
     [GceBase EXCEPT !.bulk = TRUE, !.left.increase = 1, !.left.fault = 1],
     [GceAlone EXCEPT !.left.increase = 1, !.left.fault = 1],
     [GceAlone EXCEPT !.left.delete = 1, !.left.fault = 1],
     [GceBase EXCEPT !.target["a"] = 2, !.left.decrease = 1],
     [GceAlone EXCEPT !.left.user = 2],
     [GceAlone EXCEPT !.left.regen = 1, !.left.delete = 1]}
Gce == INSTANCE GceManager WITH
    Migs <- GceMigs, Names <- GceNames, Zone <- [m \in GceMigs |-> "z"],
    Owner <- [i \in GceNames |-> IF i = "b1" THEN "ab" ELSE "a"],
    Matches <- [i \in GceNames |-> IF i = "b1" THEN GceMigs ELSE {"a"}], Unlabelled <- {"a2"},
    MinSize <- [m \in GceMigs |-> IF m = "a" THEN 0 ELSE 1], MaxSize <- [m \in GceMigs |-> IF m = "a" THEN 2 ELSE 1],
    Explicit <- {"a"}, Deltas <- 1..2, CreateLimit <- 1, Scenarios <- GceScenarios

\* Azure: a uniform scale set, a flexible one on spot machines that is discovered by its tags, an
\* agent pool of a deployment, and a pool of virtual machines
AzureGroups == {"s", "f", "p", "v"}
AzureOwner == [i \in {"s1", "s2", "s3", "f1", "f2", "p1", "p2", "v1", "v2"} |->
                 CASE i \in {"s1", "s2", "s3"} -> "s" [] i \in {"f1", "f2"} -> "f"
                   [] i \in {"p1", "p2"} -> "p" [] OTHER -> "v"]
AzureIndex(i) == IF i \in {"s1", "f1", "p1", "v1"} THEN 1 ELSE IF i \in {"s2", "f2", "p2", "v2"} THEN 2 ELSE 3
AzureNone == [fault |-> 0, fail |-> 0, replace |-> 0, IncreaseSize |-> 0, AtomicIncreaseSize |-> 0, decrease |-> 0, delete |-> 0, user |-> 0, spoil |-> 0, update |-> 0]
AzureOpt == [vmType |-> "vmss", explicit |-> {"s"}, pools |-> {}, etag |-> TRUE, strict |-> FALSE, others |-> {"s"}]
AzureStart(run, caps, o) ==
    [vm |-> Running(DOMAIN AzureOwner, run), cap |-> [g \in AzureGroups |-> IF g \in DOMAIN caps THEN caps[g] ELSE -1],
     opt |-> o, left |-> AzureNone]
ScaleSet == AzureStart({"s1"}, [g \in {"s"} |-> 1], AzureOpt)
SpotSet == AzureStart({"f1"}, [g \in {"f"} |-> 1], [AzureOpt EXCEPT !.explicit = {}, !.others = {"f"}])
AgentPool == AzureStart({"p1"}, << >>, [AzureOpt EXCEPT !.vmType = "standard", !.explicit = {"p"}])
VMPool == AzureStart({"v1"}, << >>, [AzureOpt EXCEPT !.pools = {"v"}, !.explicit = {"v"}])
AzureStarts ==
    {[ScaleSet EXCEPT !.left.AtomicIncreaseSize = 1, !.left.user = 1, !.left.fail = 1],
     [ScaleSet EXCEPT !.left.IncreaseSize = 1, !.left.fail = 1],
     [ScaleSet EXCEPT !.left.IncreaseSize = 1, !.left.spoil = 1],
     [ScaleSet EXCEPT !.left.decrease = 1, !.left.fault = 1, !.left.update = 1],
     [ScaleSet EXCEPT !.left.delete = 1, !.left.fail = 1],
     [ScaleSet EXCEPT !.vm["s1"] = "failed", !.left.delete = 1],
     [ScaleSet EXCEPT !.left.delete = 1, !.opt.strict = TRUE],
     [SpotSet EXCEPT !.left.replace = 1, !.left.delete = 1],
     [SpotSet EXCEPT !.cap["f"] = 0, !.vm["f1"] = "none", !.left.user = 1, !.left.IncreaseSize = 1],
     [AgentPool EXCEPT !.left.IncreaseSize = 2, !.left.decrease = 1],
     [AgentPool EXCEPT !.left.IncreaseSize = 1, !.left.fail = 1, !.left.delete = 1],
     [VMPool EXCEPT !.left.delete = 1, !.left.IncreaseSize = 1, !.left.fail = 1, !.left.decrease = 1]}
Azure == INSTANCE AzureManager WITH
    Groups <- AzureGroups, Names <- DOMAIN AzureOwner, Owner <- AzureOwner,
    Kind <- [g \in AzureGroups |-> CASE g \in {"s", "f"} -> "vmss" [] g = "p" -> "standard" [] g = "v" -> "vms"],
    Index <- [i \in DOMAIN AzureOwner |-> AzureIndex(i)], Flexible <- {"f"}, Spot <- {"f"}, Auto <- {"f"},
    MinSize <- [g \in AzureGroups |-> IF g = "p" THEN 1 ELSE 0], MaxSize <- [g \in AzureGroups |-> IF g = "f" THEN 1 ELSE 2], Deltas <- {1},
    RefreshPeriod <- 1, SpotPeriod <- 1, PoolPeriod <- 1, InstancesPeriod <- 1, MaxDeployments <- 1, Starts <- AzureStarts

\* Cluster API: a machine deployment, one of whose machines gets no provider ID, and a machine pool
CapiGroups == {"d", "q"}
CapiOwner == [n \in {"d1", "d2", "d3", "q1", "q2"} |-> IF n \in {"q1", "q2"} THEN "q" ELSE "d"]
CapiNone == [fault |-> 0, IncreaseSize |-> 0, DecreaseTargetSize |-> 0, delete |-> 0, unregistered |-> 0,
             resize |-> 0, pause |-> 0, roll |-> 0, spoil |-> 0]
CapiStart(run) == [replicas |-> [g \in CapiGroups |-> Cardinality({n \in run : CapiOwner[n] = g})],
                   vm |-> Running(DOMAIN CapiOwner, run), left |-> CapiNone]
CapiStarts ==
    {[CapiStart({"d1", "d2"}) EXCEPT !.left.delete = 1, !.left.fault = 1],
     [CapiStart({"d1"}) EXCEPT !.left.IncreaseSize = 1, !.left.resize = 1],
     [CapiStart({"d1"}) EXCEPT !.left.IncreaseSize = 1, !.left.fault = 1],
     [CapiStart({"d1"}) EXCEPT !.left.IncreaseSize = 1, !.left.spoil = 1, !.left.unregistered = 1],
     [CapiStart({"d1"}) EXCEPT !.left.delete = 1, !.left.pause = 1],
     [CapiStart({"d1"}) EXCEPT !.left.delete = 1, !.left.roll = 1],
     [CapiStart({"d1"}) EXCEPT !.replicas["d"] = 2, !.left.DecreaseTargetSize = 1, !.left.unregistered = 1],
     [CapiStart({"q1"}) EXCEPT !.left.delete = 1, !.left.IncreaseSize = 1]}
Capi == INSTANCE ClusterApi WITH
    Groups <- CapiGroups, Names <- DOMAIN CapiOwner, Owner <- CapiOwner, NoProviderId <- {"d2"},
    Kind <- [g \in CapiGroups |-> IF g = "d" THEN "MachineDeployment" ELSE "MachinePool"],
    MinSize <- [g \in CapiGroups |-> 0], MaxSize <- [g \in CapiGroups |-> IF g = "d" THEN 2 ELSE 1], FromZero <- {"d"}, Allowed <- CapiGroups,
    Starts <- CapiStarts

\* External gRPC: two groups, one of which may come and go
GrpcGroups == {"g", "h"}
GrpcNames == {"g1", "g2", "h1"}
GrpcBase == [vm |-> Running(GrpcNames, {"g1", "h1"}), target |-> [x \in GrpcGroups |-> 1], exists |-> GrpcGroups,
             left |-> [fault |-> 0, late |-> 0, lookup |-> 0, IncreaseSize |-> 0, DecreaseTargetSize |-> 0, delete |-> 0, user |-> 0]]
GrpcStarts ==
    {[GrpcBase EXCEPT !.left.fault = 1, !.left.user = 2, !.left.lookup = 1],
     [GrpcBase EXCEPT !.left.IncreaseSize = 1, !.left.delete = 1, !.left.late = 1],
     [GrpcBase EXCEPT !.left.delete = 1, !.left.late = 1, !.left.user = 1],
     [GrpcBase EXCEPT !.left.delete = 1, !.left.fault = 1],
     [GrpcBase EXCEPT !.target["g"] = 2, !.left.DecreaseTargetSize = 1, !.left.fault = 1]}
Grpc == INSTANCE ExternalGrpc WITH
    Groups <- GrpcGroups, Names <- GrpcNames, Owner <- [n \in GrpcNames |-> IF n = "h1" THEN "h" ELSE "g"],
    MinSize <- [x \in GrpcGroups |-> 0], MaxSize <- [x \in GrpcGroups |-> IF x = "g" THEN 2 ELSE 1], Starts <- GrpcStarts

\* KWOK: one of the template nodes of a group is a real node that carries the group's label
KwokGroups == {"g", "h"}
KwokNames == {"k1", "k2", "k3", "k4", "r"}
KwokBase == [nodes |-> {"r", "k1"}, left |-> [fault |-> 0, IncreaseSize |-> 0, DecreaseTargetSize |-> 0, delete |-> 0, user |-> 0]]
KwokStarts ==
    {[KwokBase EXCEPT !.left.fault = 1, !.left.IncreaseSize = 1, !.left.delete = 1],
     [KwokBase EXCEPT !.left.delete = 1, !.left.user = 1],
     [KwokBase EXCEPT !.left.IncreaseSize = 1, !.left.DecreaseTargetSize = 1, !.left.user = 1]}
Kwok == INSTANCE Kwok WITH
    Groups <- KwokGroups, Names <- KwokNames, NGName <- [n \in KwokNames |-> IF n = "k4" THEN "h" ELSE "g"],
    Managed <- KwokNames \ {"r"}, Templates <- [x \in KwokGroups |-> IF x = "g" THEN {"r", "k1"} ELSE {"k4"}],
    DesiredSize <- [x \in KwokGroups |-> IF x = "g" THEN 1 ELSE 0], MinSize <- [x \in KwokGroups |-> 0],
    MaxSize <- [x \in KwokGroups |-> IF x = "g" THEN 3 ELSE 1], Starts <- KwokStarts
-----------------------------------------------------------------------------
Off == "unused"
GceOff == gc = Off /\ todo = Off /\ bulk = Off /\ listed = Off /\ raced = Off
AzureOff == /\ cap = Off /\ etag = Off /\ deployments = Off /\ ac = Off /\ obj = Off /\ gs = Off
            /\ mgrAge = Off /\ puts = Off /\ opt = Off
CapiOff == res = Off /\ inf = Off /\ held = Off
GrpcOff == nodeGroupsCache = Off /\ nodeGroupForNodeCache = Off /\ attributed = Off
ServiceOff == target = Off /\ exists = Off /\ recent = Off

Init ==
    \/ provider = "gce" /\ Gce!Init /\ excused = Off /\ AzureOff /\ CapiOff /\ GrpcOff /\ lister = Off
    \/ provider = "azure" /\ Azure!Init /\ excused = Off /\ ServiceOff /\ GceOff /\ CapiOff /\ GrpcOff /\ lister = Off
    \/ provider = "clusterapi" /\ Capi!Init /\ ServiceOff /\ GceOff /\ AzureOff /\ GrpcOff /\ lister = Off
    \/ provider = "externalgrpc" /\ Grpc!Init /\ excused = Off /\ GceOff /\ AzureOff /\ CapiOff /\ lister = Off
    \/ provider = "kwok" /\ Kwok!Init /\ exists = Off /\ recent = Off /\ GceOff /\ AzureOff /\ CapiOff /\ GrpcOff

GceKeeps == UNCHANGED <<provider, excused, azureOnly, capiOnly, grpcOnly, lister>>
AzureKeeps == UNCHANGED <<provider, target, exists, recent, excused, gceOnly, capiOnly, grpcOnly, lister>>
CapiKeeps == UNCHANGED <<provider, target, exists, recent, gceOnly, azureOnly, grpcOnly, lister>>
GrpcKeeps == UNCHANGED <<provider, excused, gceOnly, azureOnly, capiOnly, lister>>
KwokKeeps == UNCHANGED <<provider, exists, recent, gceOnly, azureOnly, capiOnly, grpcOnly>>
Next ==
    \/ provider = "gce" /\ Gce!Next /\ GceKeeps
    \/ provider = "azure" /\ Azure!Next /\ AzureKeeps
    \/ provider = "clusterapi" /\ Capi!Next /\ CapiKeeps
    \/ provider = "externalgrpc" /\ Grpc!Next /\ GrpcKeeps
    \/ provider = "kwok" /\ Kwok!Next /\ KwokKeeps

\* The loop goes on.  So do the other goroutines, the informers and the cloud: none of them can
\* take infinitely many steps without a new event, so one condition for all is as good as one each.
MainStep ==
    \/ provider = "gce" /\ (Gce!LoopStep \/ Gce!ThreadStep("main")) /\ GceKeeps
    \/ provider = "azure" /\ Azure!MainStep /\ AzureKeeps
    \/ provider = "clusterapi" /\ Capi!MainStep /\ CapiKeeps
    \/ provider = "externalgrpc" /\ Grpc!MainStep /\ GrpcKeeps
    \/ provider = "kwok" /\ Kwok!MainStep /\ KwokKeeps
OtherStep ==
    \/ provider = "gce" /\ (Gce!ThreadStep("deleter") \/ Gce!ThreadStep("regen") \/ Gce!CloudMoves) /\ GceKeeps
    \/ provider = "azure" /\ (Azure!DeleterStep \/ Azure!WaiterStep \/ Azure!PutStep \/ Azure!CloudMoves) /\ AzureKeeps
    \/ provider = "clusterapi" /\ (Capi!DeleterStep \/ Capi!ControllersMove \/ Capi!InformersFollow) /\ CapiKeeps
    \/ provider = "externalgrpc" /\ (Grpc!DeleteNodes \/ Grpc!ServiceMoves) /\ GrpcKeeps
    \/ provider = "kwok" /\ (Kwok!DeleterStep \/ Kwok!ListerFollows) /\ KwokKeeps
\* time passes although loops are quick: what has a period expires again and again
TimePasses ==
    \/ provider = "gce" /\ Gce!Refresh(TRUE) /\ GceKeeps
    \/ provider = "azure" /\ Azure!Tick /\ AzureKeeps
Fairness == WF_vars(MainStep) /\ WF_vars(OtherStep) /\ SF_vars(TimePasses)
Spec == Init /\ [][Next]_vars /\ Fairness
-----------------------------------------------------------------------------
\* No call takes a node group above its maximum size, whatever the size in the provider's cache is
\* worth and whichever calls overlap, but for the overlaps the modules name (IncreaseSize,
\* AtomicIncreaseSize and SetSize of every provider).  And what a provider has cached was true at some
\* time since the last Refresh: no answer outlives the loop it was given in (Refresh, which "is called
\* before every main loop").
SizesAreSound ==
    CASE provider = "gce" -> Gce!MaxSizeKept /\ Gce!SizesAreRecent
      [] provider = "azure" -> Azure!MaxSizeKept
      [] provider = "clusterapi" -> Capi!MaxSizeKept
      [] provider = "externalgrpc" -> Grpc!AnswersAreRecent
      [] provider = "kwok" -> Kwok!MaxSizeKept

\* A change of a group's size takes no machine that works and that no DeleteNodes named: decreasing
\* only gives up what is not there yet (DecreaseTargetSize, whose interface doc says "This function
\* doesn't permit to delete any existing node"), and increasing never writes a size over a larger
\* one set meanwhile.
MachinesKept ==
    [][/\ provider = "gce" => Gce!KeepsMachines
       /\ provider = "azure" => Azure!KeepsMachines
       /\ provider = "clusterapi" => Capi!KeepsMachines]_vars

\* Sizes the provider reports are what the cloud has (TargetSize after Refresh).
SizesAgree == CASE provider = "azure" -> Azure!SizesAgree [] provider = "kwok" -> Kwok!SizesAgree [] OTHER -> TRUE

\* machines of each provider that appear, stay or go, numbered
Machines ==
    CASE provider = "gce" -> <<"a1", "a2", "a3", "b1">>
      [] provider = "azure" -> <<"s2", "f1", "p2", "v1">>
      [] provider = "clusterapi" -> <<"d1", "d2", "d3", "q1">>
      [] provider = "externalgrpc" -> <<"g1", "g2", "h1">>
      [] OTHER -> << >>
Runs(i) ==
    CASE provider = "gce" -> Gce!Runs(i) [] provider = "azure" -> Azure!Runs(i)
      [] provider = "clusterapi" -> Capi!Runs(i) [] provider = "externalgrpc" -> Grpc!Runs(i)
Recognised(i) ==
    CASE provider = "gce" -> Gce!Recognised(i) [] provider = "azure" -> Azure!Recognised(i)
      [] provider = "clusterapi" -> Capi!Recognised(i) [] provider = "externalgrpc" -> Grpc!Recognised(i)
\* Once nothing happens any more, the sizes the provider reports become what the cloud has and stay
\* it, whatever failed or raced before; and a node whose machine keeps running is attributed to its node
\* group again and again, whatever the caches and informers held in between (NodeGroupForNode, Nodes and
\* HasInstance).
ProvidersConverge ==
    /\ <>[]SizesAgree
    /\ \A k \in 1..4 : <>[](k \in DOMAIN Machines /\ Runs(Machines[k])) => []<>(k \in DOMAIN Machines /\ Recognised(Machines[k]))
=============================================================================
