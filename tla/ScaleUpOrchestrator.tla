------------------------- MODULE ScaleUpOrchestrator -------------------------
(***************************************************************************)
(* The scale-up half of an autoscaler loop: ScaleUpOrchestrator.ScaleUp,   *)
(* repeated by the salvo of StaticAutoscaler, ScaleUpToNodeGroupMinSize at *)
(* the end of the loop, and the executor that raises the groups of a plan  *)
(* one after the other or in parallel, any of which may fail, while the    *)
(* goroutines of an earlier scale-down go on shrinking groups.             *)
(*                                                                         *)
(* The loop takes its list of nodes once, from a snapshot that holds the   *)
(* registered and the upcoming nodes: a count per group equal to the       *)
(* target size (ClusterStateLoop.tla models how the two come apart).  The  *)
(* salvo adds the nodes it asked for to the list; the scale-up to the      *)
(* minimal sizes gets the list as it was.                                  *)
(***************************************************************************)
EXTENDS Integers, FiniteSets, Sequences, FiniteSetsExt, SequencesExt

CONSTANTS
    Groups,     \* the node groups
    MaxSize,    \* MaxSize[g]: the maximal size of g
    MaxMaxSize  \* no group's maximal size is above it

ASSUME GroupsAssumption ==
    /\ IsFiniteSet(Groups)
    /\ MaxMaxSize \in Nat
    /\ MaxSize \in [Groups -> 0..MaxMaxSize]

\* No group that grew from size to new is more than one node ahead of a group of
\* the same scale-up that still had room.
EvenlySpread(groups, size, new) ==
    \A g, h \in groups : new[g] > size[g] /\ new[h] < MaxSize[h] => new[g] <= new[h] + 1

-----------------------------------------------------------------------------
(***************************************************************************)
(* How the orchestrator plans one scale-up: the quota tracker              *)
(* (resourcequotas/tracker.go, factory.go), the limits of the estimator    *)
(* (estimator/*_threshold.go, threshold_based_limiter.go), the filter of   *)
(* node groups, the expansion option, and the capping of the balanced plan *)
(* (core/scaleup/orchestrator/orchestrator.go).  These are functions of    *)
(* the sizes the cloud provider reports (target), of the nodes in the      *)
(* cluster snapshot (nodes, a count per group) and of the groups that the  *)
(* cluster state registry holds back (unsafe).                             *)
(*                                                                         *)
(* A pending pod needs a fixed part of a node, so the pods are a number of *)
(* nodes `need'.  A quota limits one resource, of which a node of group g  *)
(* holds NodeResources[g].  All node groups exist.                         *)
(***************************************************************************)
CONSTANTS
    Class,              \* Class[g]: groups of one class are similar and run the same pods
    ZeroOrMax,          \* groups with ZeroOrMaxNodeScaling
    Quotas,             \* the quotas
    AppliesTo,          \* AppliesTo[q]: the groups whose nodes match q
    Limit,              \* Limit[q]
    NodeResources,      \* NodeResources[g]: what a node of g holds
    MaxNodesTotal,      \* 0: no limit
    MaxNodesPerScaleUp, \* 0: no limit
    BalanceSimilarNodeGroups

ASSUME PlanAssumption ==
    /\ ZeroOrMax \subseteq Groups
    /\ AppliesTo \in [Quotas -> SUBSET Groups]
    /\ Limit \in [Quotas -> Nat]
    /\ NodeResources \in [Groups -> Nat]
    /\ MaxNodesTotal \in Nat
    /\ MaxNodesPerScaleUp \in Nat
    /\ BalanceSimilarNodeGroups \in BOOLEAN

Total(count) == MapThenSumSet(LAMBDA g : count[g], Groups)

Usage(q, count) == MapThenSumSet(LAMBDA g : count[g] * NodeResources[g], AppliesTo[q])

-----------------------------------------------------------------------------
\* The quota tracker.

\* What every quota has left, given the nodes of the snapshot.
NewMaxQuotasTracker(nodes) == [q \in Quotas |-> Max({0, Limit[q] - Usage(q, nodes)})]

\* What refusing nodes altogether where not all fit would do.
CheckQuotaAllOrNone(limitsLeft, g, n) ==
    IF \E q \in Quotas : g \in AppliesTo[q] /\ limitsLeft[q] < NodeResources[g] * n
    THEN 0 ELSE n

\* How many of n nodes of g the quotas allow.
CheckQuota(limitsLeft, g, n) ==
    Min({n} \cup {limitsLeft[q] \div NodeResources[g] :
                    q \in {q \in Quotas : /\ g \in AppliesTo[q]
                                          /\ NodeResources[g] > 0
                                          /\ limitsLeft[q] < NodeResources[g] * n}})

\* What is left after n nodes of g, all of them or none.
ConsumeQuota(limitsLeft, g, n) ==
    IF CheckQuota(limitsLeft, g, n) # n THEN limitsLeft
    ELSE [q \in Quotas |-> IF g \in AppliesTo[q]
                           THEN Max({0, limitsLeft[q] - n * NodeResources[g]})
                           ELSE limitsLeft[q]]

IsNodeGroupResourceExceeded(limitsLeft, g, n) == CheckQuota(limitsLeft, g, n) < n

-----------------------------------------------------------------------------
\* Limits.

\* The number of nodes, capped by the limit on the cluster; below one it is an error.
GetCappedNewNodeCount(n, currentNodeCount) ==
    IF MaxNodesTotal > 0 /\ n + currentNodeCount > MaxNodesTotal
    THEN MaxNodesTotal - currentNodeCount
    ELSE n

Capacity(g, target) == Max({0, MaxSize[g] - target[g]})

\* How many nodes the estimator finds for the pods in g: what they need, up to the
\* static limit, the capacity of g and its similar groups, and the cluster limit.
Estimate(need, g, similar, target, nodes) ==
    LET capacity == MapThenSumSet(LAMBDA h : Capacity(h, target), {g} \cup similar)
        room == MaxNodesTotal - Total(nodes)
    IN  IF capacity <= 0 \/ (MaxNodesTotal > 0 /\ room <= 0) THEN 0
        ELSE Min({need, capacity}
                 \cup (IF MaxNodesPerScaleUp > 0 THEN {MaxNodesPerScaleUp} ELSE {})
                 \cup (IF MaxNodesTotal > 0 THEN {room} ELSE {}))

\* The groups that may be scaled up: safe, below their maximal size, and within the
\* quotas and, where only a scale-up to the maximal size counts, the cluster limit.
filterValidScaleUpNodeGroups(target, nodes, unsafe, limitsLeft) ==
    {g \in Groups \ unsafe :
        LET numNodes == IF g \in ZeroOrMax THEN MaxSize[g] - target[g] ELSE 1 IN
        /\ target[g] < MaxSize[g]
        /\ g \in ZeroOrMax /\ MaxNodesTotal # 0 => Total(nodes) + numNodes <= MaxNodesTotal
        /\ ~IsNodeGroupResourceExceeded(limitsLeft, g, numNodes)}

\* The valid groups that can take the same pods as g.
ComputeSimilarNodeGroups(g, valid) ==
    {h \in valid \ {g} : BalanceSimilarNodeGroups /\ g \notin ZeroOrMax /\ Class[h] = Class[g]}

\* The nodes an option asks for, 0 where the group is no option.
ComputeExpansionOption(need, g, similar, target, nodes, allOrNothing) ==
    LET count == Estimate(need, g, similar, target, nodes) IN
    CASE count = 0 \/ (allOrNothing /\ count < need) -> 0
      [] g \in ZeroOrMax -> IF allOrNothing /\ count > MaxSize[g] THEN 0 ELSE MaxSize[g]
      [] OTHER -> count

-----------------------------------------------------------------------------
\* The plan: how many nodes every group gets.

NoNodes == [g \in Groups |-> 0]

\* The outcomes of BalanceScaleUpBetweenGroups: n nodes, or as many as there is room
\* for, handed out evenly (StaysLevel in BalanceScaleUp.tla).
BalanceScaleUpBetweenGroups(groups, n, target) ==
    LET capacity == MapThenSumSet(LAMBDA g : Capacity(g, target), groups)
        Size(delta) == [g \in Groups |-> target[g] + delta[g]]
    IN  {delta \in [Groups -> 0..MaxMaxSize] :
            /\ \A g \in Groups \ groups : delta[g] = 0
            /\ \A g \in groups : delta[g] <= Capacity(g, target)
            /\ Total(delta) = Min({n, capacity})
            /\ EvenlySpread(groups, target, Size(delta))}

\* Every group of the plan is capped in turn by what the ones before it left.
capScaleUpsByQuota(order, delta, limitsLeft) ==
    FoldLeft(LAMBDA acc, g :
                LET allowed == CheckQuota(acc.left, g, delta[g]) IN
                [plan |-> [acc.plan EXCEPT ![g] = allowed],
                 left |-> IF allowed > 0 THEN ConsumeQuota(acc.left, g, allowed) ELSE acc.left],
             [plan |-> NoNodes, left |-> limitsLeft],
             order).plan

\* The plans balanceScaleUps may arrive at for n nodes with g as the best option.
balanceScaleUps(g, n, valid, target, limitsLeft) ==
    LET targetNodeGroups == {g} \cup {h \in ComputeSimilarNodeGroups(g, valid) :
                                        ~IsNodeGroupResourceExceeded(limitsLeft, h, 1)}
    IN  UNION {{capScaleUpsByQuota(order, delta, limitsLeft) :
                    order \in SetToSeqs({h \in Groups : delta[h] > 0})} :
               delta \in BalanceScaleUpBetweenGroups(targetNodeGroups, n, target)}

\* The plan for groups below their minimal size.  Every group is checked against
\* the same limits, and its own size is passed as the number of nodes to the cap.
MinSizePlan(minSize, target, nodes, unsafe) ==
    LET limitsLeft == NewMaxQuotasTracker(nodes)
        Below == {g \in Groups \ unsafe : /\ target[g] < minSize[g]
                                          /\ ~IsNodeGroupResourceExceeded(limitsLeft, g, 1)}
        Capped(g) == GetCappedNewNodeCount(CheckQuota(limitsLeft, g, minSize[g] - target[g]),
                                           target[g])
    IN  [g \in Groups |-> IF g \in Below /\ Capped(g) >= 1 THEN Capped(g) ELSE 0]

-----------------------------------------------------------------------------
CONSTANTS
    MinSize,                    \* MinSize[g]
    ParallelScaleUp,
    SalvoScaleUp,
    EnforceNodeGroupMinSize,
    Modes,                      \* the values of allOrNothing callers pass
    Needs,                      \* how many nodes pending pods may need
    MaxDisturbances             \* bound on failures, deletions and new pods

ASSUME OrchestratorAssumption ==
    /\ MinSize \in [Groups -> Nat]
    /\ \A g \in Groups : MinSize[g] <= MaxSize[g]
    /\ Modes \subseteq BOOLEAN
    /\ Needs \subseteq Nat \ {0}
    /\ MaxDisturbances \in Nat

VARIABLES
    target,         \* target[g]: the size the cloud provider is asked for
    unsafe,         \* groups the registry holds back after a failed scale-up
    need,           \* nodes the pending pods still need
    pc, phase,      \* the step of the loop; whether "up" or "min" is executed
    nodes,          \* nodes per group in the loop's list
    allOrNothing,   \* the mode of the call
    plan,           \* scaleUpInfos: nodes to add per group
    handled,        \* the part of the need that the best option's pods are
    todo,           \* groups of the plan not executed yet
    failedGroups,   \* the groups reported as failed
    asked, increased, \* history: need when planned; the groups really increased
    minRaised,      \* history: a group was raised to its minimal size
    disturbances

vars == <<target, unsafe, need, pc, phase, nodes, allOrNothing, plan, handled, todo,
          failedGroups, asked, increased, minRaised, disturbances>>

Planned == {g \in Groups : plan[g] > 0}

Init ==
    /\ target \in {size \in [Groups -> 0..MaxMaxSize] :
                    /\ \A g \in Groups : size[g] <= MaxSize[g]
                    /\ \A g \in ZeroOrMax : size[g] \in {0, MaxSize[g]}
                    /\ MaxNodesTotal > 0 => Total(size) <= MaxNodesTotal
                    /\ \A q \in Quotas : Usage(q, size) <= Limit[q]}
    /\ unsafe = {} /\ need = 0 /\ asked = 0
    /\ pc = "idle" /\ phase = "up"
    /\ nodes = NoNodes /\ plan = NoNodes /\ handled = 0
    /\ allOrNothing = FALSE
    /\ todo = {} /\ failedGroups = {} /\ increased = {} /\ minRaised = FALSE
    /\ disturbances = 0

Disturb == disturbances < MaxDisturbances /\ disturbances' = disturbances + 1

\* A loop begins: the list of nodes is taken from the snapshot.
StartLoop ==
    /\ pc = "idle"
    /\ pc' = "up"
    /\ nodes' = target
    /\ allOrNothing' \in Modes
    /\ UNCHANGED <<target, unsafe, need, phase, plan, handled, todo, failedGroups, asked,
                   increased, minRaised, disturbances>>

\* The executor starts on a plan.
Execute(newPlan, newPhase, pods) ==
    /\ pc' = "execute"
    /\ phase' = newPhase
    /\ plan' = newPlan
    /\ handled' = pods
    /\ todo' = {g \in Groups : newPlan[g] > 0}
    /\ failedGroups' = {} /\ increased' = {}
    /\ asked' = need
    /\ minRaised' = (minRaised \/ newPhase = "min")

GiveUp ==
    /\ pc' = "min"
    /\ UNCHANGED <<phase, plan, handled, todo, failedGroups, increased, asked, minRaised>>

\* ScaleUp, up to the executor: some option is the best one, its node count is
\* capped by the cluster limit, then by the quotas, then balanced.
ScaleUp ==
    /\ pc = "up"
    /\ LET limitsLeft == NewMaxQuotasTracker(nodes)
           valid == filterValidScaleUpNodeGroups(target, nodes, unsafe, limitsLeft)
           NodeCount(g) == ComputeExpansionOption(need, g, ComputeSimilarNodeGroups(g, valid),
                                                  target, nodes, allOrNothing)
           options == {g \in valid : need > 0 /\ NodeCount(g) > 0}
       IN  \/ options = {} /\ GiveUp
           \/ \E g \in options :
                LET capped == GetCappedNewNodeCount(NodeCount(g), Total(nodes))
                    newNodes == CheckQuota(limitsLeft, g, capped)
                    pods == Estimate(need, g, ComputeSimilarNodeGroups(g, valid), target, nodes)
                IN  IF capped < 1 \/ (allOrNothing /\ newNodes < NodeCount(g))
                    THEN GiveUp
                    ELSE \E infos \in balanceScaleUps(g, newNodes, valid, target, limitsLeft) :
                            IF allOrNothing /\ Total(infos) < newNodes
                            THEN GiveUp
                            ELSE Execute(infos, "up", pods)
    /\ UNCHANGED <<target, unsafe, need, nodes, allOrNothing, disturbances>>

\* A failed group; without parallel scale-ups also those that were still to come.
buildFailedGroupsMap(g) == IF ParallelScaleUp THEN {g} ELSE todo

\* The group is raised by the planned number, and pods get their nodes.
executeScaleUp(g) ==
    /\ pc = "execute" /\ g \in todo
    /\ target' = [target EXCEPT ![g] = @ + plan[g]]
    /\ need' = Max({0, need - plan[g]})
    /\ todo' = todo \ {g}
    /\ increased' = increased \cup {g}
    /\ UNCHANGED <<unsafe, pc, phase, nodes, allOrNothing, plan, handled, failedGroups, asked,
                   minRaised, disturbances>>

\* The cloud provider refuses: the group is backed off and, without parallel
\* scale-ups, the rest of the plan is dropped.
executeScaleUpFails(g) ==
    /\ pc = "execute" /\ g \in todo
    /\ Disturb
    /\ unsafe' = unsafe \cup {g}
    /\ failedGroups' = failedGroups \cup buildFailedGroupsMap(g)
    /\ todo' = IF ParallelScaleUp THEN todo \ {g} ELSE {}
    /\ UNCHANGED <<target, need, pc, phase, nodes, allOrNothing, plan, handled, asked,
                   increased, minRaised>>

\* The salvo of runScaleUpSalvo goes on after a success if pods are left and those
\* of the best option all fit on the nodes it got.
SalvoGoesOn ==
    /\ SalvoScaleUp /\ phase = "up" /\ ~allOrNothing
    /\ failedGroups = {}
    /\ handled < asked /\ Total(plan) >= handled

\* What a salvo that forgets the nodes it asked for would do.
SalvoNodesForgotten == nodes

\* The list of nodes with those the last scale-up asked for.
SalvoNodes == [g \in Groups |-> nodes[g] + plan[g]]

\* The executor is done.  The salvo goes on within its time budget.
FinishScaleUp ==
    /\ pc = "execute" /\ todo = {}
    /\ \/ /\ SalvoGoesOn
          /\ pc' = "up"
          /\ nodes' = SalvoNodes
       \/ /\ pc' = IF phase = "up" THEN "min" ELSE "idle"
          /\ UNCHANGED nodes
    /\ UNCHANGED <<target, unsafe, need, phase, allOrNothing, plan, handled, todo,
                   failedGroups, asked, increased, minRaised, disturbances>>

\* The end of the loop: groups below their minimal size are raised to it.
ScaleUpToNodeGroupMinSize ==
    /\ pc = "min"
    /\ LET infos == MinSizePlan(MinSize, target, nodes, unsafe)
       IN  IF EnforceNodeGroupMinSize /\ infos # NoNodes
           THEN Execute(infos, "min", 0)
           ELSE pc' = "idle" /\ UNCHANGED <<phase, plan, handled, todo, failedGroups, increased, asked, minRaised>>
    /\ UNCHANGED <<target, unsafe, need, nodes, allOrNothing, disturbances>>

-----------------------------------------------------------------------------
\* The environment.

PodsAppear(n) ==
    /\ need = 0 /\ need' = n
    /\ Disturb
    /\ UNCHANGED <<target, unsafe, pc, phase, nodes, allOrNothing, plan, handled, todo,
                   failedGroups, asked, increased, minRaised>>

BackoffExpires(g) ==
    /\ g \in unsafe /\ unsafe' = unsafe \ {g}
    /\ UNCHANGED <<target, need, pc, phase, nodes, allOrNothing, plan, handled, todo,
                   failedGroups, asked, increased, minRaised, disturbances>>

\* A deletion goroutine removes a node, or all of a group that only scales whole.
NodesDeleted(g) ==
    /\ target[g] > 0
    /\ Disturb
    /\ target' = [target EXCEPT ![g] = IF g \in ZeroOrMax THEN 0 ELSE @ - 1]
    /\ UNCHANGED <<unsafe, need, pc, phase, nodes, allOrNothing, plan, handled, todo,
                   failedGroups, asked, increased, minRaised>>

RunOnce ==
    \/ StartLoop \/ ScaleUp \/ FinishScaleUp \/ ScaleUpToNodeGroupMinSize
    \/ \E g \in Groups : executeScaleUp(g) \/ executeScaleUpFails(g)

Next ==
    \/ RunOnce
    \/ \E n \in Needs : PodsAppear(n)
    \/ \E g \in Groups : BackoffExpires(g) \/ NodesDeleted(g)

Spec == Init /\ [][Next]_vars

\* The loop keeps running (some step of RunOnce is always possible, and a loop has
\* finitely many, so pc keeps changing), and a backoff ends.  Loops with allOrNothing,
\* of provisioning requests, alternate with ordinary ones.
FairSpec ==
    /\ Spec
    /\ []<><<pc' # pc>>_vars
    /\ []<>(pc = "up" /\ ~allOrNothing)
    /\ \A g \in Groups : WF_vars(BackoffExpires(g))

-----------------------------------------------------------------------------

\* Types.
TypeOK ==
    /\ target \in [Groups -> Nat]
    /\ unsafe \subseteq Groups
    /\ need \in Nat /\ asked \in Nat /\ handled \in Nat
    /\ pc \in {"idle", "up", "execute", "min"} /\ phase \in {"up", "min"}
    /\ nodes \in [Groups -> Nat] /\ plan \in [Groups -> Nat]
    /\ allOrNothing \in BOOLEAN
    /\ todo \subseteq Planned /\ failedGroups \subseteq Planned
    /\ increased \subseteq Groups /\ minRaised \in BOOLEAN
    /\ disturbances \in 0..MaxDisturbances

\* No group is raised above its maximal size, although sizes read for the plan may
\* be stale when it is executed (filterValidScaleUpNodeGroups, BalanceScaleUp,
\* executeScaleUp adding a difference).
MaxSizeKept == \A g \in Groups : target[g] <= MaxSize[g]

\* The cluster autoscaler does not grow the cluster beyond --max-nodes-total.
MaxNodesTotalKept == MaxNodesTotal > 0 => Total(target) <= MaxNodesTotal

\* It does not grow it beyond a quota, also when one plan raises several groups or
\* a salvo runs several plans on one list of nodes (capScaleUpsByQuota,
\* addLatestScaleUpResultsToClusterSnapshot).
QuotasKept == \A q \in Quotas : Usage(q, target) <= Limit[q]

\* The three together.  Raising groups to their minimal sizes goes by other caps and
\* exempts a run from the limits over several groups.
LimitsKept == MaxSizeKept /\ (minRaised \/ (MaxNodesTotalKept /\ QuotasKept))

\* When the executor has returned, the groups reported as failed are exactly the
\* groups of the plan that were not raised (buildFailedGroupsMap).
FailuresReported == pc = "execute" /\ todo = {} => failedGroups = Planned \ increased

\* A group with ZeroOrMaxNodeScaling is empty or at its maximal size.
ZeroOrMaxKept == \A g \in ZeroOrMax : target[g] \in {0, MaxSize[g]}

\* What a plan may do to the sizes, and what is told of it.
PlansAreKept == LimitsKept /\ FailuresReported /\ ZeroOrMaxKept

\* No group could take a node even if none were held back.
NoRoom ==
    \/ MaxNodesTotal > 0 /\ Total(target) >= MaxNodesTotal
    \/ filterValidScaleUpNodeGroups(target, target, {}, NewMaxQuotasTracker(target)) = {}

\* Pending pods get their nodes, over as many loops as the caps, failures and
\* backoffs require, unless the limits leave no room.
PodsGetNodes == need > 0 ~> need = 0 \/ NoRoom

\* A quota or the limit on the cluster leaves g no node.
NoRoomIn(g) ==
    \/ MaxNodesTotal > 0 /\ target[g] >= MaxNodesTotal
    \/ IsNodeGroupResourceExceeded(NewMaxQuotasTracker(target), g, 1)

\* A group below its minimal size is raised to it (ScaleUpToNodeGroupMinSize), however
\* often it fails, unless there is no room for it.
MinSizeRestored ==
    \A g \in Groups :
        []<>(~EnforceNodeGroupMinSize \/ target[g] >= MinSize[g] \/ NoRoomIn(g))

\* What is asked for is delivered in the end.
ScaleUpsArrive == PodsGetNodes /\ MinSizeRestored
==============================================================================
