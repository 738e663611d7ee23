-------------------------- MODULE ClusterStateLoop --------------------------
(***************************************************************************)
(* The registry inside the main loop: the part of StaticAutoscaler.RunOnce *)
(* that repairs node groups (pkg/core/static_autoscaler.go) and the scale- *)
(* up that follows it, interleaved with the cloud, the cluster and the     *)
(* node deletion goroutines.  Every step of the loop is one action; time   *)
(* passes between two iterations.                                          *)
(***************************************************************************)
EXTENDS Integers, FiniteSets

-----------------------------------------------------------------------------
(***************************************************************************)
(* pkg/clusterstate/clusterstate.go: what the autoscaler remembers about   *)
(* its node groups between two iterations of the main loop, together with  *)
(* the cloud and the cluster it observes.                                  *)
(*                                                                         *)
(* Instances are the machines of the cloud; GroupOf says which node group  *)
(* an instance is a member of.  An instance id is used once.  Times are    *)
(* kept as ages: "T.Add(d).Before(now)" of the code is "age > d", and an   *)
(* age stops growing once it is past every bound it is compared with.      *)
(***************************************************************************)
CONSTANTS NodeGroups, Instances, GroupOf,
          MaxNodeProvisionTime,        \* GetMaxNodeProvisionTime, in ticks
          BackoffDuration,             \* how long a failed group is avoided
          OkTotalUnreadyCount, MaxTotalUnreadyPercentage,
          HasTemplate,                 \* groups with a template node info
          HasInstanceImplemented,      \* CloudProvider.HasInstance works
          MaxSize                      \* largest target size of a group

ASSUME CsrAssumption ==
  /\ GroupOf \in [Instances -> NodeGroups]
  /\ MaxNodeProvisionTime \in Nat \ {0}
  /\ BackoffDuration \in Nat \ {0}
  /\ MaxSize \in Nat
  /\ OkTotalUnreadyCount \in Nat
  /\ MaxTotalUnreadyPercentage \in Nat
  /\ HasTemplate \subseteq NodeGroups
  /\ HasInstanceImplemented \in BOOLEAN
  /\ IsFiniteSet(Instances)

VARIABLES
  target,      \* cloud: target size of each group
  inst,        \* cloud: life cycle of each instance
  node,        \* cluster: the Node object of each instance
  upcoming,    \* groups still being created (AsyncNodeGroupStateChecker)
  scaleUpRequests,
  unregisteredNodes,           \* age since first spotted, or Unseen
  readiness,                   \* perNodeGroupReadiness: the lists a node can be on
  acceptableRanges,
  incorrectNodeGroupSizes,
  cloudProviderNodeInstances,  \* what the last update saw of the instances
  cached,                      \* groups whose instances cache entry is valid
  backoffLeft,                 \* ticks for which a group stays backed off
  charged      \* history: how often an instance was taken off a request

cloudVars == <<target, inst, node, upcoming>>
csrVars == <<scaleUpRequests, unregisteredNodes, readiness, acceptableRanges,
             incorrectNodeGroupSizes, cloudProviderNodeInstances, cached, backoffLeft>>

InstanceStates == {"none", "creating", "failed", "running", "deleting", "gone", "preempted"}
NodeStates == {"none", "starting", "ready", "unready", "suspended"}
ReadinessLists == {"Ready", "Unready", "Deleted", "NotStarted", "Suspended",
                   "LongUnregistered", "Unregistered"}

Expired == MaxNodeProvisionTime + 1   \* any age past MaxNodeProvisionTime
Unseen == -1
Ages == 0 .. Expired
Older(a) == IF a \in 0 .. MaxNodeProvisionTime THEN a + 1 ELSE a

NoRequest == [Increase |-> 0, age |-> 0]
NoRange == [found |-> FALSE, MinNodes |-> 0, CurrentTarget |-> 0]
NoIncorrect == [CurrentSize |-> 0, ExpectedSize |-> 0, age |-> 0]

Members == [g \in NodeGroups |-> {i \in Instances : GroupOf[i] = g}]
Exists(i) == inst[i] \notin {"none", "gone", "preempted"}
Existing(g) == {i \in Members[g] : Exists(i)}
RunningNodeGroups == NodeGroups \ upcoming

\* The lists of the group: how long one is, and whether there is any entry.
Registered(r) == r.Ready \cup r.Unready \cup r.Deleted \cup r.NotStarted \cup r.Suspended
Count(list, g) == Cardinality(list \cap Members[g])
HasReadiness(r, g) == \E list \in ReadinessLists : r[list] \cap Members[g] # {}

-----------------------------------------------------------------------------
(* Queries *)

calculateUpcomingNodesInNodeGroup(r, ranges, g) ==
  ranges[g].CurrentTarget - (Count(r.Ready, g) + Count(r.Unready, g)
                             + Count(r.Suspended, g) + Count(r.LongUnregistered, g))

getUpcomingNodesInNodeGroup(r, ranges, g) ==
  IF HasReadiness(r, g) THEN calculateUpcomingNodesInNodeGroup(r, ranges, g)
                        ELSE ranges[g].CurrentTarget

areThereUpcomingNodesInNodeGroup(r, ranges, g) ==
  ranges[g].found /\ getUpcomingNodesInNodeGroup(r, ranges, g) > 0

IsNodeGroupScalingUp(r, ranges, requests, g) ==
  areThereUpcomingNodesInNodeGroup(r, ranges, g) /\ requests[g].Increase > 0

IsBackedOff(g) == g \in HasTemplate /\ backoffLeft[g] > 0

IsNodeGroupHealthy(g) ==
  LET range == acceptableRanges[g]
      alive == Count(readiness.Ready, g) + Count(readiness.Suspended, g)
      unjustified == IF alive < range.MinNodes THEN range.MinNodes - alive ELSE 0
  IN  /\ range.found
      /\ IF HasReadiness(readiness, g)
         THEN \/ unjustified <= OkTotalUnreadyCount
              \/ 100 * unjustified <= MaxTotalUnreadyPercentage
                   * (alive + Count(readiness.Unready, g) + Count(readiness.NotStarted, g))
         ELSE range.CurrentTarget = 0 \/ (range.MinNodes = 0 /\ range.CurrentTarget > 0)

SafeToScaleUp(g) == IsNodeGroupHealthy(g) /\ ~IsBackedOff(g)

IsClusterHealthy ==
  LET unready == Cardinality(readiness.Unready)
      total == Cardinality(Registered(readiness))
  IN  unready <= OkTotalUnreadyCount \/ 100 * unready <= MaxTotalUnreadyPercentage * total

-----------------------------------------------------------------------------
(* The cloud provider calls the registry makes (gce_cloud_provider.go). *)

\* DecreaseTargetSize refuses to give up an instance that exists.
CanDecreaseTargetSize(g, delta) == target[g] - delta >= Cardinality(Existing(g))

hasCloudProviderInstance(i) ==
  IF HasInstanceImplemented THEN inst[i] \notin {"gone", "preempted"}
                            ELSE inst[i] \notin {"deleting", "gone"}

-----------------------------------------------------------------------------
(* The steps of an update, in the order updateClusterStateRegistry makes   *)
(* them.  Each takes what the previous ones computed.                      *)

registerOrUpdateScaleUp(requests, g, delta) ==
  LET old == requests[g]
  IN  [requests EXCEPT ![g] =
         IF old.Increase + delta <= 0 THEN NoRequest
         ELSE IF delta > 0 THEN [Increase |-> old.Increase + delta, age |-> 0]
         ELSE [old EXCEPT !.Increase = @ + delta]]

\* Of a list of instances the registry uses those it expects to register and
\* those that report a creation error (buildInstanceToErrorCodeMappings).
expectedToRegister == {i \in Instances : inst[i] \in {"creating", "running"}}
withCreationError == {i \in Instances : inst[i] = "failed"}
NoInstances == [expected |-> {}, failed |-> {}]

updateUnregisteredNodes(instances) ==
  [i \in Instances |->
     IF node[i] = "none" /\ i \in instances.expected
     THEN IF unregisteredNodes[i] # Unseen THEN unregisteredNodes[i] ELSE 0
     ELSE Unseen]

updateReadinessStats(unregistered) ==
  LET there == {i \in Instances : node[i] # "none" /\ hasCloudProviderInstance(i)}
  IN  [Deleted |-> {i \in Instances \ there : node[i] # "none"},
       Suspended |-> {i \in there : node[i] = "suspended"},
       Ready |-> {i \in there : node[i] = "ready"},
       NotStarted |-> {i \in there : node[i] = "starting"},
       Unready |-> {i \in there : node[i] = "unready"},
       LongUnregistered |-> {i \in Instances : unregistered[i] > MaxNodeProvisionTime},
       Unregistered |-> {i \in Instances : unregistered[i] \in 0 .. MaxNodeProvisionTime}]

updateAcceptableRanges(sizes, r, requests) ==
  [g \in NodeGroups |->
     IF g \in RunningNodeGroups
     THEN [found |-> TRUE, CurrentTarget |-> sizes[g],
           MinNodes |-> sizes[g] - Count(r.LongUnregistered, g) - requests[g].Increase]
     ELSE IF requests[g].Increase > 0
     THEN [found |-> TRUE, CurrentTarget |-> 0, MinNodes |-> 0 - requests[g].Increase]
     ELSE NoRange]

TimedOutGroups(r, ranges) ==
  {g \in RunningNodeGroups :
     /\ scaleUpRequests[g].Increase > 0
     /\ areThereUpcomingNodesInNodeGroup(r, ranges, g)
     /\ scaleUpRequests[g].age > MaxNodeProvisionTime}

\* Fulfilled and timed-out requests go away.
updateScaleRequests(r, ranges, timedOut) ==
  [g \in NodeGroups |->
     IF /\ g \in RunningNodeGroups
        /\ g \in timedOut \/ ~areThereUpcomingNodesInNodeGroup(r, ranges, g)
     THEN NoRequest ELSE scaleUpRequests[g]]

\* Mutant: the previous update is not consulted.
AllErrors(instances, g) == Members[g] \cap instances.failed

\* Instances that report a creation error now and reported none before.
UnseenErrors(instances, g) ==
  Members[g] \cap (instances.failed \ cloudProviderNodeInstances.failed)

GroupsWithCreationErrors(instances, r, ranges, requests) ==
  {g \in RunningNodeGroups : /\ UnseenErrors(instances, g) # {}
                             /\ IsNodeGroupScalingUp(r, ranges, requests, g)}

\* The error codes of a group are handled one after the other, in no fixed
\* order, until the request is used up; the request ends up the same.
handleInstanceCreationErrors(instances, requests, failing) ==
  [g \in NodeGroups |->
     IF g \in failing
     THEN registerOrUpdateScaleUp(requests, g, 0 - Cardinality(UnseenErrors(instances, g)))[g]
     ELSE requests[g]]

updateIncorrectNodeGroupSizes(r, ranges) ==
  [g \in NodeGroups |->
     LET current == Count(Registered(r), g)
         expected == ranges[g].CurrentTarget
         pending == Count(r.Unregistered, g) + Count(r.LongUnregistered, g)
         old == incorrectNodeGroupSizes[g]
     IN  IF g \in upcoming \/ ~HasReadiness(r, g) \/ current \in (expected - pending) .. expected
         THEN NoIncorrect
         ELSE IF old.CurrentSize = current /\ old.ExpectedSize = expected THEN old
         ELSE [CurrentSize |-> current, ExpectedSize |-> expected, age |-> 0]]

\* RegisterFailedScaleUp, reached through the observers list.
BackoffAfterFailures(failed) ==
  [g \in NodeGroups |-> IF g \in failed \cap HasTemplate THEN BackoffDuration ELSE backoffLeft[g]]

-----------------------------------------------------------------------------
(* The operations *)

\* What the instances cache may hand out: a group that is scaling up, or has
\* no valid entry, is read afresh; any other may be as the last update saw it.
CachedInstances(fresh) ==
  LET read == {i \in Instances : GroupOf[i] \in fresh}
  IN  [expected |-> (expectedToRegister \cap read) \cup (cloudProviderNodeInstances.expected \ read),
       failed |-> (withCreationError \cap read) \cup (cloudProviderNodeInstances.failed \ read)]

MustReadAfresh ==
  {g \in NodeGroups :
     \/ g \notin cached
     \/ g \in RunningNodeGroups
        /\ IsNodeGroupScalingUp(readiness, acceptableRanges, scaleUpRequests, g)}

\* UpdateNodes once the target sizes and the instances have been read.  For
\* the timed-out groups in refused the cloud does not answer DecreaseTargetSize.
UpdateNodes(fresh, refused) ==
  LET instances == CachedInstances(fresh)
      unregistered == updateUnregisteredNodes(instances)
      r == updateReadinessStats(unregistered)
      ranges1 == updateAcceptableRanges(target, r, scaleUpRequests)
      timedOut == TimedOutGroups(r, ranges1)
      requests1 == updateScaleRequests(r, ranges1, timedOut)
      errors == GroupsWithCreationErrors(instances, r, ranges1, requests1)
      requests2 == handleInstanceCreationErrors(instances, requests1, errors)
      ranges2 == updateAcceptableRanges(target, r, requests2)
      reverted == {g \in timedOut \ refused : CanDecreaseTargetSize(g, scaleUpRequests[g].Increase)}
  IN  /\ MustReadAfresh \subseteq fresh
      /\ cloudProviderNodeInstances' = instances
      /\ cached' = NodeGroups
      /\ unregisteredNodes' = unregistered
      /\ readiness' = r
      /\ scaleUpRequests' = requests2
      /\ acceptableRanges' = ranges2
      /\ incorrectNodeGroupSizes' = updateIncorrectNodeGroupSizes(r, ranges2)
      /\ backoffLeft' = BackoffAfterFailures(timedOut \cup errors)
      /\ target' = [g \in NodeGroups |->
                      IF g \in reverted THEN target[g] - scaleUpRequests[g].Increase ELSE target[g]]
      /\ charged' = [i \in Instances |->
           IF GroupOf[i] \in errors /\ i \in UnseenErrors(instances, GroupOf[i])
           THEN charged[i] + 1 ELSE charged[i]]
      /\ UNCHANGED <<inst, node, upcoming>>

\* Recalculate, with the target sizes read by getTargetSizes.
RangesNow(sizes, requests) == updateAcceptableRanges(sizes, readiness, requests)

CsrInit ==
  /\ scaleUpRequests = [g \in NodeGroups |-> NoRequest]
  /\ unregisteredNodes = [i \in Instances |-> Unseen]
  /\ readiness = [list \in ReadinessLists |-> {}]
  /\ acceptableRanges = [g \in NodeGroups |-> NoRange]
  /\ incorrectNodeGroupSizes = [g \in NodeGroups |-> NoIncorrect]
  /\ cloudProviderNodeInstances = NoInstances
  /\ cached = {}
  /\ backoffLeft = [g \in NodeGroups |-> 0]

\* A new process starts with an empty registry.
CsrRestart ==
  /\ scaleUpRequests' = [g \in NodeGroups |-> NoRequest]
  /\ unregisteredNodes' = [i \in Instances |-> Unseen]
  /\ readiness' = [list \in ReadinessLists |-> {}]
  /\ acceptableRanges' = [g \in NodeGroups |-> NoRange]
  /\ incorrectNodeGroupSizes' = [g \in NodeGroups |-> NoIncorrect]
  /\ cloudProviderNodeInstances' = NoInstances
  /\ cached' = {}
  /\ backoffLeft' = [g \in NodeGroups |-> 0]

\* Time passes for everything the registry has stamped.
CsrTick ==
  /\ scaleUpRequests' = [g \in NodeGroups |->
       IF scaleUpRequests[g].Increase > 0
       THEN [scaleUpRequests[g] EXCEPT !.age = Older(@)] ELSE scaleUpRequests[g]]
  /\ unregisteredNodes' = [i \in Instances |-> Older(unregisteredNodes[i])]
  /\ incorrectNodeGroupSizes' = [g \in NodeGroups |->
       IF incorrectNodeGroupSizes[g] = NoIncorrect THEN NoIncorrect
       ELSE [incorrectNodeGroupSizes[g] EXCEPT !.age = Older(@)]]
  /\ backoffLeft' = [g \in NodeGroups |-> IF backoffLeft[g] > 0 THEN backoffLeft[g] - 1 ELSE 0]
  /\ UNCHANGED <<readiness, acceptableRanges, cloudProviderNodeInstances, cached>>

-----------------------------------------------------------------------------
CONSTANTS MinSize,
          InitialNodes,                    \* instances that are there at the start
          InitialUpcoming,                 \* groups still being created at the start
          ZeroOrMaxNodeScaling,            \* groups that are scaled atomically
          AllowNonAtomicScaleUpToMax,
          ForceDeleteLongUnregisteredNodes,
          TurnsTo,                         \* bound: states a node changes to
          Interleaved,                     \* bound: phases in which others move
          MaxFailures,                     \* bound: failing cloud and API calls
          MaxLosses,                       \* bound: preempted, dropped and scaled down instances
          MaxScaleUps,                     \* bound: scale-ups the loop makes
          MaxRestarts                      \* bound: autoscaler restarts

ASSUME LoopAssumption ==
  /\ MinSize \in 0 .. MaxSize
  /\ InitialNodes \subseteq Instances
  /\ InitialUpcoming \subseteq NodeGroups
  /\ ZeroOrMaxNodeScaling \subseteq NodeGroups
  /\ {AllowNonAtomicScaleUpToMax, ForceDeleteLongUnregisteredNodes} \subseteq BOOLEAN
  /\ TurnsTo \subseteq NodeStates \ {"none", "starting"}
  /\ Interleaved \subseteq {"idle", "unregistered", "errors", "fix", "scaleUp"}
  /\ {MaxFailures, MaxScaleUps, MaxRestarts, MaxLosses} \subseteq Nat

VARIABLES
  pc,          \* where the loop is
  failures, scaleUps, restarts, losses,
  instAge      \* history: ticks since the instance appeared in the cloud

budget == <<failures, scaleUps, restarts, losses>>
vars == <<cloudVars, csrVars, charged, pc, budget, instAge>>

Phases == {"idle", "unregistered", "errors", "fix", "scaleUp"}

Goto(p) == pc' = p
Fail == failures < MaxFailures /\ failures' = failures + 1 /\ UNCHANGED <<scaleUps, restarts, losses>>

\* NodeGroup.DeleteNodes: the instances go, and the target size with them.
DeleteNodes(doomed) ==
  LET leaving == {i \in doomed : Exists(i) /\ inst[i] # "deleting"}
  IN  /\ inst' = [i \in Instances |-> IF i \in leaving THEN "deleting" ELSE inst[i]]
      /\ target' = [g \in NodeGroups |-> target[g] - Cardinality(leaving \cap Members[g])]

\* overrideNodesToDeleteForZeroOrMax: an atomic group loses all its instances
\* or, if it may be scaled up in parts and only some are affected, none.
overrideNodesToDelete(g, chosen) ==
  IF g \notin ZeroOrMaxNodeScaling THEN chosen
  ELSE IF Cardinality(Existing(g)) = Cardinality(chosen) \/ ~AllowNonAtomicScaleUpToMax
  THEN Existing(g) ELSE {}

-----------------------------------------------------------------------------
(* The main loop *)

\* updateClusterState.  The cache may or may not still hold what it read last.
UpdateClusterState ==
  /\ pc = "idle"
  /\ \E fresh \in SUBSET NodeGroups :
       \/ UpdateNodes(fresh, {}) /\ UNCHANGED budget
       \/ UpdateNodes(fresh, NodeGroups) /\ Fail
  /\ Goto("unregistered")
  /\ UNCHANGED instAge

\* Reading the target sizes or the instances fails: the iteration is over.
UpdateClusterStateFails ==
  /\ pc = "idle"
  /\ Fail
  /\ cached' \in {cached, cached \ MustReadAfresh}
  /\ UNCHANGED <<cloudVars, scaleUpRequests, unregisteredNodes, readiness, acceptableRanges,
                 incorrectNodeGroupSizes, cloudProviderNodeInstances, backoffLeft, charged, pc, instAge>>

\* Mutant: removed when MaxNodeProvisionTime is reached, not when it has passed.
oldUnregisteredNodesAtLimit(g) == {i \in Members[g] : unregisteredNodes[i] >= MaxNodeProvisionTime}

oldUnregisteredNodes(g) == {i \in Members[g] : unregisteredNodes[i] > MaxNodeProvisionTime}

\* What removeOldUnregisteredNodes may ask the cloud to delete from the group.
RemovableUnregistered(g) ==
  LET old == oldUnregisteredNodes(g)
      possible == IF ForceDeleteLongUnregisteredNodes THEN Cardinality(old) ELSE target[g] - MinSize
  IN  IF old = {} \/ possible <= 0 THEN {{}}
      ELSE IF Cardinality(old) <= possible THEN {overrideNodesToDelete(g, old)}
      ELSE {overrideNodesToDelete(g, S) : S \in {T \in SUBSET old : Cardinality(T) = possible}}

\* The groups are taken one after the other; a failing deletion ends the walk.
\* An unhealthy cluster ends the iteration right after it.
removeOldUnregisteredNodes ==
  /\ pc = "unregistered"
  /\ \E doomed \in SUBSET Instances :
       LET touched == {GroupOf[i] : i \in doomed}
       IN  /\ \/ /\ \A g \in NodeGroups : doomed \cap Members[g] \in RemovableUnregistered(g)
                 /\ cached' = cached \ touched
                 /\ UNCHANGED budget
              \/ /\ \A g \in NodeGroups : doomed \cap Members[g] \in RemovableUnregistered(g) \cup {{}}
                 /\ \E g \in NodeGroups : /\ RemovableUnregistered(g) # {{}}
                                          /\ g \notin touched
                                          /\ cached' = cached \ (touched \cup {g})
                 /\ Fail
           /\ DeleteNodes(doomed)
  /\ Goto(IF IsClusterHealthy THEN "errors" ELSE "idle")
  /\ UNCHANGED <<node, upcoming, scaleUpRequests, unregisteredNodes, readiness, acceptableRanges,
                 incorrectNodeGroupSizes, cloudProviderNodeInstances, backoffLeft, charged, instAge>>

\* Mutant: instances whose deletion was asked for in an earlier iteration, and
\* failed, are not tried again.
FailedInstancesOnce(g) ==
  {i \in cloudProviderNodeInstances.failed \cap Members[g] : instAge[i] = 0}

\* GetCreatedNodesWithErrors, after the override for atomic groups.
FailedInstances(g) ==
  LET failed == cloudProviderNodeInstances.failed \cap Members[g]
  IN  IF failed = {} THEN {} ELSE overrideNodesToDelete(g, failed)

\* Only a deletion that succeeded invalidates the cache and recalculates.
deleteCreatedNodesWithErrors ==
  /\ pc = "errors"
  /\ \E refused \in SUBSET NodeGroups :
       LET accepted == {g \in NodeGroups \ refused : FailedInstances(g) # {}}
       IN  /\ IF refused = {} THEN UNCHANGED budget
              ELSE (\A g \in refused : FailedInstances(g) # {}) /\ Fail
           /\ DeleteNodes(UNION {FailedInstances(g) : g \in accepted})
           /\ cached' = cached \ accepted
           /\ acceptableRanges' = IF accepted = {} THEN acceptableRanges
                                  ELSE RangesNow(target', scaleUpRequests)
  /\ Goto("fix")
  /\ UNCHANGED <<node, upcoming, scaleUpRequests, unregisteredNodes, readiness,
                 incorrectNodeGroupSizes, cloudProviderNodeInstances, backoffLeft, charged, instAge>>

Overscaled(g) ==
  /\ incorrectNodeGroupSizes[g].age > MaxNodeProvisionTime
  /\ incorrectNodeGroupSizes[g].CurrentSize < incorrectNodeGroupSizes[g].ExpectedSize

Excess(g) == incorrectNodeGroupSizes[g].ExpectedSize - incorrectNodeGroupSizes[g].CurrentSize

\* fixNodeGroupSize: a fixed group and a refused decrease both end the iteration;
\* the groups that come after a refused one are left for the next iteration.
fixNodeGroupSize ==
  /\ pc = "fix"
  /\ \E fixed \in SUBSET {g \in NodeGroups : Overscaled(g) /\ CanDecreaseTargetSize(g, Excess(g))} :
       LET refused == {g \in NodeGroups \ fixed : Overscaled(g)}
       IN  /\ target' = [g \in NodeGroups |-> IF g \in fixed THEN target[g] - Excess(g) ELSE target[g]]
           /\ IF \A g \in refused : CanDecreaseTargetSize(g, Excess(g))
              THEN IF refused = {} THEN UNCHANGED budget ELSE Fail
              ELSE UNCHANGED budget
           /\ Goto(IF fixed = {} /\ refused = {} THEN "scaleUp" ELSE "idle")
  /\ UNCHANGED <<inst, node, upcoming, csrVars, charged, instAge>>

\* executeScaleUp for one group and, unless it failed, Recalculate after it.  The size
\* of a group whose options cannot be read is increased, but no request is registered.
ScaleUp(g, increase) ==
  /\ pc = "scaleUp"
  /\ scaleUps < MaxScaleUps
  /\ g \in RunningNodeGroups
  /\ SafeToScaleUp(g)
  /\ target[g] + increase <= MaxSize
  /\ g \in ZeroOrMaxNodeScaling => target[g] + increase = MaxSize
  /\ scaleUps' = scaleUps + 1
  /\ \/ /\ target' = [target EXCEPT ![g] = @ + increase]
        /\ scaleUpRequests' = registerOrUpdateScaleUp(scaleUpRequests, g, increase)
        /\ acceptableRanges' = RangesNow(target', scaleUpRequests')
        /\ UNCHANGED <<backoffLeft, failures>>
     \/ /\ target' = [target EXCEPT ![g] = @ + increase]
        /\ failures < MaxFailures /\ failures' = failures + 1
        /\ acceptableRanges' = RangesNow(target', scaleUpRequests)
        /\ UNCHANGED <<scaleUpRequests, backoffLeft>>
     \/ /\ failures < MaxFailures /\ failures' = failures + 1
        /\ backoffLeft' = BackoffAfterFailures({g})
        /\ UNCHANGED <<target, scaleUpRequests, acceptableRanges>>
  /\ Goto("idle")
  /\ UNCHANGED <<inst, node, upcoming, unregisteredNodes, readiness, incorrectNodeGroupSizes,
                 cloudProviderNodeInstances, cached, charged, restarts, losses, instAge>>

\* No scale-up; a scale-down that starts deletions recalculates the ranges.
NoScaleUp ==
  /\ pc = "scaleUp"
  /\ acceptableRanges' \in {acceptableRanges, RangesNow(target, scaleUpRequests)}
  /\ Goto("idle")
  /\ UNCHANGED <<cloudVars, scaleUpRequests, unregisteredNodes, readiness, incorrectNodeGroupSizes,
                 cloudProviderNodeInstances, cached, backoffLeft, charged, budget, instAge>>

\* A new process, or a new leader, starts from an empty registry.
Restart ==
  /\ restarts < MaxRestarts
  /\ restarts' = restarts + 1
  /\ Goto("idle")
  /\ CsrRestart
  /\ UNCHANGED <<cloudVars, charged, failures, scaleUps, losses, instAge>>
-----------------------------------------------------------------------------
(* The cloud, the cluster and the other goroutines *)

loopVars == <<csrVars, charged, pc, budget>>

\* The cloud fills a group up to its target size.
CloudCreate(i) ==
  /\ inst[i] = "none"
  /\ GroupOf[i] \in RunningNodeGroups
  /\ Cardinality({j \in Existing(GroupOf[i]) : inst[j] # "deleting"}) < target[GroupOf[i]]
  /\ inst' = [inst EXCEPT ![i] = "creating"]
  /\ UNCHANGED <<target, node, upcoming, loopVars, instAge>>

CloudAdvance(i, from, to) ==
  /\ inst[i] = from
  /\ inst' = [inst EXCEPT ![i] = to]
  /\ UNCHANGED <<target, node, upcoming, loopVars, instAge>>

CloudFinishDelete(i) == CloudAdvance(i, "deleting", "gone")

\* The kubelet registers the node; its readiness then comes and goes.
NodeRegister(i) ==
  /\ inst[i] = "running" /\ node[i] = "none"
  /\ node' = [node EXCEPT ![i] = "starting"]
  /\ UNCHANGED <<target, inst, upcoming, loopVars, instAge>>

NodeTurns(i, s) ==
  /\ node[i] # "none" /\ node[i] # s
  /\ node' = [node EXCEPT ![i] = s]
  /\ UNCHANGED <<target, inst, upcoming, loopVars, instAge>>

NodeVanish(i) ==
  /\ node[i] # "none" /\ inst[i] \in {"gone", "preempted"}
  /\ node' = [node EXCEPT ![i] = "none"]
  /\ UNCHANGED <<target, inst, upcoming, loopVars, instAge>>

Lose == losses < MaxLosses /\ losses' = losses + 1 /\ UNCHANGED <<failures, scaleUps, restarts>>

CloudPreempt(i) ==
  /\ inst[i] = "running"
  /\ inst' = [inst EXCEPT ![i] = "preempted"]
  /\ Lose
  /\ UNCHANGED <<target, node, upcoming, csrVars, charged, pc, instAge>>

\* The cloud drops an instance it could not create, and may retry with another.
CloudDrop(i) ==
  /\ inst[i] = "failed"
  /\ inst' = [inst EXCEPT ![i] = "gone"]
  /\ Lose
  /\ UNCHANGED <<target, node, upcoming, csrVars, charged, pc, instAge>>

\* A node deletion goroutine of the actuator reaches DeleteNodes.
ScaleDownNode(i) ==
  /\ inst[i] = "running" /\ node[i] # "none"
  /\ GroupOf[i] \notin ZeroOrMaxNodeScaling /\ target[GroupOf[i]] > MinSize
  /\ DeleteNodes({i})
  /\ Lose
  /\ UNCHANGED <<node, upcoming, csrVars, charged, pc, instAge>>

NodeGroupCreated(g) ==
  /\ g \in upcoming
  /\ upcoming' = upcoming \ {g}
  /\ UNCHANGED <<target, inst, node, loopVars, instAge>>

Tick ==
  /\ pc = "idle"
  /\ CsrTick
  /\ instAge' = [i \in Instances |->
       IF Exists(i) THEN Older(instAge[i]) ELSE 0]
  /\ UNCHANGED <<cloudVars, charged, pc, budget>>

-----------------------------------------------------------------------------
Init ==
  /\ inst = [i \in Instances |-> IF i \in InitialNodes THEN "running" ELSE "none"]
  /\ node = [i \in Instances |-> IF i \in InitialNodes THEN "ready" ELSE "none"]
  /\ target = [g \in NodeGroups |-> Cardinality(InitialNodes \cap Members[g])]
  /\ upcoming = InitialUpcoming
  /\ CsrInit
  /\ charged = [i \in Instances |-> 0]
  /\ pc = "idle"
  /\ failures = 0 /\ scaleUps = 0 /\ restarts = 0 /\ losses = 0
  /\ instAge = [i \in Instances |-> 0]

Loop ==
  \/ UpdateClusterState
  \/ removeOldUnregisteredNodes
  \/ deleteCreatedNodesWithErrors
  \/ fixNodeGroupSize
  \/ NoScaleUp
  \/ \E g \in NodeGroups : \E increase \in 1 .. MaxSize : ScaleUp(g, increase)

Cloud(i) ==
  \/ CloudCreate(i)
  \/ CloudAdvance(i, "creating", "running")
  \/ CloudAdvance(i, "creating", "failed")
  \/ CloudPreempt(i)
  \/ CloudFinishDelete(i)
  \/ CloudDrop(i)
  \/ NodeRegister(i)
  \/ \E s \in TurnsTo : NodeTurns(i, s)
  \/ NodeVanish(i)
  \/ ScaleDownNode(i)

Next ==
  \/ Loop
  \/ UpdateClusterStateFails
  \/ Restart
  \/ pc \in Interleaved /\ \E i \in Instances : Cloud(i)
  \/ pc \in Interleaved /\ \E g \in NodeGroups : NodeGroupCreated(g)
  \/ Tick

Spec == Init /\ [][Next]_vars

\* The loop keeps running: loop/run.go calls RunOnce for ever, a step of Loop is
\* enabled in every state and changes pc.  Time passes
\* between iterations (strong fairness: Tick waits for the loop to be idle),
\* and the cloud finishes deletions (each instance has one, so fairness for
\* them together is fairness for each).  The cache's refresh goroutine sees to it
\* that updates get to see the instances as they are.  Nothing obliges the cloud to create an
\* instance, an instance to come up, or a node to register or turn ready.
InstancesNow == [expected |-> expectedToRegister, failed |-> withCreationError]

Fairness ==
  /\ []<><<pc' # pc>>_vars
  /\ []<><<pc' # pc /\ cloudProviderNodeInstances' = InstancesNow>>_vars
  /\ SF_vars(Tick)
  /\ WF_vars(\E i \in Instances : CloudFinishDelete(i) \/ NodeVanish(i))

FairSpec == Spec /\ Fairness

-----------------------------------------------------------------------------
TypeOK ==
  /\ target \in [NodeGroups -> 0 .. MaxSize]
  /\ inst \in [Instances -> InstanceStates]
  /\ node \in [Instances -> NodeStates]
  /\ upcoming \subseteq NodeGroups
  /\ scaleUpRequests \in [NodeGroups -> [Increase : Nat, age : Ages]]
  /\ unregisteredNodes \in [Instances -> {Unseen} \cup Ages]
  /\ readiness \in [ReadinessLists -> SUBSET Instances]
  /\ acceptableRanges \in [NodeGroups -> [found : BOOLEAN, MinNodes : Int, CurrentTarget : 0 .. MaxSize]]
  /\ incorrectNodeGroupSizes \in [NodeGroups -> [CurrentSize : Nat, ExpectedSize : 0 .. MaxSize, age : Ages]]
  /\ cloudProviderNodeInstances \in [expected : SUBSET Instances, failed : SUBSET Instances]
  /\ cached \subseteq NodeGroups
  /\ backoffLeft \in [NodeGroups -> 0 .. BackoffDuration]
  /\ charged \in [Instances -> Nat]
  /\ pc \in Phases
  /\ failures \in 0 .. MaxFailures
  /\ scaleUps \in 0 .. MaxScaleUps
  /\ restarts \in 0 .. MaxRestarts
  /\ losses \in 0 .. MaxLosses
  /\ instAge \in [Instances -> Ages]

\* handleInstanceCreationErrorsForNodeGroup compares the instances of this
\* update with those of the previous one so that a failed instance is taken
\* off the scale-up request once, however many updates, cached reads and failed
\* updates it is seen in.
ChargedOnce == \A i \in Instances : charged[i] <= 1

\* removeOldUnregisteredNodes only deletes, outside atomic groups, instances
\* that have been in the cloud for longer than MaxNodeProvisionTime, whatever
\* the cache handed out and even if the autoscaler was restarted.
RemovalRespectsProvisionTime ==
  [][pc = "unregistered" /\ pc' # pc =>
       \A i \in Instances : inst'[i] # inst[i] /\ GroupOf[i] \notin ZeroOrMaxNodeScaling
                               => instAge[i] > MaxNodeProvisionTime]_vars

\* A scale-up request does not stay for ever: it is fulfilled, used up by
\* creation errors or timed out by updateScaleRequests.
RequestsResolve ==
  \A g \in NodeGroups : scaleUpRequests[g].Increase > 0 ~> scaleUpRequests[g].Increase = 0

\* An instance that failed, or that does not become a node, does not stay:
\* deleteCreatedNodesWithErrors and removeOldUnregisteredNodes find it sooner or
\* later, however stale the instances the loop sees are in between.  An
\* unhealthy cluster and a group at its minimum size are exempt.
Stuck(i) == Exists(i) /\ inst[i] # "deleting" /\ node[i] = "none"
StuckInstancesGo ==
  \A i \in Instances :
    []<>(~Stuck(i) \/ ~IsClusterHealthy \/ target[GroupOf[i]] <= MinSize)

\* Both: whatever goes wrong with a scale-up, the loop is done with it in the end.
ScaleUpsAreSettled == RequestsResolve /\ StuckInstancesGo
==============================================================================
