--------------------------- MODULE AutoscalerLoop ---------------------------
(***************************************************************************)
(* StaticAutoscaler.RunOnce (core/static_autoscaler.go): the order of the  *)
(* phases of an iteration, its early returns, the scale-down cooldowns and *)
(* graceful degradation, around the scale-down planner below and the       *)
(* deletions that run beside the loop.                                     *)
(*                                                                         *)
(* One iteration is the steps list -> update -> scaleUp -> scaleDown ->    *)
(* minSize; deletions and changes of load interleave with them.  Whatever  *)
(* upsets the cluster (a failed call, an unhealthy loop, a scale-up, a     *)
(* change of load, a restart) consumes one of MaxDisturbances.             *)
(***************************************************************************)
EXTENDS Integers, FiniteSets

-----------------------------------------------------------------------------
(***************************************************************************)
(* The scale-down planner (core/scaledown/planner/planner.go) with the two *)
(* tables it keeps - unneeded nodes (unneeded/nodes.go) and recently       *)
(* unremovable ones (unremovable/nodes.go) - the processors that choose    *)
(* its candidates (processors/scaledowncandidates, processors/nodes) and   *)
(* the soft taints that mirror its verdicts on the nodes                   *)
(* (actuation/softtaint.go).                                               *)
(*                                                                         *)
(* A time stamp is modelled by its age at the start of the current loop,   *)
(* saturating at Longest; Never marks a missing entry.  What the removal   *)
(* simulation concludes of a node is its load:                             *)
(*   idle     nothing on it has to be moved                                *)
(*   unready  the same, and the node is not ready                          *)
(*   stuck    underutilised, but a pod of it cannot be moved               *)
(*   busy     above the utilisation threshold                              *)
(* Target sizes follow the nodes: the registry's view of a group that is   *)
(* not settled is the subject of ClusterStateLoop.                         *)
(***************************************************************************)
CONSTANTS Nodes, NodeGroups, GroupOf, MinSize,
          UnneededTime,             \* ScaleDownUnneededTime
          UnreadyTime,              \* ScaleDownUnreadyTime
          RecheckTimeout,           \* UnremovableNodeRecheckTimeout
          MaxScaleDownParallelism,
          ScaleDownDelayTypeLocal,
          ScaleDownDelayAfterAdd, ScaleDownDelayAfterDelete, ScaleDownDelayAfterFailure,
          MaxBulkSoftTaintCount,
          NodeDeletionCandidateTTL,
          Longest                   \* bound: ages saturate here

Loads == {"idle", "unready", "stuck", "busy"}
Never == -1
Ages == 0 .. Longest
MaxOf(a, b) == IF a > b THEN a ELSE b

ASSUME PlannerAssumption ==
    /\ GroupOf \in [Nodes -> NodeGroups]
    /\ MinSize \in [NodeGroups -> Nat]
    /\ {UnneededTime, UnreadyTime, RecheckTimeout, NodeDeletionCandidateTTL, ScaleDownDelayAfterAdd,
        ScaleDownDelayAfterDelete, ScaleDownDelayAfterFailure, Longest} \subseteq Nat
    /\ MaxScaleDownParallelism \in Nat \ {0}
    /\ MaxBulkSoftTaintCount \in Nat
    /\ ScaleDownDelayTypeLocal \in BOOLEAN
    /\ \A d \in {UnneededTime, UnreadyTime, NodeDeletionCandidateTTL, ScaleDownDelayAfterAdd,
                 ScaleDownDelayAfterDelete, ScaleDownDelayAfterFailure} : d < Longest

VARIABLES
    present,           \* the nodes of the cluster
    load,
    since,             \* unneededNodes.byName: how long each node has been unneeded
    ttls,              \* unremovableNodes.ttls: time left before a node is simulated again
    previous,          \* PreviousCandidates: the unneeded nodes of the last planning pass
    minUpdateInterval, \* shortest time between two planning passes
    latestUpdate,      \* age of the last one
    candidate,         \* age of the DeletionCandidate soft taint of each node
    scaleUps, scaleDowns, scaleDownFailures    \* ScaleDownCandidatesDelayProcessor, per group

plannerVars == <<since, ttls, previous, minUpdateInterval, latestUpdate>>
delayVars == <<scaleUps, scaleDowns, scaleDownFailures>>

Older(age, gap) ==
    IF age = Never THEN Never ELSE IF age + gap > Longest THEN Longest ELSE age + gap

GroupSize(g) == Cardinality({n \in present : GroupOf[n] = g})

unneeded == {n \in Nodes : since[n] # Never}

(***************************************************************************)
(* Candidates: PreFilteringScaleDownNodeProcessor, then, with local        *)
(* delays, ScaleDownCandidatesDelayProcessor.                              *)
(***************************************************************************)
AboveMinSize(nodes) == {n \in nodes : GroupSize(GroupOf[n]) > MinSize[GroupOf[n]]}

recent(times, g, delay) == times[g] < delay

WithoutDelay(nodes) ==
    {n \in nodes : /\ ~recent(scaleUps, GroupOf[n], ScaleDownDelayAfterAdd)
                   /\ ~recent(scaleDowns, GroupOf[n], ScaleDownDelayAfterDelete)
                   /\ ~recent(scaleDownFailures, GroupOf[n], ScaleDownDelayAfterFailure)}

GetScaleDownCandidates(nodes) ==
    IF ScaleDownDelayTypeLocal THEN WithoutDelay(AboveMinSize(nodes)) ELSE AboveMinSize(nodes)

(***************************************************************************)
(* The simulation.  It walks the eligible candidates, empty ones and then  *)
(* previous candidates first, until its time is over or there are enough   *)
(* unneeded nodes; a node it does not reach is not in the removable list.  *)
(***************************************************************************)
unneededNodesLimit(interval) ==
    LET n == MaxScaleDownParallelism
        limit == Cardinality(unneeded) + n + n
        upperBound == n * (MaxOf(UnneededTime, interval) \div interval) + n
    IN  IF upperBound < limit THEN upperBound ELSE limit

\* unremovableNodes.Update: entries of nodes that are gone or whose time is over are dropped
LiveTtls(seen) == [n \in Nodes |-> IF n \in DOMAIN seen THEN ttls[n] ELSE 0]

FilterOutUnremovable(candidates, seen) ==
    {n \in candidates : LiveTtls(seen)[n] = 0 /\ seen[n] # "busy"}

Removable(processed, seen) == {n \in processed : seen[n] \in {"idle", "unready"}}

\* EmptySorting, then PreviousCandidates (ScaleDownCandidates has the whole of the sorting)
ScaleDownEarlierThan(m, n, seen) ==
    IF (seen[m] = "stuck") # (seen[n] = "stuck") THEN seen[n] = "stuck"
    ELSE m \in previous /\ n \notin previous

\* the sets of nodes the simulation may have walked when it stops
Processed(eligible, seen, interval, timedOut) ==
    {P \in SUBSET eligible :
        LET found == Cardinality(Removable(P, seen)) IN
        /\ found <= unneededNodesLimit(interval)
        /\ P = eligible \/ timedOut \/ found = unneededNodesLimit(interval)
        /\ \A n \in P, m \in eligible \ P : ~ScaleDownEarlierThan(m, n, seen)}

\* a bug the properties must catch: the nodes the pass did not find are kept
updateInternalStateKeeps(nodes) ==
    [n \in Nodes |-> IF n \in nodes /\ since[n] = Never THEN 0
                      ELSE IF n \in present THEN since[n] ELSE Never]

\* updateInternalState: earlier time stamps are kept, every other entry is dropped
updateInternalState(nodes) ==
    [n \in Nodes |-> IF n \notin nodes THEN Never ELSE IF since[n] = Never THEN 0 ELSE since[n]]

filterOutOngoingDeletions(nodes, as) == nodes \ as

(***************************************************************************)
(* UpdateClusterState: `seen` maps the listed nodes to their loads, `as`   *)
(* are the deletions in progress when the loop took its snapshot,          *)
(* `processed` the nodes the simulation walks before it stops.             *)
(***************************************************************************)
MinInterval == IF latestUpdate # Never /\ latestUpdate < minUpdateInterval
               THEN latestUpdate ELSE minUpdateInterval

UpdateClusterState(candidates, seen, as, timedOut, processed) ==
    /\ processed \in Processed(FilterOutUnremovable(filterOutOngoingDeletions(candidates, as), seen),
                              seen, MinInterval, timedOut)
    /\ since' = updateInternalState(Removable(processed, seen))
    /\ ttls' = [n \in Nodes |-> IF n \in processed /\ seen[n] = "stuck"
                                THEN RecheckTimeout ELSE LiveTtls(seen)[n]]
    /\ previous' = Removable(processed, seen)
    /\ minUpdateInterval' = MinInterval
    /\ latestUpdate' = 0

CleanUpUnneededNodes ==
    since' = [n \in Nodes |-> Never] /\ UNCHANGED <<ttls, previous, minUpdateInterval, latestUpdate>>

(***************************************************************************)
(* NodesToDelete, on the table the pass of this loop has left.  Nodes are  *)
(* looked at in the order of a Go map, so any maximal choice may come out. *)
(***************************************************************************)
Threshold(l) == IF l = "unready" THEN UnreadyTime ELSE UnneededTime

LongEnough(ages, seen) ==
    {n \in Nodes : /\ ages[n] # Never
                   /\ Threshold(seen[n]) > 0 => ages[n] > Threshold(seen[n])}

KeepsMinSize(S, as) ==
    \A g \in NodeGroups :
        LET taken == {n \in S : GroupOf[n] = g} IN
        taken # {} => GroupSize(g) - Cardinality({n \in as : GroupOf[n] = g}) - Cardinality(taken)
                        >= MinSize[g]

RemovableAt(ages, seen, as) ==
    LET ok == {S \in SUBSET LongEnough(ages, seen) : KeepsMinSize(S, as)}
    IN  {S \in ok : \A T \in ok : S \subseteq T => T = S}

(***************************************************************************)
(* UpdateSoftDeletionTaints, on the taints as listed at the start of the   *)
(* loop: needed nodes are cleaned before unneeded ones are marked, within  *)
(* one budget of API calls.  Every call succeeds and time does not run out.*)
(***************************************************************************)
Within(nodes, budget) ==
    {S \in SUBSET nodes : Cardinality(S) <= budget
                          /\ (S = nodes \/ Cardinality(S) = budget)}

updateSoftDeletionTaints(listed, as, ages) ==
    IF MaxBulkSoftTaintCount = 0
    THEN candidate' = candidate
    ELSE LET marked == {n \in listed \ as : candidate[n] # Never}
             wanted == {n \in listed \ as : ages[n] # Never}
         IN  \E clean \in Within(marked \ wanted, MaxBulkSoftTaintCount) :
             \E mark \in Within(wanted \ marked, MaxBulkSoftTaintCount - Cardinality(clean)) :
                candidate' = [n \in Nodes |-> IF n \in clean THEN Never
                                              ELSE IF n \in mark THEN 0 ELSE candidate[n]]

\* planner.New: LoadFromExistingTaints, when marks are kept for some time
LoadFromExistingTaints ==
    [n \in Nodes |-> IF /\ NodeDeletionCandidateTTL # 0 /\ n \in present
                        /\ candidate[n] # Never /\ candidate[n] <= NodeDeletionCandidateTTL
                     THEN candidate[n] ELSE Never]

NewPlanner ==
    /\ since' = LoadFromExistingTaints
    /\ ttls' = [n \in Nodes |-> 0]
    /\ previous' = {}
    /\ minUpdateInterval' = MaxOf(UnneededTime, 1)
    /\ latestUpdate' = Never
    /\ scaleUps' = [g \in NodeGroups |-> Longest]
    /\ scaleDowns' = [g \in NodeGroups |-> Longest]
    /\ scaleDownFailures' = [g \in NodeGroups |-> Longest]

PlannerInit ==
    /\ present = Nodes
    /\ since = [n \in Nodes |-> Never]
    /\ ttls = [n \in Nodes |-> 0]
    /\ previous = {}
    /\ minUpdateInterval = MaxOf(UnneededTime, 1)
    /\ latestUpdate = Never
    /\ candidate = [n \in Nodes |-> Never]
    /\ scaleUps = [g \in NodeGroups |-> Longest]
    /\ scaleDowns = [g \in NodeGroups |-> Longest]
    /\ scaleDownFailures = [g \in NodeGroups |-> Longest]

\* time passes between two loops
Pass(gap) ==
    /\ since' = [n \in Nodes |-> Older(since[n], gap)]
    /\ ttls' = [n \in Nodes |-> MaxOf(ttls[n] - gap, 0)]
    /\ candidate' = [n \in Nodes |-> Older(candidate[n], gap)]
    /\ latestUpdate' = Older(latestUpdate, gap)
    /\ scaleUps' = [g \in NodeGroups |-> Older(scaleUps[g], gap)]
    /\ scaleDowns' = [g \in NodeGroups |-> Older(scaleDowns[g], gap)]
    /\ scaleDownFailures' = [g \in NodeGroups |-> Older(scaleDownFailures[g], gap)]
    /\ UNCHANGED <<present, previous, minUpdateInterval>>

-----------------------------------------------------------------------------
CONSTANTS GracefulDegradationEnabled,
          EnforceNodeGroupMinSize,
          MayScaleUpInPart,    \* a scale-up of several groups may fail after the first
          MayFailDeletion,     \* a deletion may fail once it has started
          MayRestart,
          Gaps,                \* times between the starts of two loops
          LoadsReached,        \* bound: the loads a node may take
          MaxDisturbances      \* bound

gracefulDegradationCycle == 4

ASSUME LoopAssumption ==
    /\ Gaps \subseteq 1 .. Longest
    /\ LoadsReached \subseteq Loads
    /\ MaxDisturbances \in Nat

VARIABLES
    pc,
    seen,                      \* allNodes of this loop: the listed nodes and their loads
    as,                        \* scaleDownActuationStatus: deletions in progress, as snapshot
    deleting,                  \* the actuator's deletions
    lastScaleUpTime, lastScaleDownDeleteTime, lastScaleDownFailTime,
    disableScaleDownForLoop,
    GracefulDegradationLoopCount,   \* 0, or 1 .. gracefulDegradationCycle modulo the cycle
    disturbances,
    \* history
    scaledUp,                  \* a scale-up of this loop was successful
    increased,                 \* age of the last increase of each group
    failed,                    \* age of the last failed deletion of each group
    streak                     \* how long every pass has found a node unneeded

cooldownVars == <<lastScaleUpTime, lastScaleDownDeleteTime, lastScaleDownFailTime>>
history == <<scaledUp, increased, failed, streak>>
vars == <<present, load, plannerVars, candidate, delayVars, pc, seen, as, deleting, cooldownVars,
          disableScaleDownForLoop, GracefulDegradationLoopCount, disturbances, history>>

Disturb == disturbances > 0 /\ disturbances' = disturbances - 1

AutoscalerInit ==
    /\ PlannerInit
    /\ load \in [Nodes -> {"idle"}]
    /\ pc = "idle"
    /\ seen = load
    /\ as = {} /\ deleting = {}
    /\ lastScaleUpTime = Longest /\ lastScaleDownDeleteTime = Longest
    /\ lastScaleDownFailTime = Longest
    /\ disableScaleDownForLoop = FALSE
    /\ GracefulDegradationLoopCount = 0
    /\ disturbances = MaxDisturbances
    /\ scaledUp = FALSE
    /\ increased = [g \in NodeGroups |-> Longest]
    /\ failed = [g \in NodeGroups |-> Longest]
    /\ streak = [n \in Nodes |-> Never]

(***************************************************************************)
(* The start of an iteration: callbacks reset, nodes listed, the status of *)
(* running deletions taken.  A call to the API server or to the cloud that *)
(* fails ends the iteration here.                                          *)
(***************************************************************************)
StartLoop(gap) ==
    /\ pc = "idle"
    /\ Pass(gap)
    /\ lastScaleUpTime' = Older(lastScaleUpTime, gap)
    /\ lastScaleDownDeleteTime' = Older(lastScaleDownDeleteTime, gap)
    /\ lastScaleDownFailTime' = Older(lastScaleDownFailTime, gap)
    /\ increased' = [g \in NodeGroups |-> Older(increased[g], gap)]
    /\ failed' = [g \in NodeGroups |-> Older(failed[g], gap)]
    /\ streak' = [n \in Nodes |-> Older(streak[n], gap)]
    /\ disableScaleDownForLoop' = FALSE
    /\ scaledUp' = FALSE
    /\ seen' = [n \in present |-> load[n]]
    /\ as' = deleting
    /\ \/ pc' = "update" /\ UNCHANGED disturbances
       \/ pc' = "idle" /\ Disturb
    /\ UNCHANGED <<load, deleting, GracefulDegradationLoopCount>>

EndLoop == pc' = "idle"

UnlistedLeft == UNCHANGED <<present, load, candidate, delayVars, seen, as, deleting>>

\* the registry is up to date, the cluster healthy and no target size had to be fixed
UpdateSucceeds ==
    /\ pc = "update"
    /\ pc' = "scaleUp"
    /\ UnlistedLeft
    /\ UNCHANGED <<plannerVars, cooldownVars, disableScaleDownForLoop,
                   GracefulDegradationLoopCount, disturbances, history>>

\* updateClusterState fails, or IsClusterHealthy is false: the unneeded nodes are forgotten
UpdateFailsOrUnhealthy ==
    /\ pc = "update"
    /\ Disturb
    /\ CleanUpUnneededNodes
    /\ streak' = [n \in Nodes |-> Never]
    /\ EndLoop
    /\ UnlistedLeft
    /\ UNCHANGED <<cooldownVars, disableScaleDownForLoop, GracefulDegradationLoopCount,
                   scaledUp, increased, failed>>

\* fixNodeGroupSize fixed something or failed, or the snapshot could not be updated
UpdateEndsLoop ==
    /\ pc = "update"
    /\ Disturb
    /\ EndLoop
    /\ UnlistedLeft
    /\ UNCHANGED <<plannerVars, cooldownVars, disableScaleDownForLoop,
                   GracefulDegradationLoopCount, history>>

(***************************************************************************)
(* The scale-up phase.  The pod list processor has counted the loop as     *)
(* degraded or not before shouldScaleUp is asked.                          *)
(***************************************************************************)
manageGracefulDegradation ==
    IF GracefulDegradationEnabled
    THEN \/ GracefulDegradationLoopCount' = 0
         \/ GracefulDegradationLoopCount' =
                (GracefulDegradationLoopCount % gracefulDegradationCycle) + 1
    ELSE GracefulDegradationLoopCount' = 0

\* shouldScaleUp is false: no pods, MaxNodesTotal reached, or a loop kept for scale-down
NoScaleUp ==
    /\ pc = "scaleUp"
    /\ manageGracefulDegradation
    /\ pc' = "scaleDown"
    /\ UnlistedLeft
    /\ UNCHANGED <<plannerVars, cooldownVars, disableScaleDownForLoop, disturbances, history>>

\* shouldScaleUp is false since all pods are very new
NewPods ==
    /\ pc = "scaleUp"
    /\ Disturb
    /\ manageGracefulDegradation
    /\ disableScaleDownForLoop' = TRUE
    /\ pc' = "scaleDown"
    /\ UnlistedLeft
    /\ UNCHANGED <<plannerVars, cooldownVars, history>>

\* the context of the loop was cancelled
Cancelled ==
    /\ pc = "scaleUp"
    /\ Disturb
    /\ manageGracefulDegradation
    /\ EndLoop
    /\ UnlistedLeft
    /\ UNCHANGED <<plannerVars, cooldownVars, disableScaleDownForLoop, history>>

\* instrumentedScaleUp: groups are increased; only a scale-up without error sets the time
RunScaleUp(groups, ok) ==
    /\ scaleUps' = [g \in NodeGroups |-> IF g \in groups THEN 0 ELSE scaleUps[g]]
    /\ increased' = [g \in NodeGroups |-> IF g \in groups THEN 0 ELSE increased[g]]
    /\ lastScaleUpTime' = IF ok THEN 0 ELSE lastScaleUpTime
    /\ scaledUp' = (ok \/ scaledUp)
    /\ UNCHANGED <<present, load, candidate, scaleDowns, scaleDownFailures, seen, as, deleting,
                   plannerVars, lastScaleDownDeleteTime, lastScaleDownFailTime,
                   disableScaleDownForLoop, failed, streak>>

ScaleUp(groups, ok) ==
    /\ pc = "scaleUp"
    /\ Disturb
    /\ groups # {} /\ (~ok => MayScaleUpInPart)
    /\ manageGracefulDegradation
    /\ GracefulDegradationLoopCount' # gracefulDegradationCycle
    /\ RunScaleUp(groups, ok)
    /\ pc' = "scaleDown"

(***************************************************************************)
(* The scale-down phase.                                                   *)
(***************************************************************************)
\* a bug the properties must catch: a degraded loop never scales down
shouldScaleDownUndegraded == GracefulDegradationLoopCount = 0

shouldScaleDown ==
    GracefulDegradationLoopCount = 0 \/ GracefulDegradationLoopCount = gracefulDegradationCycle

isScaleDownInCooldown ==
    \/ disableScaleDownForLoop
    \/ /\ ~ScaleDownDelayTypeLocal
       /\ \/ lastScaleUpTime < ScaleDownDelayAfterAdd
          \/ lastScaleDownFailTime < ScaleDownDelayAfterFailure
          \/ lastScaleDownDeleteTime < ScaleDownDelayAfterDelete

SkipScaleDown ==
    /\ pc = "scaleDown"
    /\ ~shouldScaleDown
    /\ pc' = "minSize"
    /\ UnlistedLeft
    /\ UNCHANGED <<plannerVars, cooldownVars, disableScaleDownForLoop,
                   GracefulDegradationLoopCount, disturbances, history>>

\* CropNodes, by its limit on nodes in flight alone (ScaleDownBudgets has the whole of it)
Cropped(nodes) ==
    {S \in SUBSET nodes :
        /\ S # {} => Cardinality(S) + Cardinality(deleting) <= MaxScaleDownParallelism
        /\ S = nodes \/ Cardinality(S) + Cardinality(deleting) >= MaxScaleDownParallelism}

\* StartDeletion: all nodes are tainted and started, or tainting fails, possibly after the
\* empty nodes have been started
StartDeletion(nodes, ok) ==
    IF ok
    THEN /\ deleting' = deleting \cup nodes
         /\ lastScaleDownDeleteTime' = IF nodes # {} THEN 0 ELSE lastScaleDownDeleteTime
         /\ UNCHANGED lastScaleDownFailTime
         /\ pc' = "minSize"
    ELSE /\ nodes # {}
         /\ \E started \in SUBSET nodes : started # nodes /\ deleting' = deleting \cup started
         /\ lastScaleDownFailTime' = 0
         /\ UNCHANGED lastScaleDownDeleteTime
         /\ EndLoop

\* timedOut: the simulation ran out of time; ok: the nodes to delete could be tainted
ScaleDown(timedOut, ok) ==
    /\ pc = "scaleDown"
    /\ shouldScaleDown
    /\ LET spent == (IF timedOut THEN 1 ELSE 0) + (IF ok THEN 0 ELSE 1) IN
       disturbances >= spent /\ disturbances' = disturbances - spent
    /\ LET candidates == GetScaleDownCandidates(DOMAIN seen) IN
       /\ \E processed \in SUBSET candidates :
             UpdateClusterState(candidates, seen, as, timedOut, processed)
       /\ streak' = [n \in Nodes |-> IF n \notin previous' THEN Never
                                      ELSE IF streak[n] = Never THEN 0 ELSE streak[n]]
       /\ IF isScaleDownInCooldown \/ candidates = {}
          THEN /\ ok
               /\ pc' = "minSize"
               /\ UNCHANGED <<deleting, lastScaleDownDeleteTime, lastScaleDownFailTime>>
          ELSE \E S \in RemovableAt(since', seen, as) : \E nodes \in Cropped(S) :
                  StartDeletion(nodes, ok)
       /\ updateSoftDeletionTaints(DOMAIN seen, as, since')
    /\ UNCHANGED <<present, load, delayVars, seen, as, lastScaleUpTime, disableScaleDownForLoop,
                   GracefulDegradationLoopCount, scaledUp, increased, failed>>

\* nothing is below its minimum, or EnforceNodeGroupMinSize is not set
MinSizesHold ==
    /\ pc = "minSize"
    /\ EndLoop
    /\ UnlistedLeft
    /\ UNCHANGED <<plannerVars, cooldownVars, disableScaleDownForLoop,
                   GracefulDegradationLoopCount, disturbances, history>>

ScaleUpToNodeGroupMinSize(groups) ==
    /\ pc = "minSize"
    /\ EnforceNodeGroupMinSize /\ groups # {}
    /\ Disturb
    /\ RunScaleUp(groups, TRUE)
    /\ EndLoop
    /\ UNCHANGED GracefulDegradationLoopCount

(***************************************************************************)
(* What runs beside the loop: the goroutines of the actuator, the load of  *)
(* the nodes, and a restart of the autoscaler, which cleans the deletion   *)
(* taints its predecessor left.                                            *)
(***************************************************************************)
LoopLeft == UNCHANGED <<pc, seen, as, cooldownVars, disableScaleDownForLoop,
                        GracefulDegradationLoopCount, scaledUp, increased>>

DeletionSucceeds(n) ==
    /\ n \in deleting
    /\ deleting' = deleting \ {n}
    /\ present' = present \ {n}
    /\ scaleDowns' = [scaleDowns EXCEPT ![GroupOf[n]] = 0]
    /\ candidate' = [candidate EXCEPT ![n] = Never]
    /\ LoopLeft
    /\ UNCHANGED <<load, plannerVars, scaleUps, scaleDownFailures, disturbances, failed, streak>>

\* the cloud refuses the deletion, or the node cannot be drained: only the former is announced
DeletionFails(n, refused) ==
    /\ n \in deleting /\ MayFailDeletion
    /\ Disturb
    /\ deleting' = deleting \ {n}
    /\ scaleDownFailures' = IF refused THEN [scaleDownFailures EXCEPT ![GroupOf[n]] = 0]
                                       ELSE scaleDownFailures
    /\ failed' = [failed EXCEPT ![GroupOf[n]] = 0]
    /\ LoopLeft
    /\ UNCHANGED <<present, load, candidate, plannerVars, scaleUps, scaleDowns, streak>>

LoadChanges(n) ==
    /\ n \in present \ deleting
    /\ Disturb
    /\ load' \in {[load EXCEPT ![n] = l] : l \in LoadsReached \ {load[n]}}
    /\ LoopLeft
    /\ UNCHANGED <<present, candidate, plannerVars, delayVars, deleting, failed, streak>>

\* the clocks of the cooldowns start afresh, on purpose (NewStaticAutoscaler), and so does the history
Restart ==
    /\ MayRestart
    /\ Disturb
    /\ NewPlanner
    /\ deleting' = {}
    /\ EndLoop
    /\ lastScaleUpTime' = Longest /\ lastScaleDownDeleteTime' = Longest
    /\ lastScaleDownFailTime' = Longest
    /\ disableScaleDownForLoop' = FALSE
    /\ GracefulDegradationLoopCount' = 0
    /\ scaledUp' = FALSE
    /\ increased' = [g \in NodeGroups |-> Longest]
    /\ failed' = [g \in NodeGroups |-> Longest]
    /\ UNCHANGED <<present, load, candidate, seen, as, streak>>

RunOnce ==
    \/ \E gap \in Gaps : StartLoop(gap)
    \/ UpdateSucceeds \/ UpdateFailsOrUnhealthy \/ UpdateEndsLoop
    \/ NoScaleUp \/ NewPods \/ Cancelled
    \/ \E groups \in SUBSET NodeGroups, ok \in BOOLEAN : ScaleUp(groups, ok)
    \/ SkipScaleDown
    \/ \E timedOut, ok \in BOOLEAN : ScaleDown(timedOut, ok)
    \/ MinSizesHold
    \/ \E groups \in SUBSET NodeGroups : ScaleUpToNodeGroupMinSize(groups)

Next ==
    \/ RunOnce
    \/ \E n \in Nodes : DeletionSucceeds(n)
    \/ \E n \in Nodes, refused \in BOOLEAN : DeletionFails(n, refused)
    \/ \E n \in Nodes : LoadChanges(n)
    \/ Restart

Spec == AutoscalerInit /\ [][Next]_vars

(***************************************************************************)
(* The loop goes on for ever - it is run again by a trigger at the latest  *)
(* after the scan interval - and every goroutine of the actuator ends.     *)
(***************************************************************************)
FairSpec == /\ Spec
            /\ []<><<pc' # pc>>_vars
            /\ \A n \in Nodes : []<>(n \notin deleting)

-----------------------------------------------------------------------------

\* The types of the variables; an age is never above its bound.
TypeOK ==
    /\ present \subseteq Nodes /\ deleting \subseteq present /\ as \subseteq Nodes
    /\ load \in [Nodes -> Loads]
    /\ since \in [Nodes -> Ages \cup {Never}] /\ candidate \in [Nodes -> Ages \cup {Never}]
    /\ ttls \in [Nodes -> 0 .. RecheckTimeout]
    /\ previous \subseteq Nodes
    /\ minUpdateInterval \in 1 .. Longest /\ latestUpdate \in Ages \cup {Never}
    /\ \A d \in {scaleUps, scaleDowns, scaleDownFailures, increased, failed} : d \in [NodeGroups -> Ages]
    /\ {lastScaleUpTime, lastScaleDownDeleteTime, lastScaleDownFailTime} \subseteq Ages
    /\ pc \in {"idle", "update", "scaleUp", "scaleDown", "minSize"}
    /\ DOMAIN seen \subseteq Nodes
    /\ disableScaleDownForLoop \in BOOLEAN /\ scaledUp \in BOOLEAN
    /\ GracefulDegradationLoopCount \in 0 .. gracefulDegradationCycle
    /\ disturbances \in 0 .. MaxDisturbances
    /\ streak \in [Nodes -> Ages \cup {Never}]

Starting == deleting' \ deleting

(***************************************************************************)
(* FAQ.md:1164: a node that was unneeded for less than its time is not     *)
(* scaled down.  A deletion starts only if no planning pass, no clean-up   *)
(* of the planner and no failed update within the threshold of the node    *)
(* found it anything but unneeded (unneeded/nodes.go, RemovableAt).        *)
(***************************************************************************)
DeletedOnlyAfterUnneededTime ==
    [][\A n \in Starting : Threshold(seen[n]) > 0 => streak[n] > Threshold(seen[n])]_vars

(***************************************************************************)
(* FAQ.md:1167: no scale-down within ScaleDownDelayAfterAdd of a scale-up: *)
(* of any group, or of the node's own group with local delays              *)
(* (isScaleDownInCooldown, ScaleDownCandidatesDelayProcessor).             *)
(***************************************************************************)
CooldownAfterScaleUp ==
    [][\A n \in Starting, g \in NodeGroups :
          (ScaleDownDelayTypeLocal => g = GroupOf[n]) => increased[g] >= ScaleDownDelayAfterAdd]_vars

(***************************************************************************)
(* What a deletion has to wait for, both delays together.                  *)
(***************************************************************************)
ScaleDownsAreDue == DeletedOnlyAfterUnneededTime /\ CooldownAfterScaleUp

(***************************************************************************)
(* Once the cluster is left alone, every idle node of a group above its    *)
(* minimum is deleted, however many loops are degraded.                    *)
(***************************************************************************)
IdleNodesGo ==
    \A n \in Nodes :
        []<>(\/ n \notin present
             \/ load[n] \in {"busy", "stuck"}
             \/ GroupSize(GroupOf[n]) <= MinSize[GroupOf[n]])
==============================================================================
