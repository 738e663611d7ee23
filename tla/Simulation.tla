----------------------------- MODULE Simulation -----------------------------
(***************************************************************************)
(* The simulations of one autoscaler loop on the shared cluster snapshot,  *)
(* in the order of StaticAutoscaler.RunOnce: the snapshot is rebuilt and   *)
(* upcoming nodes are injected; the pod list processors try the pending    *)
(* pods on the nodes there are (unforked, so that what is placed stays);   *)
(* expansion options are estimated and, in a salvo, their nodes are        *)
(* injected; the scale-down planner places the pods evicted of late and    *)
(* simulates the removal of its candidates, each building on the removals  *)
(* that succeeded before it.  Hints outlive the loop.                      *)
(*                                                                         *)
(* `views' holds, for every open fork, what the snapshot showed when it    *)
(* was forked.                                                             *)
(***************************************************************************)
EXTENDS Integers, FiniteSets, FiniteSetsExt, Sequences, PredicateSnapshot, SequencesExt

-----------------------------------------------------------------------------
(***************************************************************************)
(* Which pods of a node may be moved: the drainability rules in the order  *)
(* of rules.Default, the pods a drain moves (simulator/drain.go) and the   *)
(* tracker of what is left of the disruption budgets                       *)
(* (core/scaledown/pdb/basic.go).  A pod is the set of facts the rules     *)
(* read; a budget is the set of pods it selects.                           *)
(***************************************************************************)
CONSTANTS Facts,              \* Facts[p]: what holds of the pod, among PodFacts
          Selects,            \* Selects[b]: the pods that disruption budget b selects
          SkipNodesWithSystemPods, SkipNodesWithLocalStorage, SkipNodesWithCustomControllerPods

PodFacts == {"mirror", "longTerminating", "controllerGone", "fewReplicas", "daemonSet",
             "safeToEvict", "terminal", "onCompletion", "controlled", "knownKind",
             "kubeSystem", "disruptionTimeoutPassed", "notSafeToEvict", "localStorage"}
Budgets == DOMAIN Selects

\* A rule's answer: the outcome where one of the facts holds, else none.
Rule(p, facts, outcome) == IF Facts[p] \cap facts # {} THEN outcome ELSE "undefined"
When(condition, outcome) == IF condition THEN outcome ELSE "undefined"

MatchingPdbs(p) == {b \in Budgets : p \in Selects[b]}

mirror(p) == Rule(p, {"mirror"}, "skip")
longterminating(p) == Rule(p, {"longTerminating"}, "skip")
replicacount(p) ==
    When(/\ SkipNodesWithCustomControllerPods
         /\ "controlled" \in Facts[p]
         /\ Facts[p] \cap {"controllerGone", "fewReplicas"} # {}, "block")
daemonset(p) == Rule(p, {"daemonSet"}, "ok")
safetoevict(p) == Rule(p, {"safeToEvict"}, "ok")
terminal(p) == Rule(p, {"terminal"}, "ok")
oncompletion(p) == Rule(p, {"onCompletion"}, "wait")
replicated(p) ==
    When(\/ "controlled" \notin Facts[p]
         \/ SkipNodesWithCustomControllerPods /\ "knownKind" \notin Facts[p], "block")
system(p) ==
    IF ~SkipNodesWithSystemPods \/ "kubeSystem" \notin Facts[p] \/ MatchingPdbs(p) # {} THEN "undefined"
    ELSE IF "disruptionTimeoutPassed" \in Facts[p] THEN "ok" ELSE "block"
notsafetoevict(p) == Rule(p, {"notSafeToEvict"}, "block")
localstorage(p) == When(SkipNodesWithLocalStorage /\ "localStorage" \in Facts[p], "block")
pdbrule(p, allowed) == When(\E b \in MatchingPdbs(p) : allowed[b] < 1, "block")

\* rules.Default
Default(p, allowed) ==
    <<mirror(p), longterminating(p), replicacount(p), daemonset(p), safetoevict(p), terminal(p),
      oncompletion(p), replicated(p), system(p), notsafetoevict(p), localstorage(p), pdbrule(p, allowed)>>

\* Rules.Drainable: the first rule that decides.  No rule of the default list overrides
\* the outcome of a later one.
Drainable(p, allowed) ==
    LET outcomes == Default(p, allowed)
        decided == {i \in DOMAIN outcomes : outcomes[i] # "undefined"}
    IN  IF decided = {} THEN "undefined" ELSE outcomes[Min(decided)]

\* GetPodsToMove
GetPodsToMove(pods, allowed) ==
    LET having(outcomes) == {p \in pods : Drainable(p, allowed) \in outcomes}
        movable == having({"undefined", "ok"})
    IN  [pods |-> {p \in movable : "daemonSet" \notin Facts[p]},
         daemonSetPods |-> {p \in movable : "daemonSet" \in Facts[p]},
         onCompletionPods |-> having({"wait"}),
         blocked |-> having({"block"}) # {}]

\* The remaining budgets.  CanRemovePods' second result: all of them at once.
CanRemovePods(pods, allowed) == \A b \in Budgets : pods \cap Selects[b] # {} => allowed[b] >= 1
CanRemoveInParallel(pods, allowed) ==
    \A b \in Budgets : pods \cap Selects[b] # {} => allowed[b] >= Cardinality(pods \cap Selects[b])
RemovePods(pods, allowed) == [b \in Budgets |-> allowed[b] - Cardinality(pods \cap Selects[b])]

-----------------------------------------------------------------------------
(***************************************************************************)
(* TrySchedulePods (simulator/scheduling/hinting_simulator.go) with its    *)
(* hints (hints.go) and the cache of pods known not to fit                 *)
(* (similar_pods.go), over the cluster snapshot.  A call is a record:      *)
(*   rest          the pods of the priorities still to come                *)
(*   hinted        the pods of the current priority to try with a hint     *)
(*   unhinted      those that found no place by a hint                     *)
(*   searching     TRUE once all hints of the priority were tried          *)
(*   placed        <<pod, node>> of the pods that found a place            *)
(*   unschedulable, similar, err                                           *)
(* The pods of one priority come in the order of the caller's list, which  *)
(* may be any.                                                             *)
(***************************************************************************)
CONSTANTS Priority,          \* Priority[p]
          Template,          \* Template[p]: the pod's <<controller, spec>>, Nil without a controller
          MaxPodsPerOwnerRef

NewHints == [current |-> [p \in Pods |-> Nil], old |-> [p \in Pods |-> Nil]]
GetHint(hints, p) == IF hints.current[p] # Nil THEN hints.current[p] ELSE hints.old[p]
SetHint(hints, p, n) == [hints EXCEPT !.current[p] = n]
DropOld(hints) == [current |-> [p \in Pods |-> Nil], old |-> hints.current]

IsSimilarUnschedulable(similar, p) == Template[p] # Nil /\ Template[p] \in similar
SetUnschedulable(similar, p) ==
    IF \/ Template[p] = Nil \/ "daemonSet" \in Facts[p]
       \/ Cardinality({t \in similar : t[1] = Template[p][1]}) >= MaxPodsPerOwnerRef
    THEN similar ELSE similar \cup {Template[p]}

-----------------------------------------------------------------------------
\* groupByPriority: the pods of the highest priority come first.
HighestPriority(pods) == {p \in pods : \A q \in pods : Priority[q] <= Priority[p]}

NextGroup(call) ==
    LET group == HighestPriority(call.rest)
    IN  [call EXCEPT !.rest = @ \ group, !.hinted = group, !.unhinted = {}, !.searching = FALSE]

\* The end of a phase, and of a priority.
Advance(call) ==
    IF ~call.searching /\ call.hinted = {} THEN
        IF call.unhinted # {} THEN [call EXCEPT !.searching = TRUE] ELSE NextGroup(call)
    ELSE IF call.searching /\ call.unhinted = {} THEN NextGroup(call)
    ELSE call

NewCall(pods, breakOnFailure, acceptable) ==
    NextGroup([rest |-> pods, hinted |-> {}, unhinted |-> {}, searching |-> FALSE, placed |-> {},
               unschedulable |-> {}, similar |-> {}, all |-> pods, err |-> "ok",
               breakOnFailure |-> breakOnFailure, acceptable |-> acceptable])

Finished(call) == call.err # "ok" \/ (call.hinted = {} /\ call.unhinted = {} /\ call.rest = {})

\* UnprocessedPods of newResult
Unprocessed(call) == call.all \ ({pn[1] : pn \in call.placed} \cup call.unschedulable)

Step(snap, call, hints) == [snap |-> snap, call |-> call, hints |-> hints]
Place(call, p, n) ==
    [call EXCEPT !.hinted = @ \ {p}, !.unhinted = @ \ {p}, !.placed = @ \cup {<<p, n>>}]
WithoutHint(call, p) == [call EXCEPT !.hinted = @ \ {p}, !.unhinted = @ \cup {p}]

\* tryScheduleUsingHints for the next pod of the loop in tryScheduleWithHints.
tryScheduleUsingHints(snap, call, hints, p) ==
    LET n == GetHint(hints, p)
    IN  IF n = Nil \/ GetNodeInfo(snap, n) = Nil \/ n \notin call.acceptable
        THEN {Step(snap, Advance(WithoutHint(call, p)), hints)}
        ELSE {IF r.err = "ok" THEN Step(r.snap, Advance(Place(call, p, n)), SetHint(hints, p, n))
              ELSE IF r.err = "predicate" THEN Step(r.snap, Advance(WithoutHint(call, p)), hints)
              ELSE Step(r.snap, [call EXCEPT !.err = r.err], hints) : r \in SchedulePod(snap, p, n)}

\* A pod without a place; with breakOnFailure the rest of its priority is skipped.
NoPlace(call, p) ==
    [call EXCEPT !.unschedulable = @ \cup {p},
                 !.unhinted = IF call.breakOnFailure THEN {} ELSE @ \ {p}]

\* trySchedule for the next pod of the loop in tryScheduleWithoutHints.
trySchedule(snap, call, hints, p) ==
    IF IsSimilarUnschedulable(call.similar, p) THEN {Step(snap, Advance(NoPlace(call, p)), hints)}
    ELSE {IF r.err = "ok" THEN Step(r.snap, Advance(Place(call, p, r.node)), SetHint(hints, p, r.node))
          ELSE IF r.err = "predicate"
          THEN Step(r.snap, Advance([NoPlace(call, p) EXCEPT !.similar = SetUnschedulable(@, p)]), hints)
          ELSE Step(r.snap, [call EXCEPT !.err = r.err], hints) :
             r \in SchedulePodOnAnyNodeMatching(snap, p, call.acceptable)}

\* One pod of the call.
TryNext(snap, call, hints) ==
    IF call.searching THEN UNION {trySchedule(snap, call, hints, p) : p \in call.unhinted}
    ELSE UNION {tryScheduleUsingHints(snap, call, hints, p) : p \in call.hinted}

-----------------------------------------------------------------------------
(***************************************************************************)
(* How many new nodes a set of pending pods needs                          *)
(* (estimator/binpacking_estimator.go), within the limits of               *)
(* threshold_based_limiter.go, over the cluster snapshot.  An estimate in  *)
(* progress is a record:                                                   *)
(*   groups     the pod groups still to come, each a sequence of pods      *)
(*   pods       what is left of the current group                          *)
(*   phase      "existing"; "new", "last" (the newest node has just been   *)
(*              added for the next pod); "fast", "fill", "extrapolate" of  *)
(*              the fast path; "done" or "failed"                          *)
(*   scheduled, lastNode, newNodes, nodesWithPods  as in estimationState   *)
(*   nodesAvailable, fastpath, podsPerNode, maxNodes, granted              *)
(***************************************************************************)
CONSTANTS NewNodes,            \* sequence: the names of the nodes an estimate adds
          TemplatePods,        \* TemplatePods[n]: the daemon pods such a node comes with
          MaxNodesPerScaleUp,  \* staticThreshold, 0 for no limit
          MaxNodesTotal        \* 0 for no limit

-----------------------------------------------------------------------------
\* The limiter.  A limit of 0 is no limit and a negative one admits no node.

getMinLimit(baseLimit, targetLimit) ==
    IF baseLimit < 0 \/ targetLimit < 0 THEN -1
    ELSE IF (baseLimit = 0 \/ baseLimit > targetLimit) /\ targetLimit > 0 THEN targetLimit
    ELSE baseLimit

ClusterCapacityLimit(currentNodes) ==
    IF MaxNodesTotal = 0 THEN 0
    ELSE IF MaxNodesTotal <= currentNodes THEN -1 ELSE MaxNodesTotal - currentNodes

\* sngCapacityThreshold: `capacity' is what the group and its similar groups may still grow.
SimilarGroupsLimit(capacity) == IF capacity <= 0 THEN -1 ELSE capacity

\* StartEstimation: the limits of the three thresholds, one after the other.
StartEstimation(currentNodes, capacity) ==
    getMinLimit(getMinLimit(getMinLimit(0, MaxNodesPerScaleUp), SimilarGroupsLimit(capacity)),
                ClusterCapacityLimit(currentNodes))

\* PermissionToAddNode's answers; the time may be over at any call.
PermissionToAddNode(est) ==
    IF est.maxNodes < 0 \/ (est.maxNodes > 0 /\ est.granted >= est.maxNodes) THEN {FALSE} ELSE BOOLEAN

-----------------------------------------------------------------------------
\* hasTopologyConstraintError: the filters get as far as the spreading, which refuses.
TopologyRefuses(snap, p, n) ==
    /\ Cardinality(GetNodeInfo(snap, n).pods) < MaxPods[n]
    /\ SpreadRefuses(snap, p, n)

\* SanitizedNodeInfo: a copy of the template under a fresh name.
SanitizedNodeInfo(n) == NodeInfo(n, TemplatePods[n])

shouldUseFastPath(group) == Len(group) > 0 /\ group[1] \notin HostSpread

\* Estimate up to the Fork: the groups in the orderer's order, the one for the fast path last.
NewEstimate(groups, fastpath, currentNodes, capacity) ==
    [groups |-> Tail(groups), pods |-> Head(groups), phase |-> "existing", scheduled |-> {},
     lastNode |-> Nil, newNodes |-> {}, nodesWithPods |-> {}, nodesAvailable |-> TRUE,
     fastpath |-> fastpath, podsPerNode |-> 0, capacity |-> capacity,
     maxNodes |-> StartEstimation(currentNodes, capacity), granted |-> 0]

At(snap, est) == [snap |-> snap, est |-> est]

trackScheduledPod(est, p, n) ==
    [est EXCEPT !.scheduled = @ \cup {p}, !.nodesWithPods = @ \cup {n}, !.pods = Tail(@)]

\* The next group, or the end of the estimate.
NextPodGroup(est) ==
    IF est.groups = <<>> THEN [est EXCEPT !.phase = "done"]
    ELSE [est EXCEPT !.groups = Tail(@), !.pods = Head(est.groups), !.phase = "existing"]

Fail(est) == [est EXCEPT !.phase = "failed"]

\* After tryToScheduleOnExistingNodes: the pods that are left go to new nodes, if any may come.
AfterExisting(est) ==
    IF ~est.nodesAvailable THEN NextPodGroup(est)
    ELSE [est EXCEPT !.phase = IF est.fastpath /\ est.groups = <<>> THEN "fast" ELSE "new"]

tryToScheduleOnExistingNodes(snap, est) ==
    IF est.pods = <<>> THEN {At(snap, AfterExisting(est))}
    ELSE {IF r.err = "ok" THEN At(r.snap, trackScheduledPod(est, Head(est.pods), r.node))
          ELSE At(r.snap, IF r.err = "predicate" THEN AfterExisting(est) ELSE Fail(est)) :
            r \in SchedulePodOnAnyNodeMatching(snap, Head(est.pods), est.newNodes)}

NewNode(est) == NewNodes[Cardinality(est.newNodes) + 1]
NodeAdded(est, r, phase) ==
    At(r.snap, IF r.err # "ok" THEN Fail(est)
               ELSE [est EXCEPT !.lastNode = NewNode(est), !.newNodes = @ \cup {NewNode(est)},
                                !.granted = @ + 1, !.phase = phase])
addNewNodeToSnapshot(snap, est, phase) ==
    NodeAdded(est, AddNodeInfo(snap, NewNode(est), SanitizedNodeInfo(NewNode(est))), phase)

\* No node takes the pod: an empty last node ends the group, and so does a refused permission,
\* after which no group gets a new node.
AddNode(snap, est) ==
    IF est.lastNode # Nil /\ est.lastNode \notin est.nodesWithPods THEN {At(snap, NextPodGroup(est))}
    ELSE {IF permitted THEN addNewNodeToSnapshot(snap, est, "last")
          ELSE At(snap, NextPodGroup([est EXCEPT !.nodesAvailable = FALSE])) :
            permitted \in PermissionToAddNode(est)}

\* The last node has refused the pod because of its spreading: any other node will do.
OnAnotherNode(snap, est) ==
    UNION {IF r.err = "ok" THEN {At(r.snap, trackScheduledPod(est, Head(est.pods), r.node))}
           ELSE IF r.err = "predicate" THEN AddNode(r.snap, est) ELSE {At(r.snap, Fail(est))} :
             r \in SchedulePodOnAnyNodeMatching(snap, Head(est.pods), Nodes \ {est.lastNode})}

\* One pod of tryToScheduleOnNewNodes.
tryToScheduleOnNewNodes(snap, est) ==
    LET p == Head(est.pods)
    IN  IF est.pods = <<>> THEN {At(snap, NextPodGroup(est))}
        ELSE IF est.lastNode = Nil THEN AddNode(snap, est)
        ELSE UNION {IF r.err = "ok" THEN {At(r.snap, trackScheduledPod(est, p, est.lastNode))}
                    ELSE IF r.err = "internal" THEN {At(r.snap, Fail(est))}
                    ELSE IF TopologyRefuses(snap, p, est.lastNode) THEN OnAnotherNode(r.snap, est)
                    ELSE AddNode(r.snap, est) : r \in SchedulePod(snap, p, est.lastNode)}

\* The pod for which the last node was added.
ScheduleOnFreshNode(snap, est) ==
    LET p == Head(est.pods)
        back == [est EXCEPT !.phase = "new"]
    IN  {At(r.snap, IF r.err = "ok" THEN trackScheduledPod(back, p, est.lastNode)
                    ELSE IF r.err = "predicate" THEN NextPodGroup(est) ELSE Fail(est)) :
            r \in SchedulePod(snap, p, est.lastNode)}

\* tryFastPath: one node is filled ...
StartFastPath(snap, est) ==
    IF est.pods = <<>> THEN {At(snap, NextPodGroup(est))}
    ELSE {IF permitted THEN addNewNodeToSnapshot(snap, est, "fill")
          ELSE At(snap, NextPodGroup([est EXCEPT !.nodesAvailable = FALSE])) :
            permitted \in PermissionToAddNode(est)}

FillFastNode(snap, est) ==
    IF est.pods = <<>> THEN {At(snap, [est EXCEPT !.phase = "extrapolate"])}
    ELSE {IF r.err = "ok"
          THEN At(r.snap, [trackScheduledPod(est, Head(est.pods), est.lastNode) EXCEPT !.podsPerNode = @ + 1])
          ELSE At(r.snap, IF r.err = "predicate" THEN [est EXCEPT !.phase = "extrapolate"] ELSE Fail(est)) :
            r \in SchedulePod(snap, Head(est.pods), est.lastNode)}

MinOf(a, b) == IF a < b THEN a ELSE b

\* ... and the others, each with its permission, get as many pods without a simulation.
ExtrapolateFastPath(snap, est) ==
    LET k == est.podsPerNode
        wanted == (Len(est.pods) + k - 1) \div k
        most == IF est.maxNodes > 0 THEN MinOf(wanted, est.maxNodes - est.granted) ELSE wanted
        taken(j) == MinOf(j * k, Len(est.pods))
    IN  IF k = 0 THEN {At(snap, NextPodGroup(est))}
        ELSE {At(snap, NextPodGroup(
                 [est EXCEPT !.nodesAvailable = (j = wanted), !.granted = @ + j,
                             !.scheduled = @ \cup {est.pods[i] : i \in 1 .. taken(j)},
                             !.nodesWithPods = @ \cup {<<est.lastNode, i>> : i \in 1 .. j}])) :
                j \in 0 .. most}

EstimateStep(snap, est) ==
    CASE est.phase = "existing" -> tryToScheduleOnExistingNodes(snap, est)
      [] est.phase = "new" -> tryToScheduleOnNewNodes(snap, est)
      [] est.phase = "last" -> ScheduleOnFreshNode(snap, est)
      [] est.phase = "fast" -> StartFastPath(snap, est)
      [] est.phase = "fill" -> FillFastNode(snap, est)
      [] est.phase = "extrapolate" -> ExtrapolateFastPath(snap, est)

\* What Estimate returns.
EstimatedNodes(est) == IF est.phase = "failed" THEN 0 ELSE Cardinality(est.nodesWithPods)
EstimatedPods(est) == IF est.phase = "failed" THEN {} ELSE est.scheduled

-----------------------------------------------------------------------------
CONSTANTS Worlds,               \* what the listers may return at the start of a loop
          MaxLoops,             \* bound: loops
          MaxEstimates,         \* bound: options estimated in a loop
          ExpendablePodsPriorityCutoff,
          GracefulDegradationEnabled,
          SalvoNodes            \* sequence: the names of the nodes a salvo injects

VARIABLES snap, hints, stage, world, pending, task, views,
          estimates,      \* bound: estimates made in this loop
          candidates, destinations, allowed, removable, loops

vars == <<snap, hints, stage, world, pending, task, views, estimates,
          candidates, destinations, allowed, removable, loops>>

Simulators == {"filter", "inject", "removal"}
Idle == [name |-> "none"]
RealNodes == {n \in Nodes : world.cluster[n] # Nil} \ world.notStarted

LeaveTask == task' = Idle
KeepPlan == UNCHANGED <<candidates, destinations, allowed, removable>>

-----------------------------------------------------------------------------
\* The start of a loop

\* FilterOutExpendablePods
NotExpendable(pods) == {p \in pods : Priority[p] >= ExpendablePodsPriorityCutoff}

\* addUpcomingNodesToClusterSnapshot, then the registered nodes they stand for are removed
RemoveIfThere(s, n) == IF GetNodeInfo(s, n) = Nil THEN Ok(s) ELSE RemoveNodeInfo(s, n)
AddNodes(s, nodes) ==
    FoldSet(LAMBDA n, r : Then(r, LAMBDA t : AddNodeInfo(t, n, SanitizedNodeInfo(n))), Ok(s), nodes)
InjectUpcoming(s, w) ==
    FoldSet(LAMBDA n, r : Then(r, LAMBDA t : RemoveIfThere(t, n)), AddNodes(s, w.upcoming), w.notStarted)

\* currentlyDrainedPods and FilterRecreatablePods
CurrentlyDrainedPods(s, w) ==
    UNION {{p \in GetNodeInfo(s, n).pods : Facts[p] \cap {"daemonSet", "mirror", "longTerminating"} = {}} :
              n \in {m \in w.draining : GetNodeInfo(s, m) # Nil}}

\* initializeClusterSnapshot and the upcoming nodes
ClusterOf(w) ==
    Then(SetClusterState([n \in Nodes |-> IF w.cluster[n] = Nil THEN Nil
                                          ELSE [w.cluster[n] EXCEPT !.pods = NotExpendable(@)]], w.claims),
         LAMBDA s : InjectUpcoming(s, w))

StartFilter(w, r) ==
    /\ snap' = r.snap
    /\ IF r.err = "ok"
       THEN /\ stage' = "filter"
            /\ task' = NewCall(NotExpendable(w.pending) \cup CurrentlyDrainedPods(r.snap, w), FALSE, Nodes)
       ELSE stage' = "loop" /\ task' = Idle

BeginLoop ==
    /\ stage = "loop" /\ loops < MaxLoops
    /\ \E w \in Worlds : /\ StartFilter(w, ClusterOf(w))
                         /\ world' = w
                         /\ allowed' = w.disruptionsAllowed
    /\ loops' = loops + 1
    /\ pending' = {} /\ estimates' = 0 /\ candidates' = {} /\ destinations' = {} /\ removable' = {}
    /\ UNCHANGED <<hints, views>>

-----------------------------------------------------------------------------
\* TrySchedulePods, for the three that call it

SimulatorOf == CASE stage = "filter" -> "filter" [] stage = "inject" -> "inject" [] OTHER -> "removal"

TrySchedulePod ==
    /\ stage \in {"filter", "inject", "remove"} /\ ~Finished(task)
    /\ \E r \in TryNext(snap, task, hints[SimulatorOf]) :
          /\ snap' = r.snap
          /\ task' = r.call
          /\ hints' = [hints EXCEPT ![SimulatorOf] = r.hints]
    /\ UNCHANGED <<stage, world, pending, views, estimates, loops>> /\ KeepPlan

\* filterOutSchedulableByPacking: the pods that were tried in vain remain, and those the
\* deadline has cut off are dropped for this loop; then daemon set pods are filtered out.
FilteredOut ==
    /\ stage = "filter"
    /\ Finished(task) \/ GracefulDegradationEnabled
    /\ pending' = IF task.err = "ok" THEN {p \in task.unschedulable : "daemonSet" \notin Facts[p]} ELSE {}
    /\ hints' = IF task.err = "ok" THEN [hints EXCEPT !["filter"] = DropOld(@)] ELSE hints
    /\ stage' = "scaleup" /\ LeaveTask
    /\ UNCHANGED <<snap, world, views, estimates, loops>> /\ KeepPlan

-----------------------------------------------------------------------------
\* Scale-up

\* SchedulablePodGroups: a fork with one more node, on which each pod is tried.
PodsThatFit(r, pods, n) ==
    IF r.err # "ok" THEN [snap |-> RevertSnapshot(r.snap), pods |-> {}]
    ELSE [snap |-> RevertSnapshot(FoldSet(LAMBDA p, s : Filtered(s, p), r.snap, pods)),
          pods |-> {p \in pods : FilterPasses(r.snap, p, n)}]
SchedulablePodGroups(s, pods) ==
    PodsThatFit(AddNodes(ForkSnapshot(s), {NewNodes[1]}), pods, NewNodes[1])

\* Pods of one template make a group, which the orderer may put anywhere.
GroupsOf(pods) ==
    {groups \in [1 .. Cardinality({Template[p] : p \in pods}) -> {SetToSeq({p \in pods : Template[p] = t}) :
                     t \in {Template[p] : p \in pods}}] :
        \A i, j \in DOMAIN groups : groups[i] = groups[j] => i = j}

BeginEstimate(s, pods) ==
    IF pods = {} THEN snap' = s /\ UNCHANGED <<stage, task, views>>
    ELSE \E groups \in GroupsOf(pods), fastpath \in BOOLEAN, capacity \in 0 .. Len(NewNodes) :
            /\ fastpath => shouldUseFastPath(groups[Len(groups)])
            /\ snap' = ForkSnapshot(s)
            /\ views' = Append(views, Visible(s))
            /\ task' = NewEstimate(groups, fastpath, Cardinality(RealNodes), capacity)
            /\ stage' = "estimate"

StartEstimate ==
    /\ stage = "scaleup" /\ pending # {} /\ estimates < MaxEstimates
    /\ estimates' = estimates + 1
    /\ \E r \in {SchedulablePodGroups(snap, pending)} : BeginEstimate(r.snap, r.pods)
    /\ UNCHANGED <<hints, world, pending, loops>> /\ KeepPlan

Estimate ==
    /\ stage = "estimate" /\ task.phase \notin {"done", "failed"}
    /\ \E r \in EstimateStep(snap, task) : snap' = r.snap /\ task' = r.est
    /\ UNCHANGED <<hints, stage, world, pending, views, estimates, loops>> /\ KeepPlan

UnusedSalvoNodes == SelectSeq(SalvoNodes, LAMBDA n : GetNodeInfo(snap, n) = Nil)

\* The deferred Revert; then the next option, or the option is carried out, and in a salvo
\* the pods that are left are looked at again once the new nodes are in the snapshot.
EndEstimate ==
    /\ stage = "estimate" /\ task.phase \in {"done", "failed"}
    /\ snap' = RevertSnapshot(snap)
    /\ views' = Front(views)
    /\ \/ stage' = "scaleup" /\ LeaveTask /\ UNCHANGED pending
       \/ /\ EstimatedNodes(task) \in 1 .. Len(UnusedSalvoNodes)
          /\ pending' = pending \ EstimatedPods(task)
          /\ IF pending' = {} THEN stage' = "scaledown" /\ LeaveTask
             ELSE /\ stage' = "salvo"
                  /\ task' = [nodes |-> EstimatedNodes(task), pods |-> EstimatedPods(task), added |-> {}]
    /\ UNCHANGED <<hints, world, estimates, loops>> /\ KeepPlan

\* addLatestScaleUpResultsToClusterSnapshot: the nodes, then the pods, one by one; an error
\* ends the salvo.
SalvoAddsNodes ==
    /\ stage = "salvo" /\ task.added = {}
    /\ LET names == {UnusedSalvoNodes[i] : i \in 1 .. task.nodes}
       IN  \E r \in {AddNodes(snap, names)} :
              /\ snap' = r.snap
              /\ IF r.err = "ok" THEN task' = [task EXCEPT !.added = names] /\ UNCHANGED stage
                                 ELSE LeaveTask /\ stage' = "scaledown"
    /\ UNCHANGED <<hints, world, pending, views, estimates, loops>> /\ KeepPlan

SalvoPlacesPod ==
    /\ stage = "salvo" /\ task.added # {} /\ task.pods # {}
    /\ \E p \in task.pods : \E r \in SchedulePodOnAnyNodeMatching(snap, p, task.added) :
          /\ snap' = r.snap
          /\ IF r.err = "ok" THEN task' = [task EXCEPT !.pods = @ \ {p}] /\ UNCHANGED stage
                             ELSE LeaveTask /\ stage' = "scaledown"
    /\ UNCHANGED <<hints, world, pending, views, estimates, loops>> /\ KeepPlan

NextScaleUp ==
    /\ stage = "salvo" /\ task.added # {} /\ task.pods = {}
    /\ stage' = "scaleup" /\ LeaveTask
    /\ UNCHANGED <<snap, hints, world, pending, views, estimates, loops>> /\ KeepPlan

EndScaleUp ==
    /\ stage = "scaleup"
    /\ stage' = "scaledown"
    /\ UNCHANGED <<snap, hints, world, pending, task, views, estimates, loops>> /\ KeepPlan

-----------------------------------------------------------------------------
\* Scale-down planning

\* UpdateClusterState up to injectPods
StartPlanning ==
    /\ stage = "scaledown"
    /\ snap' = ForkSnapshot(snap)
    /\ views' = Append(views, Visible(snap))
    /\ task' = NewCall({p \in world.evicted : Facts[p] \cap {"daemonSet", "mirror"} = {}}, TRUE, Nodes)
    /\ stage' = "inject"
    /\ UNCHANGED <<hints, world, pending, estimates, loops>> /\ KeepPlan

\* That some of the evicted pods find no place is only logged.
Injected ==
    /\ stage = "inject" /\ Finished(task)
    /\ candidates' = RealNodes \ world.draining
    /\ destinations' = RealNodes \ world.draining
    /\ stage' = "categorize" /\ LeaveTask
    /\ UNCHANGED <<snap, hints, world, pending, views, estimates, loops, allowed, removable>>

Unremovable(n) ==
    candidates' = candidates \ {n} /\ UNCHANGED <<destinations, allowed, removable>>

\* replaceWithTaintedGhostNode
ReplaceWithTaintedGhostNode(s, n) ==
    Then(RemoveNodeInfo(s, n),
         LAMBDA t : AddNodeInfo(t, n, [GetNodeInfo(s, n) EXCEPT !.pods = {}, !.tainted = TRUE]))

UnscheduleAll(s, pods, n) == FoldSet(LAMBDA p, t : UnschedulePod(t, p, n).snap, s, pods)

\* SimulateNodeRemoval up to TrySchedulePods: the pods leave the node, and a ghost that takes
\* none stands for it.
SimulateNodeRemoval(n) ==
    /\ stage = "categorize" /\ n \in candidates
    /\ IF GetNodeInfo(snap, n) = Nil
       THEN Unremovable(n) /\ UNCHANGED <<snap, views, task, stage>>
       ELSE \E move \in {GetPodsToMove(GetNodeInfo(snap, n).pods, allowed)} :
               IF move.blocked THEN Unremovable(n) /\ UNCHANGED <<snap, views, task, stage>>
               ELSE \E r \in {ReplaceWithTaintedGhostNode(UnscheduleAll(ForkSnapshot(snap), move.pods, n), n)} :
                       /\ snap' = r.snap
                       /\ views' = Append(views, Visible(snap))
                       /\ task' = [node |-> n, move |-> move.pods]
                                    @@ [NewCall(move.pods, TRUE, destinations \ {n}) EXCEPT !.err = r.err]
                       /\ stage' = "remove"
                       /\ UNCHANGED <<candidates, destinations, allowed, removable>>
    /\ UNCHANGED <<hints, world, pending, estimates, loops>>

\* findPlaceFor: all pods have a place
AllPodsPlaced(call) == Cardinality(call.placed) = Cardinality(call.move)

\* ... and the ghost goes.
FoundPlace(call) ==
    IF call.err # "ok" THEN Failed(snap, call.err)
    ELSE IF AllPodsPlaced(call) THEN RemoveNodeInfo(snap, call.node)
    ELSE Failed(snap, "predicate")

\* withForkedSnapshot's deferred part and, for a node that may go, what categorizeNodes does
\* with it.
EndRemoval ==
    /\ stage = "remove" /\ Finished(task)
    /\ \E r \in {FoundPlace(task)} :
          IF r.err = "ok"
          THEN /\ snap' = CommitSnapshot(r.snap)
               /\ removable' = removable \cup {[node |-> task.node, pods |-> task.move]}
               /\ destinations' = destinations \ {task.node}
               /\ allowed' = RemovePods(task.move, allowed)
               /\ candidates' = candidates \ {task.node}
          ELSE snap' = RevertSnapshot(r.snap) /\ Unremovable(task.node)
    /\ views' = Front(views)
    /\ stage' = "categorize" /\ LeaveTask
    /\ UNCHANGED <<hints, world, pending, estimates, loops>>

\* Candidates are left when time is over or enough nodes were found.
EndPlanning ==
    /\ stage = "categorize"
    /\ snap' = RevertSnapshot(snap)
    /\ views' = Front(views)
    /\ hints' = [hints EXCEPT !["removal"] = DropOld(@), !["inject"] = DropOld(@)]
    /\ stage' = "loop"
    /\ UNCHANGED <<world, pending, task, estimates, loops>> /\ KeepPlan

-----------------------------------------------------------------------------
Init ==
    /\ snap = SetClusterState([n \in Nodes |-> Nil], [c \in ClaimIds |-> Nil]).snap
    /\ hints = [s \in Simulators |-> NewHints]
    /\ stage = "loop" /\ world \in Worlds /\ pending = {} /\ task = Idle /\ views = <<>>
    /\ estimates = 0 /\ candidates = {} /\ destinations = {} /\ removable = {} /\ loops = 0
    /\ allowed = world.disruptionsAllowed

Next ==
    \/ BeginLoop \/ TrySchedulePod \/ FilteredOut
    \/ StartEstimate \/ Estimate \/ EndEstimate \/ SalvoAddsNodes \/ SalvoPlacesPod \/ NextScaleUp \/ EndScaleUp
    \/ StartPlanning \/ Injected \/ EndRemoval \/ EndPlanning
    \/ \E n \in Nodes : SimulateNodeRemoval(n)

Spec == Init /\ [][Next]_vars

-----------------------------------------------------------------------------
NodesOf(cluster, p) == {n \in Nodes : cluster[n] # Nil /\ p \in cluster[n].pods}
PodsIn(cluster) == {p \in Pods : NodesOf(cluster, p) # {}}

\* The store, the claims, the slices and the CSINodes have one layer per open fork, whatever
\* simulation was cut short: Fork, Revert and Commit of PredicateSnapshot move all of them.
ForkedTogether == Depths(snap) = {Len(views) + 1}

\* What the PatchSets cache is what their layers say, after any mixture of lookups, writes,
\* forks, commits and reverts: a simulation never reads a claim, a slice or a CSINode of a
\* fork that is gone.
CachesTruthful ==
    /\ Claims!CacheTruthful(snap.dra.claims)
    /\ Slices!CacheTruthful(snap.dra.slices)
    /\ Csi!CacheTruthful(snap.csi)

\* An estimate, a planning pass and the simulation of a removal that does not succeed leave
\* the snapshot as they found it: nodes, pods, claims, slices and CSINodes.
SimulationsAreUndone ==
    [][/\ stage = "estimate" /\ stage' # "estimate" => Visible(snap') = Last(views)
       /\ stage = "categorize" /\ stage' = "loop" => Visible(snap') = Last(views)
       /\ stage = "remove" /\ stage' = "categorize" /\ removable' = removable
             => Visible(snap') = Last(views)]_vars

\* A pod of the snapshot has all its claims, allocated on its node and reserved for it, and
\* no claim is reserved for a pod that is not there, even after an error half way through
\* SchedulePod.  (A pod of a node that is being drained may be there twice.)
ClaimsFollowPods ==
    LET cluster == Cluster(snap)
        claim(c) == Claims!Effective(snap.dra.claims, c)
    IN  /\ \A p \in PodsIn(cluster), c \in ClaimIds :
              c \in ClaimsOf[p] => /\ claim(c) # Nil
                                  /\ p \in claim(c).reservedFor
                                  /\ claim(c).allocation \in NodesOf(cluster, p)
        /\ \A c \in ClaimIds : claim(c) # Nil => claim(c).reservedFor \subseteq PodsIn(cluster)

\* The removals a planning pass has found go together: their nodes are gone, and every pod
\* they move has a place on a node that is none of them.
RemovalsFitTogether ==
    stage = "categorize" =>
        \A r \in removable :
            /\ GetNodeInfo(snap, r.node) = Nil
            /\ \A p \in r.pods : NodesOf(Cluster(snap), p) \cap destinations # {}

\* The new nodes an estimate counts fit into what the node group and its similar groups may
\* grow, into the size of one scale-up and into the cluster's limit, on the fast path too.
EstimateWithinLimits ==
    stage = "estimate" /\ task.phase = "done" =>
        LET counted == Cardinality({n \in task.nodesWithPods : n \notin Nodes \/ n \in task.newNodes})
        IN  counted > 0 => /\ counted <= task.capacity
                           /\ MaxNodesPerScaleUp > 0 => counted <= MaxNodesPerScaleUp
                           /\ MaxNodesTotal > 0 => counted + Cardinality(RealNodes) <= MaxNodesTotal
==============================================================================
