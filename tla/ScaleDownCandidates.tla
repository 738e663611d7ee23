------------------------- MODULE ScaleDownCandidates -------------------------
(***************************************************************************)
(* The order in which nodes are considered for scale-down and removed, and *)
(* who keeps track of the nodes that wait: the sorting processors          *)
(* (processors/scaledowncandidates), the walk of the planner               *)
(* (core/scaledown/planner/planner.go) with its limit, NodesToDelete, the  *)
(* trackers of skipped nodes (core/scaledown/nodeevaltracker) and of       *)
(* removal latency (core/scaledown/latencytracker).                        *)
(*                                                                         *)
(* What the simulation of a node finds is its kind:                        *)
(*   empty       nothing has to be moved                                   *)
(*   completing  nothing has to be moved, but pods must be left to complete*)
(*   drain       pods move elsewhere                                       *)
(*   risky       the same, but their budgets allow no parallel eviction    *)
(*   stuck       a pod cannot be moved                                     *)
(*   busy        above the utilisation threshold                           *)
(* A time stamp is its age, saturating at Longest; one loop is one unit.   *)
(***************************************************************************)
EXTENDS Integers, FiniteSets, FiniteSetsExt, Sequences

-----------------------------------------------------------------------------
(***************************************************************************)
(* Which nodes are used so little that they may be scaled down: the        *)
(* utilisation of a node (simulator/utilization/info.go), of its dynamic   *)
(* resources (simulator/dynamicresources/utils/utilization.go), and the    *)
(* reasons of the eligibility checker (core/scaledown/eligibility).        *)
(*                                                                         *)
(* One node.  Its pods come and go as the scheduler lets them, devices are *)
(* allocated to claims as long as their shared counters last, and its      *)
(* driver publishes the slices of a new pool generation one at a time.     *)
(*                                                                         *)
(* A float64 quotient is a pair <<num, den>>, den >= 0: <<1, 0>> is an     *)
(* infinity and <<0, 0>> is NaN, and Above compares like IEEE 754 does.    *)
(***************************************************************************)
CONSTANTS
    Pods,             \* the pods that may run on the node, with their kinds and requests
    Devices,          \* per device of the node's pool: what it draws from each counter set
    SharedCounters,   \* per counter set of the pool: the value of each counter
    SliceOf,          \* the slice every device is published in
    MaxGeneration,    \* bound on generations of the pool
    Threshold,        \* ScaleDownUtilizationThreshold, a pair
    GpuThreshold,     \* ScaleDownGpuUtilizationThreshold
    Setups            \* the configurations that are looked at

VARIABLES
    setup,            \* ignoreDaemonSets, ignoreMirrorPods, draEnabled, gpu, scaleDownUnready,
                      \* partitionable: the pool has shared counters,
                      \* allocatable: capacity per resource; 0: absent, or 0 itself,
                      \* marks: what may be wrong with the node
    running,          \* pods on the node
    terminating,      \* those of them that should be gone long ago
    slices,           \* published resource slices: <<generation, number>>
    claims,           \* allocation results of the claims of its pods
    mark              \* what else is wrong with the node

utilisationVars == <<setup, running, terminating, slices, claims, mark>>

SliceNumbers == {SliceOf[d] : d \in DOMAIN Devices}
Generation == Max({s[1] : s \in slices} \cup {0})

Request(pods, r) == MapThenSumSet(LAMBDA p : p[r], pods)
Above(a, b) == a[1] * b[2] > b[1] * a[2]
Quotient(n, d) == IF d < 0 THEN <<-n, -d>> ELSE IF d = 0 /\ n # 0 THEN <<1, 0>> ELSE <<n, d>>
Failed == [util |-> <<0, 0>>, failed |-> TRUE]
Utilised(q) == [util |-> q, failed |-> FALSE]

(***************************************************************************)
(* Requests of pods against what is allocatable.                           *)
(***************************************************************************)
Skipped == {p \in running : \/ setup.ignoreDaemonSets /\ p.kind = "daemon"
                            \/ setup.ignoreMirrorPods /\ p.kind = "mirror"}

CalculateUtilizationOfResource(r) ==
    IF setup.allocatable[r] = 0 THEN Failed
    ELSE Utilised(Quotient(Request((running \ Skipped) \ terminating, r),
                           setup.allocatable[r] - Request(Skipped, r)))

(***************************************************************************)
(* Dynamic resources.  One pool; a node whose pool lacks a slice of its    *)
(* newest generation, or a claim that is not allocated, is an error.       *)
(***************************************************************************)
allCurrentGenSlices == {s \in slices : s[1] = Generation}
PoolComplete == Cardinality(allCurrentGenSlices) = Cardinality(SliceNumbers)

getAllDevices == {d \in DOMAIN Devices : <<Generation, SliceOf[d]>> \in slices}

\* admin access does not reserve a device
groupAllocatedReservedDevices == {c.device : c \in {b \in claims : ~b.admin}}

splitDevicesByAllocation == getAllDevices \cap groupAllocatedReservedDevices

calculateConsumedCounters(devices, set, counter) ==
    MapThenSumSet(LAMBDA d : Devices[d][set][counter], devices)

Draws(d, set) == \E c \in DOMAIN SharedCounters[set] : Devices[d][set][c] > 0

getUniquePartitionableDevicesCount(devices) ==
    Cardinality({set \in DOMAIN SharedCounters : \E d \in devices : Draws(d, set)})

HighestCounter(allocated, set) ==
    LET Use(c) == <<calculateConsumedCounters(allocated, set, c), SharedCounters[set][c]>>
        counters == {c \in DOMAIN SharedCounters[set] : SharedCounters[set][c] # 0}
        top == {c \in counters : \A o \in counters : ~Above(Use(o), Use(c))}
    IN  IF counters = {} THEN <<0, 1>> ELSE Use(CHOOSE c \in top : TRUE)

Plus(a, b) == <<a[1] * b[2] + b[1] * a[2], a[2] * b[2]>>

calculateAtomicDevicesPoolUtilization(allocated, total) ==
    IF total = {} THEN <<0, 1>> ELSE <<Cardinality(allocated), Cardinality(total)>>

calculatePartitionableDevicesPoolUtilization(allocated, total) ==
    LET unique == getUniquePartitionableDevicesCount(total)
        Add(set, sum) == LET h == HighestCounter(allocated, set) IN Plus(sum, <<h[1], h[2] * unique>>)
    IN  IF unique = 0 THEN <<0, 1>> ELSE FoldSet(Add, <<0, 1>>, DOMAIN SharedCounters)

isPartitionable == setup.partitionable

calculatePoolUtil(allocated, total) ==
    IF isPartitionable THEN calculatePartitionableDevicesPoolUtilization(allocated, total)
                       ELSE calculateAtomicDevicesPoolUtilization(allocated, total)

CalculateDynamicResourceUtilization ==
    IF (\E c \in claims : ~c.allocated) \/ ~PoolComplete THEN Failed
    ELSE Utilised(calculatePoolUtil(splitDevicesByAllocation, getAllDevices))

(***************************************************************************)
(* utilization.Calculate: a GPU counts alone, then dynamic resources, then *)
(* the higher of CPU and memory.                                           *)
(***************************************************************************)
Calculate ==
    LET cpu == CalculateUtilizationOfResource("cpu")
        mem == CalculateUtilizationOfResource("mem")
        gpu == CalculateUtilizationOfResource("gpu")
    IN  CASE setup.gpu = "extended" -> IF gpu.failed THEN Utilised(<<0, 1>>) ELSE gpu
          [] setup.gpu # "extended" /\ setup.draEnabled /\ slices # {} ->
                CalculateDynamicResourceUtilization
          [] OTHER -> IF cpu.failed \/ mem.failed THEN Failed
                      ELSE IF Above(cpu.util, mem.util) THEN cpu ELSE mem

isNodeAtOrBelowUtilizationThreshold(u) ==
    ~Above(u, IF setup.gpu # "none" THEN GpuThreshold ELSE Threshold)

unremovableReasonAndNodeUtilization ==
    LET info == Calculate IN
    CASE mark = "beingDeleted" -> "CurrentlyBeingDeleted"
      [] mark = "annotated" -> "ScaleDownDisabledAnnotation"
      [] mark = "noGroup" -> "NotAutoscaled"
      [] mark \in {"groupError", "configError"} -> "UnexpectedError"
      [] mark \in {"none", "unready", "thresholdError"} /\ info.failed -> "UnexpectedError"
      [] mark = "unready" /\ ~setup.scaleDownUnready /\ ~info.failed -> "ScaleDownUnreadyDisabled"
      [] mark = "thresholdError" /\ ~info.failed -> "UnexpectedError"
      [] OTHER -> IF isNodeAtOrBelowUtilizationThreshold(info.util)
                  THEN "NoReason" ELSE "NotUnderutilized"

-----------------------------------------------------------------------------
UtilisationInit ==
    /\ setup \in Setups
    /\ running = {} /\ terminating = {}
    /\ slices = {} /\ claims = {}
    /\ mark = "none"

\* the scheduler counts every pod that is still there
Fits(pods) == \A r \in DOMAIN setup.allocatable : Request(pods, r) <= setup.allocatable[r]

PodArrives(p) ==
    /\ p \notin running /\ Fits(running \cup {p})
    /\ running' = running \cup {p}
    /\ UNCHANGED <<setup, terminating, slices, claims, mark>>

PodLeaves(p) ==
    /\ p \in running
    /\ running' = running \ {p} /\ terminating' = terminating \ {p}
    /\ UNCHANGED <<setup, slices, claims, mark>>

\* deletion grace period plus a margin is over, and the pod is still there (IsPodLongTerminating)
PodHangs(p) ==
    /\ p \in running \ terminating
    /\ terminating' = terminating \cup {p}
    /\ UNCHANGED <<setup, running, slices, claims, mark>>

\* the driver replaces its slices by those of the next generation, one at a time
Publish(number) ==
    /\ setup.draEnabled
    /\ \E g \in 1 .. MaxGeneration :
          /\ g \in {Generation, Generation + 1} /\ (g > Generation /\ slices # {} => PoolComplete)
          /\ <<g, number>> \notin slices
          /\ slices' = slices \cup {<<g, number>>}
    /\ UNCHANGED <<setup, running, terminating, claims, mark>>

DropOldSlice(number) ==
    /\ \E s \in slices : s[1] < Generation /\ s[2] = number /\ slices' = slices \ {s}
    /\ UNCHANGED <<setup, running, terminating, claims, mark>>

Drawable(devices) ==
    isPartitionable => \A set \in DOMAIN SharedCounters : \A c \in DOMAIN SharedCounters[set] :
        calculateConsumedCounters(devices, set, c) <= SharedCounters[set][c]

\* a claim appears before it is allocated
Claim(d, admin) ==
    /\ setup.draEnabled /\ d \in getAllDevices
    /\ \A c \in claims : c.device # d
    /\ claims' = claims \cup {[device |-> d, admin |-> admin, allocated |-> FALSE]}
    /\ UNCHANGED <<setup, running, terminating, slices, mark>>

Allocate(c) ==
    /\ c \in claims /\ ~c.allocated
    /\ c.admin \/ Drawable({b.device : b \in {o \in claims : o.allocated /\ ~o.admin} \cup {c}})
    /\ claims' = (claims \ {c}) \cup {[c EXCEPT !.allocated = TRUE]}
    /\ UNCHANGED <<setup, running, terminating, slices, mark>>

Release(c) ==
    /\ c \in claims
    /\ claims' = claims \ {c}
    /\ UNCHANGED <<setup, running, terminating, slices, mark>>

Remark(m) ==
    /\ m # mark /\ (mark = "none" \/ m = "none")
    /\ mark' = m
    /\ UNCHANGED <<setup, running, terminating, slices, claims>>

UtilisationNext ==
    \/ \E p \in Pods : PodArrives(p) \/ PodLeaves(p) \/ PodHangs(p)
    \/ \E n \in SliceNumbers : Publish(n) \/ DropOldSlice(n)
    \/ \E d \in DOMAIN Devices, admin \in BOOLEAN : Claim(d, admin)
    \/ \E c \in claims : Allocate(c) \/ Release(c)
    \/ \E m \in setup.marks : Remark(m)

UtilisationSpec == UtilisationInit /\ [][UtilisationNext]_utilisationVars

-----------------------------------------------------------------------------
Overhead == {p \in running : \/ setup.ignoreDaemonSets /\ p.kind = "daemon"
                             \/ setup.ignoreMirrorPods /\ p.kind = "mirror"}
Working == running \ (Overhead \cup terminating)
ForWork(r) == setup.allocatable[r] - Request(Overhead, r)
InUse == {c.device : c \in {b \in claims : b.allocated /\ ~b.admin}}
Exhausted(set) == \E c \in DOMAIN SharedCounters[set] :
                     /\ SharedCounters[set][c] > 0
                     /\ MapThenSumSet(LAMBDA d : Devices[d][set][c], InUse) = SharedCounters[set][c]

(***************************************************************************)
(* What Calculate and the checker make of a node is what its pods use.  A  *)
(* node that passes the checker leaves unused the share of every resource  *)
(* that counts for it which the threshold asks for, and does not have a    *)
(* device pool in which every counter set is exhausted; no node is used    *)
(* beyond its capacity; and a pool nobody holds a device of is never in    *)
(* the way, however its slices were republished                            *)
(* (eligibility.go, info.go and utilization.go of dynamicresources/utils). *)
(***************************************************************************)
UtilisationIsUse ==
    LET reason == unremovableReasonAndNodeUtilization
        dynamic == setup.gpu # "extended" /\ setup.draEnabled /\ slices # {}
        counting == IF setup.gpu = "extended" THEN {"gpu"} ELSE {"cpu", "mem"}
        limit == IF setup.gpu = "none" THEN Threshold ELSE GpuThreshold
        Within(use, capacity) == use * limit[2] <= limit[1] * capacity
    IN  /\ reason = "NoReason" =>
             CASE dynamic /\ setup.partitionable ->
                     \E set \in DOMAIN SharedCounters : ~Exhausted(set)
               [] dynamic /\ ~setup.partitionable ->
                     Within(Cardinality(InUse), Cardinality(DOMAIN Devices))
               [] OTHER -> \A r \in counting :
                     setup.allocatable[r] > 0 => Within(Request(Working, r), ForWork(r))
        /\ ~Above(Calculate.util, <<1, 1>>) /\ ~Above(<<0, 1>>, Calculate.util)
        /\ dynamic /\ InUse = {} => reason # "NotUnderutilized"

-----------------------------------------------------------------------------
(***************************************************************************)
(* Pods the planner adds to its snapshot for pods that were evicted lately *)
(* (injectRecentlyEvictedPods, core/scaledown/planner/planner.go): those   *)
(* whose controller has not replaced them yet, by the replica counts of    *)
(* core/scaledown/planner/controller.go.                                   *)
(*                                                                         *)
(* Controllers recreate pods and report their status later; the autoscaler *)
(* sees the status through a lister.  Each controller is counted on its    *)
(* own, so there is one.                                                   *)
(***************************************************************************)
CONSTANTS MaxPods,       \* bound on pods of a controller
          Unset          \* no replicas in the spec

VARIABLES
    ownerKind,                \* "Workload": ReplicaSet, StatefulSet, ReplicationController; "Job";
                         \* "Custom": not known; "DaemonSet": its pods are not recreatable
    replicas,            \* spec.replicas, or parallelism of a job
    completions,         \* completions of a job still to come, or Unset
    live,                \* active pods
    status,              \* what the lister shows of both
    listed,              \* whether the lister has the controller
    lately,             \* recent evictions
    injected             \* pods of the latest pass

evictionVars == <<ownerKind, replicas, completions, live, status, listed, lately, injected>>

Lesser(a, b) == IF a < b THEN a ELSE b
Greater(a, b) == IF a > b THEN a ELSE b

\* getReplicas; of a job no more pods than completions are left
targetReplicas ==
    LET wanted == IF replicas = Unset THEN 1 ELSE replicas
    IN  IF ownerKind = "Job" /\ status.left # Unset THEN Lesser(wanted, status.left) ELSE wanted

getKnownOwnerRef == ownerKind \in {"Workload", "Job"}

FilterRecreatablePods == IF ownerKind = "DaemonSet" THEN 0 ELSE lately

filterOutRecreatedPods ==
    IF getKnownOwnerRef /\ listed
    THEN Lesser(FilterRecreatablePods, Greater(targetReplicas - status.active, 0))
    ELSE FilterRecreatablePods

-----------------------------------------------------------------------------
EvictionsInit ==
    /\ ownerKind \in {"Workload", "Job", "Custom", "DaemonSet"}
    /\ replicas \in {Unset, MaxPods}
    /\ completions \in (IF ownerKind = "Job" THEN {Unset, MaxPods} ELSE {Unset})
    /\ live = IF replicas = Unset THEN 1 ELSE MaxPods
    /\ status = [active |-> live, left |-> completions]
    /\ listed = TRUE
    /\ lately = 0 /\ injected = 0

Desired ==
    LET wanted == IF replicas = Unset THEN 1 ELSE replicas
    IN  IF completions # Unset /\ completions < wanted THEN completions ELSE wanted

Evict ==
    /\ live > 0 /\ lately < MaxPods
    /\ live' = live - 1
    /\ lately' = lately + 1
    /\ UNCHANGED <<ownerKind, replicas, completions, status, listed, injected>>

Expire ==
    /\ lately > 0
    /\ lately' = lately - 1
    /\ UNCHANGED <<ownerKind, replicas, completions, live, status, listed, injected>>

Recreate ==
    /\ listed /\ live < Desired
    /\ live' = live + 1
    /\ UNCHANGED <<ownerKind, replicas, completions, status, listed, lately, injected>>

Complete ==
    /\ ownerKind = "Job" /\ completions \notin {Unset, 0} /\ live > 0
    /\ completions' = completions - 1
    /\ live' = live - 1
    /\ UNCHANGED <<ownerKind, replicas, status, listed, lately, injected>>

\* the controller's status reaches the lister
Observe ==
    /\ status # [active |-> live, left |-> completions]
    /\ status' = [active |-> live, left |-> completions]
    /\ UNCHANGED <<ownerKind, replicas, completions, live, listed, lately, injected>>

DeleteController ==
    /\ listed
    /\ listed' = FALSE
    /\ UNCHANGED <<ownerKind, replicas, completions, live, status, lately, injected>>

Inject ==
    /\ injected' = filterOutRecreatedPods
    /\ UNCHANGED <<ownerKind, replicas, completions, live, status, listed, lately>>

EvictionsNext ==
    \/ Evict \/ Expire \/ Recreate \/ Complete \/ Observe \/ DeleteController
    \/ Inject

EvictionsSpec == EvictionsInit /\ [][EvictionsNext]_evictionVars

-----------------------------------------------------------------------------
(***************************************************************************)
(* A pod to come is counted once.  Where the status of a controller is     *)
(* current, the pods that live and those the planner injects make up what  *)
(* the controller is going to run, unless older evictions have expired,    *)
(* and never more; where it is out of date, the error is no larger than    *)
(* the lag; evictions the planner cannot judge are all counted             *)
(* (filterOutRecreatedPods, getReplicas).                                  *)
(***************************************************************************)
ReplacementsCountedOnce ==
    [][injected' # injected =>
        LET missing == Greater(Desired - live, 0)
            lag == Greater(live - status.active, 0)
                   + (IF completions = Unset THEN 0 ELSE status.left - completions)
        IN  CASE ownerKind = "DaemonSet" -> injected' = 0
              [] ownerKind = "Custom" \/ (ownerKind # "DaemonSet" /\ ~listed) -> injected' = lately
              [] OTHER -> /\ injected' <= missing + lag
                          /\ lag = 0 /\ status.active = live => injected' = Lesser(lately, missing)]_evictionVars

-----------------------------------------------------------------------------
CONSTANTS Nodes,
          Kinds,                    \* the kinds a node takes
          UnneededTime, RecheckTimeout, MaxScaleDownParallelism,
          Starts,                   \* clusters to start with: kinds, and which nodes are atomic
          MaxChanges,               \* bound on changes of kinds, clean-ups and failures
          Longest                   \* bound: ages saturate here

Never == -1
NoReason == "NoReason"

VARIABLES
    pc,
    kind, present,
    AtomicNodes,       \* the nodes of a group with ZeroOrMaxNodeScaling
    byName,            \* unneeded nodes: what the walk found, and for how long
    ttls,              \* nodes not simulated again for a while
    reasons,           \* unremovableNodes.reasons, of the latest pass
    previous,        \* PreviousCandidates
    minUpdateInterval, latestUpdate,
    stamps, lastEval,  \* MaxNodeSkipEvalTime: stamps of the skipped nodes, age of the last update
    tracked,           \* NodeLatencyTracker: age, or Never, and the latest delay reason
    deleting, scaledDown,
    changes,           \* what is left of MaxChanges
    \* history
    started,           \* nodes whose deletion started after the planner's latest announcement
    looked,            \* age of the last pass that did not skip the node
    blockers,          \* what has held a node up since the tracker follows it
    walk               \* the last pass: what it found, and whether it ran out of time

nodeVars == <<kind, present, AtomicNodes, deleting, changes>>
planner == <<byName, ttls, reasons, previous, minUpdateInterval, latestUpdate>>
trackers == <<stamps, lastEval, tracked, looked, blockers>>
Spend == changes > 0 /\ changes' = changes - 1
vars == <<pc, nodeVars, planner, trackers, scaledDown, started, walk>>

Older(a) == IF a = Never \/ a = Longest THEN a ELSE a + 1
Unneeded == {n \in Nodes : byName[n].since # Never}
Removables == {"empty", "completing", "drain", "risky"}
NoPods == {"empty", "completing"}
Waiting(k, since) == [kind |-> k, since |-> since]

(***************************************************************************)
(* Sorting: empty nodes first, those without pods to complete before the   *)
(* others; among equals the previous of the previous pass first.  The    *)
(* sort is not stable.                                                     *)
(***************************************************************************)
EmptyEarlier(m, n) ==
    IF (kind[m] \in NoPods) # (kind[n] \in NoPods) THEN kind[m] \in NoPods
    ELSE kind[m] # "completing" /\ kind[n] = "completing"

PreviousEarlier(m, n) == m \in previous /\ n \notin previous

\* a bug the properties must catch: the previous previous are not put first
LessEmptyOnly(m, n) == EmptyEarlier(m, n)

Less(m, n) ==
    \/ EmptyEarlier(m, n)
    \/ ~EmptyEarlier(n, m) /\ PreviousEarlier(m, n)

Sort(nodes) ==
    {s \in [1 .. Cardinality(nodes) -> nodes] :
        \A i, j \in DOMAIN s : i < j => s[i] # s[j] /\ ~Less(s[j], s[i])}

(***************************************************************************)
(* The walk of categorizeNodes.                                            *)
(***************************************************************************)
MinInterval == IF latestUpdate # Never /\ latestUpdate < minUpdateInterval
               THEN latestUpdate ELSE minUpdateInterval

unneededNodesLimit ==
    LET n == MaxScaleDownParallelism
        limit == Cardinality(Unneeded) + n + n
        upperBound == n * (Greater(UnneededTime, MinInterval) \div MinInterval) + n
    IN  IF upperBound < limit THEN upperBound ELSE limit

LiveTtl(n) == IF n \in present THEN ttls[n] ELSE 0
Eligible(n) == LiveTtl(n) = 0 /\ kind[n] # "busy"

Standard(order, k) == {i \in 1 .. k : kind[order[i]] \in Removables /\ order[i] \notin AtomicNodes}

\* how many nodes of the order are walked
Stops(order, timedOut) ==
    {k \in 0 .. Len(order) :
        /\ \A j \in 0 .. (k - 1) : Cardinality(Standard(order, j)) < unneededNodesLimit
        /\ k = Len(order) \/ timedOut \/ Cardinality(Standard(order, k)) >= unneededNodesLimit}

Front(order, k) == {order[i] : i \in 1 .. k}

updateInternalState(found) ==
    [n \in Nodes |-> IF n \notin found THEN Waiting("none", Never)
                     ELSE Waiting(kind[n], IF n \in Unneeded THEN byName[n].since ELSE 0)]

(***************************************************************************)
(* The trackers.                                                           *)
(***************************************************************************)
\* a bug the properties must catch: a node skipped again is taken for a new one
UpdateSkippedRestarts(skipped) ==
    /\ stamps' = [n \in Nodes |-> IF n \in skipped THEN lastEval ELSE Never]
    /\ lastEval' = 0

UpdateSkipped(skipped) ==
    /\ stamps' = [n \in Nodes |-> IF n \notin skipped THEN Never
                                  ELSE IF stamps[n] # Never THEN stamps[n] ELSE lastEval]
    /\ lastEval' = 0

Untracked == [age |-> Never, delay |-> NoReason]

\* UpdateScaleDownCandidates; recordAndCleanup reports the nodes that are needed again
Track(list) ==
    [n \in Nodes |-> CASE n \notin list -> Untracked
                       [] n \in list /\ tracked[n].age = Never -> [age |-> 0, delay |-> NoReason]
                       [] OTHER -> tracked[n]]

isBlocker(r) == r \notin {NoReason, "NotUnneededLongEnough"}

updateLatestDelayReasons ==
    [n \in Nodes |-> IF tracked[n].age # Never /\ isBlocker(reasons[n])
                     THEN [tracked[n] EXCEPT !.delay = reasons[n]] ELSE tracked[n]]

-----------------------------------------------------------------------------
Init ==
    /\ pc = "idle"
    /\ \E start \in Starts : kind = start.kind /\ AtomicNodes = start.atomic
    /\ present = Nodes /\ changes = MaxChanges
    /\ byName = [n \in Nodes |-> Waiting("none", Never)]
    /\ ttls = [n \in Nodes |-> 0]
    /\ reasons = [n \in Nodes |-> NoReason]
    /\ previous = {}
    /\ minUpdateInterval = Greater(UnneededTime, 1) /\ latestUpdate = Never
    /\ stamps = [n \in Nodes |-> Never] /\ lastEval = 0
    /\ tracked = [n \in Nodes |-> Untracked]
    /\ deleting = {} /\ scaledDown = {} /\ started = {}
    /\ looked = [n \in Nodes |-> 0]
    /\ blockers = [n \in Nodes |-> {}]
    /\ walk = [found |-> {}, timedOut |-> FALSE]

StartLoop ==
    /\ pc = "idle"
    /\ byName' = [n \in Nodes |-> [byName[n] EXCEPT !.since = Older(@)]]
    /\ ttls' = [n \in Nodes |-> Greater(ttls[n] - 1, 0)]
    /\ latestUpdate' = Older(latestUpdate)
    /\ stamps' = [n \in Nodes |-> Older(stamps[n])] /\ lastEval' = Older(lastEval)
    /\ tracked' = [n \in Nodes |-> [tracked[n] EXCEPT !.age = Older(@)]]
    /\ looked' = [n \in Nodes |-> Older(looked[n])]
    /\ pc' = "scaleDown"
    /\ UNCHANGED <<nodeVars, reasons, previous, minUpdateInterval, blockers, scaledDown, started, walk>>

\* an unhealthy cluster: the planner forgets, its observers are not told
CleanUpUnneededNodes ==
    /\ pc = "scaleDown"
    /\ Spend
    /\ byName' = [n \in Nodes |-> Waiting("none", Never)]
    /\ pc' = "status"
    /\ UNCHANGED <<kind, present, AtomicNodes, deleting, ttls, reasons, previous, minUpdateInterval, latestUpdate,
                   trackers, scaledDown, started, walk>>

\* GetScaleDownCandidates, UpdateClusterState and the observers of unneeded nodes
UpdateClusterState(order, k, timedOut) ==
    LET known == present \ deleting
        walked == Front(order, k)
        skipped == {order[i] : i \in 1 .. Len(order)} \ walked
        found == {n \in walked : kind[n] \in Removables}
    IN  /\ byName' = updateInternalState(found)
        /\ ttls' = [n \in Nodes |-> IF n \in walked /\ kind[n] = "stuck" THEN RecheckTimeout
                                    ELSE LiveTtl(n)]
        /\ reasons' = [n \in Nodes |-> CASE n \in known /\ LiveTtl(n) > 0 -> "RecentlyUnremovable"
                                         [] n \in known /\ LiveTtl(n) = 0 /\ kind[n] = "busy" -> "NotUnderutilized"
                                         [] n \in walked /\ kind[n] = "stuck" -> "BlockedByPod"
                                         [] OTHER -> NoReason]
        /\ previous' = found
        /\ minUpdateInterval' = MinInterval
        /\ latestUpdate' = 0
        /\ UpdateSkipped(skipped)
        /\ tracked' = Track(found)
        /\ looked' = [n \in Nodes |-> IF n \in skipped THEN looked[n] ELSE 0]
        /\ blockers' = [n \in Nodes |-> IF n \in found /\ tracked[n].age # Never THEN blockers[n] ELSE {}]
        /\ started' = {}
        /\ walk' = [found |-> found, timedOut |-> timedOut]

ScaleDown ==
    /\ pc = "scaleDown"
    /\ \E timedOut \in BOOLEAN, order \in Sort({n \in present \ deleting : Eligible(n)}) :
       \E k \in Stops(order, timedOut) :
          /\ UpdateClusterState(order, k, timedOut)
          /\ IF timedOut THEN Spend ELSE UNCHANGED changes
    /\ pc' \in {"delete", "status"}         \* status: the scale-down is in cooldown
    /\ UNCHANGED <<kind, present, AtomicNodes, deleting, scaledDown>>

(***************************************************************************)
(* NodesToDelete: nodes that waited long enough and are not held by a      *)
(* minimum size or quota, those to drain in the order of sortByRisk, the   *)
(* nodes of the atomic group only together; then StartDeletion takes what  *)
(* its budget allows.                                                      *)
(***************************************************************************)
LongEnough == {n \in Unneeded : byName[n].since > UnneededTime}

\* AtomicResizeFilteringProcessor
WholeGroup(removable) == AtomicNodes \cap present \subseteq removable

\* sortByRisk, after the empty nodes
Rank(n) == CASE byName[n].kind \in NoPods -> 0
             [] byName[n].kind = "drain" -> 1
             [] byName[n].kind = "risky" -> 2
             [] OTHER -> 3

\* crop of individual nodes: the first ones of the lists
FirstOf(nodes, room) ==
    {S \in SUBSET nodes :
        /\ Cardinality(S) <= Greater(room, 0)
        /\ S = nodes \/ Cardinality(S) = Greater(room, 0)
        /\ \A n \in S, m \in nodes \ S : Rank(n) <= Rank(m)}

NodesToDelete(held) ==
    LET free == LongEnough \ held
        removable == IF WholeGroup(free) THEN free ELSE free \ AtomicNodes
        waiting == {n \in removable : byName[n].kind = "completing"}
    IN  [ready |-> removable \ waiting,
         reasons |-> [n \in Nodes |->
            CASE n \in Unneeded \ LongEnough -> "NotUnneededLongEnough"
              [] n \in held -> "NodeGroupMinSizeReached"
              [] n \in free \ removable -> "AtomicScaleDownFailed"
              [] n \in waiting -> "BlockedByOnCompletionPod"
              [] OTHER -> reasons[n]]]

Delete(held) ==
    /\ pc = "delete"
    /\ held \subseteq LongEnough
    /\ IF held = {} THEN UNCHANGED changes ELSE Spend
    /\ LET plan == NodesToDelete(held)
           atomic == {n \in plan.ready : n \in AtomicNodes}
           room == MaxScaleDownParallelism - Cardinality(deleting) - Cardinality(atomic)
       IN  /\ reasons' = plan.reasons
           /\ \E S \in FirstOf(plan.ready \ AtomicNodes, room) : scaledDown' = atomic \cup S
           /\ deleting' = deleting \cup scaledDown' /\ started' = scaledDown'
    /\ pc' = "status"
    /\ UNCHANGED <<kind, present, AtomicNodes, byName, ttls, previous, minUpdateInterval, latestUpdate,
                   trackers, walk>>

\* NodeLatencyTracker.Process, at the end of every loop
Process ==
    /\ pc = "status"
    /\ tracked' = [n \in Nodes |-> IF n \in scaledDown THEN Untracked ELSE updateLatestDelayReasons[n]]
    /\ blockers' = [n \in Nodes |-> IF n \in scaledDown THEN {}
                                    ELSE IF tracked[n].age # Never THEN blockers[n] \cup {reasons[n]}
                                    ELSE {}]
    /\ scaledDown' = {}
    /\ pc' = "idle"
    /\ walk' = [found |-> {}, timedOut |-> FALSE]
    /\ UNCHANGED <<nodeVars, planner, stamps, lastEval, looked, started>>

(***************************************************************************)
(* What happens beside the loop.                                           *)
(***************************************************************************)
Change(n, k) ==
    /\ pc = "idle"
    /\ n \in present \ deleting /\ k # kind[n]
    /\ Spend
    /\ kind' = [kind EXCEPT ![n] = k]
    /\ UNCHANGED <<pc, present, AtomicNodes, planner, trackers, deleting, scaledDown, started, walk>>

DeletionEnds(n, ok) ==
    /\ pc = "idle"
    /\ n \in deleting
    /\ deleting' = deleting \ {n}
    /\ IF ok THEN present' = present \ {n} /\ UNCHANGED changes ELSE Spend /\ UNCHANGED present
    /\ UNCHANGED kind
    /\ UNCHANGED <<pc, AtomicNodes, planner, trackers, scaledDown, started, walk>>

Next ==
    \/ StartLoop \/ CleanUpUnneededNodes \/ ScaleDown \/ Process
    \/ \E held \in SUBSET Nodes : Delete(held)
    \/ \E n \in Nodes, k \in Kinds : Change(n, k)
    \/ \E n \in Nodes, ok \in BOOLEAN : DeletionEnds(n, ok)

Spec == Init /\ [][Next]_vars

-----------------------------------------------------------------------------
(***************************************************************************)
(* A node that is still removable loses the time it has waited only to an  *)
(* empty node that has just become unneeded, and an empty node does not:   *)
(* a pass that was not cut short by its timeout finds it again, since      *)
(* previous previous are walked first and the limit grows with them      *)
(* (sorting_processor.go, planner.go).  Nodes of atomic groups are left    *)
(* out: they do not count against the limit, and may be last in the order. *)
(***************************************************************************)
WaitingIsNotLost ==
    [][pc = "scaleDown" /\ latestUpdate' = 0 /\ ~walk'.timedOut =>
        \A n \in (Unneeded \cap previous \cap present) \ (deleting \cup AtomicNodes) :
            kind[n] \in Removables =>
                \/ byName'[n].since = byName[n].since
                \/ kind[n] # "empty" /\ \E m \in walk'.found \ previous : kind[m] \in NoPods]_vars

(***************************************************************************)
(* The trackers tell the truth: the stamp of a skipped node is the time of *)
(* the last pass that did not skip it, the latency tracker follows exactly *)
(* the nodes the planner announced last and has not started to delete, and *)
(* it explains a delay by something that has held the node up since then   *)
(* (max_node_skip_eval_time.go, node_latency_tracker.go).                  *)
(***************************************************************************)
TrackersAreTrue ==
    /\ \A n \in Nodes : stamps[n] # Never => stamps[n] = looked[n]
    /\ \A n \in Nodes : tracked[n].age # Never => n \in previous
    /\ \A n \in previous : tracked[n].age = Never => n \in started
    /\ \A n \in Nodes : tracked[n].delay # NoReason => tracked[n].delay \in blockers[n]
==============================================================================
