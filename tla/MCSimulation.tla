----------------------------- MODULE MCSimulation -----------------------------
(***************************************************************************)
(* What the scale-down planner and the estimator find out without touching *)
(* the cluster.  A run looks at one of four parts that share no state:     *)
(*  - the simulations on the snapshot (Simulation): three nodes, an        *)
(*    upcoming one, and up to two that estimates and salvos add.  web1     *)
(*    runs on n1 with a claim of its own; web2 and job are pending and     *)
(*    share a claim; old is plain, under a disruption budget; evicted was  *)
(*    evicted of late; ds is a daemon pod with its own claim that comes    *)
(*    with an estimated node;                                              *)
(*  - how much of a node is in use, in which order nodes are tried and how *)
(*    long they have been unneeded, and which evicted pods are still to be *)
(*    placed (ScaleDownCandidates).                                        *)
(***************************************************************************)
EXTENDS Simulation

CONSTANTS n1, n2, n3, u1, e1, e2, s1, s2, web1, web2, job, old, evicted, ds, c1, c2, c3, pdb

MCNodes == {n1, n2, n3, u1, e1, e2, s1, s2}
MCPods == {web1, web2, job, old, evicted, ds}
MCClaimIds == {c1, c2, c3}
MCClaimsOf == [p \in MCPods |-> CASE p = web1 -> {c1} [] p \in {web2, job} -> {c2} [] p = ds -> {c3} [] OTHER -> {}]
MCOwnerOf == [c \in MCClaimIds |-> CASE c = c1 -> web1 [] c = c3 -> ds [] OTHER -> Nil]
MCMaxPods == [n \in MCNodes |-> IF n \in {n2, n3} THEN 3 ELSE 2]
MCDevicesOn == [n \in MCNodes |-> IF n \in {n1, n2, n3} THEN 1 ELSE 2]
MCHostSpread == {old, web2}
MCFacts == [p \in MCPods |-> CASE p = ds -> {"daemonSet", "controlled", "knownKind"}
                               [] OTHER -> {"controlled", "knownKind"}]
MCSelects == [b \in {pdb} |-> {old, web1}]
MCPriority == [p \in MCPods |-> CASE p = job -> 0 [] p = evicted -> 2 [] OTHER -> 1]
MCTemplate == [p \in MCPods |-> CASE p \in {web1, web2} -> <<1, 1>> [] p = job -> <<2, 1>> [] OTHER -> Nil]
MCNewNodes == <<e1, e2>>
MCSalvoNodes == <<s1, s2>>
MCTemplatePods == [n \in MCNodes |-> IF n = e1 THEN {ds} ELSE {}]

None == [n \in MCNodes |-> Nil]
Free == [allocation |-> Nil, reservedFor |-> {}]
Base == [cluster |-> [None EXCEPT ![n1] = NodeInfo(n1, {web1}), ![n2] = NodeInfo(n2, {old}),
                                     ![n3] = NodeInfo(n3, {})],
         claims |-> [c \in MCClaimIds |-> CASE c = c1 -> [allocation |-> n1, reservedFor |-> {web1}]
                                            [] c = c2 -> Free [] OTHER -> Nil],
         pending |-> {web2, job}, evicted |-> {evicted}, draining |-> {}, upcoming |-> {}, notStarted |-> {},
         disruptionsAllowed |-> [b \in {pdb} |-> 1]]
\* n1 is drained
Draining == [Base EXCEPT !.cluster[n1].tainted = TRUE, !.cluster[n3] = Nil, !.draining = {n1}, !.evicted = {}]
\* n2 has not started yet, u1 stands for it
Starting == [Base EXCEPT !.cluster[n2].pods = {}, !.cluster[n3] = Nil, !.upcoming = {u1}, !.notStarted = {n2}, !.evicted = {}]
\* the claim of a running pod is not listed yet
Unlisted == [Base EXCEPT !.claims[c1] = Nil]
MCWorlds == {Base, Draining, Starting, Unlisted}
-----------------------------------------------------------------------------
VARIABLES part,
          setup, running, terminating, slices, claims, mark,                              \* utilisation
          pc, kind, present, AtomicNodes, byName, ttls, reasons, previous, minUpdateInterval,
          latestUpdate, stamps, lastEval, tracked, deleting, scaledDown, changes, started,
          looked, blockers, walk,                                                         \* candidates
          ownerKind, replicas, completions, live, status, listed, lately, injected        \* evictions

utilisationOnly == <<setup, running, terminating, slices, claims, mark>>
candidatesOnly == <<pc, kind, present, AtomicNodes, byName, ttls, reasons, previous, minUpdateInterval,
                    latestUpdate, stamps, lastEval, tracked, deleting, scaledDown, changes, started,
                    looked, blockers, walk>>
evictionsOnly == <<ownerKind, replicas, completions, live, status, listed, lately, injected>>
allVars == <<part, vars, utilisationOnly, candidatesOnly, evictionsOnly>>

\* Pods of every kind; devices of two slices that draw from two counter sets; nodes with a resource
\* that is absent or used up by daemon pods.
Pod(k, cpu, mem, gpu) == [kind |-> k, cpu |-> cpu, mem |-> mem, gpu |-> gpu]
NodePods == {Pod("app", 2, 1, 0), Pod("app", 1, 3, 1), Pod("daemon", 1, 1, 1), Pod("mirror", 1, 0, 0)}
Draw(m0, k0, m1) == [s0 |-> [mem |-> m0, cores |-> k0], s1 |-> [mem |-> m1, cores |-> 0]]
MCDevices == [whole |-> Draw(4, 2, 0), half |-> Draw(2, 1, 0), other |-> Draw(1, 1, 0), second |-> Draw(0, 0, 3)]
Plain == [ignoreDaemonSets |-> FALSE, ignoreMirrorPods |-> FALSE, draEnabled |-> FALSE, gpu |-> "none",
          scaleDownUnready |-> TRUE, partitionable |-> FALSE, marks |-> {"none", "unready"},
          allocatable |-> [cpu |-> 4, mem |-> 4, gpu |-> 1]]
AllMarks == {"none", "beingDeleted", "annotated", "groupError", "noGroup", "configError", "thresholdError",
             "unready"}
MCSetups ==
    { [Plain EXCEPT !.marks = AllMarks], [Plain EXCEPT !.ignoreDaemonSets = TRUE, !.scaleDownUnready = FALSE],
      [Plain EXCEPT !.ignoreDaemonSets = TRUE, !.ignoreMirrorPods = TRUE, !.allocatable.cpu = 2],
      [Plain EXCEPT !.gpu = "extended"], [Plain EXCEPT !.gpu = "extended", !.allocatable.gpu = 0],
      [Plain EXCEPT !.allocatable.mem = 0], [Plain EXCEPT !.gpu = "extended", !.ignoreDaemonSets = TRUE],
      [Plain EXCEPT !.draEnabled = TRUE, !.gpu = "dra", !.allocatable.cpu = 0],
      [Plain EXCEPT !.draEnabled = TRUE, !.partitionable = TRUE, !.allocatable.cpu = 0] }

\* Four nodes of which at most one is unneeded when the limit is reached: an empty one, ones that
\* need draining, a risky one, one whose pod completes, one that cannot be drained, one of an atomic group.
Cluster4(k1, k2, k3, k4, atomic) == [kind |-> [a |-> k1, b |-> k2, c |-> k3, d |-> k4], atomic |-> atomic]
SC == INSTANCE ScaleDownCandidates WITH
        Pods <- NodePods, Devices <- MCDevices, Setups <- MCSetups, MaxGeneration <- 2,
        SharedCounters <- [s0 |-> [mem |-> 4, cores |-> 2], s1 |-> [mem |-> 3, cores |-> 0]],
        SliceOf <- [whole |-> 1, half |-> 1, other |-> 1, second |-> 2],
        Threshold <- <<1, 2>>, GpuThreshold <- <<2, 3>>,
        MaxPods <- 3, Unset <- Nil,
        Nodes <- {"a", "b", "c", "d"}, Kinds <- {"empty", "busy"},
        UnneededTime <- 2, RecheckTimeout <- 2, MaxScaleDownParallelism <- 1, MaxChanges <- 1, Longest <- 3,
        Starts <- { Cluster4("drain", "drain", "empty", "empty", {"d"}),
                    Cluster4("risky", "drain", "completing", "stuck", {}),
                    Cluster4("empty", "empty", "empty", "drain", {}) }
-----------------------------------------------------------------------------
Off == "unused"
UtilisationOff == /\ setup = Off /\ running = Off /\ terminating = Off /\ slices = Off /\ claims = Off /\ mark = Off
CandidatesOff ==
    /\ pc = Off /\ kind = Off /\ present = Off /\ AtomicNodes = Off /\ byName = Off /\ ttls = Off /\ reasons = Off
    /\ previous = Off /\ minUpdateInterval = Off /\ latestUpdate = Off /\ stamps = Off /\ lastEval = Off
    /\ tracked = Off /\ deleting = Off /\ scaledDown = Off /\ changes = Off /\ started = Off /\ looked = Off
    /\ blockers = Off /\ walk = Off
EvictionsOff == /\ ownerKind = Off /\ replicas = Off /\ completions = Off /\ live = Off /\ status = Off
                /\ listed = Off /\ lately = Off /\ injected = Off
SimulationOff == /\ snap = Off /\ hints = Off /\ stage = Off /\ world = Off /\ pending = Off /\ task = Off
                 /\ views = Off /\ estimates = Off /\ candidates = Off /\ destinations = Off /\ allowed = Off
                 /\ removable = Off /\ loops = Off

SimulationInit ==
    \/ part = "simulation" /\ Init /\ UtilisationOff /\ CandidatesOff /\ EvictionsOff
    \/ part = "utilisation" /\ SC!UtilisationInit /\ SimulationOff /\ CandidatesOff /\ EvictionsOff
    \/ part = "candidates" /\ SC!Init /\ SimulationOff /\ UtilisationOff /\ EvictionsOff
    \/ part = "evictions" /\ SC!EvictionsInit /\ SimulationOff /\ UtilisationOff /\ CandidatesOff

SimulationNext ==
    \/ part = "simulation" /\ Next /\ UNCHANGED <<part, utilisationOnly, candidatesOnly, evictionsOnly>>
    \/ part = "utilisation" /\ SC!UtilisationNext /\ UNCHANGED <<part, vars, candidatesOnly, evictionsOnly>>
    \/ part = "candidates" /\ SC!Next /\ UNCHANGED <<part, vars, utilisationOnly, evictionsOnly>>
    \/ part = "evictions" /\ SC!EvictionsNext /\ UNCHANGED <<part, vars, utilisationOnly, candidatesOnly>>

SimulationSpec == SimulationInit /\ [][SimulationNext]_allVars
-----------------------------------------------------------------------------
\* In every simulation, the store, the claims, the slices and the CSINodes are forked together, and
\* what the PatchSets cache is what their layers say (predicate_snapshot.go, patchset.go).  A pod of
\* the snapshot has its claims, and a claim is reserved for pods that are there
\* (predicate_snapshot.go, snapshot.go of dynamicresources).  The nodes a planning pass finds
\* removable can be removed together (cluster.go, planner.go), and estimates keep to the limits
\* (binpacking_estimator.go, threshold_based_limiter.go).
SimulationsAreSound ==
    part = "simulation" =>
        ForkedTogether /\ CachesTruthful /\ ClaimsFollowPods /\ RemovalsFitTogether /\ EstimateWithinLimits

\* The utilisation of a node is the use of its dominant resource (info.go, utilization.go), and what
\* the trackers remember of nodes is true (max_node_skip_eval_time.go, node_latency_tracker.go).
NodesAreJudgedRight ==
    /\ part = "utilisation" => SC!UtilisationIsUse
    /\ part = "candidates" => SC!TrackersAreTrue

\* A removable node does not lose the time it has waited, except to a new empty node
\* (sorting_processor.go, planner.go), and a recently evicted pod is injected while no replacement is
\* counted (planner.go, controller.go).
PlannerForgetsNothing == SC!WaitingIsNotLost /\ SC!ReplacementsCountedOnce
=============================================================================
