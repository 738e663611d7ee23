----------------------------- MODULE MCActuation -----------------------------
(* What a scale-down does before a node goes to the batcher: the cropping of the offer to the budgets *)
(* (ScaleDownBudgets), the taints (NodeTaints) and the drain (NodeDrain).  They share no state, so    *)
(* the run starts with a choice of one of them; the others stay in an initial state.                  *)
EXTENDS ScaleDownBudgets, NodeDrain, NodeTaints

-----------------------------------------------------------------------------
\* The budgets over many iterations of the main loop: every iteration offers nodes that the planner
\* found removable, and CropNodes cuts the offer down; deletions end in any order.  How a single
\* deletion proceeds is in ScaleDownActuation.
CONSTANTS AllNodes, NodeGroups, GroupOf,
          AtomicGroups,   \* groups with the ZeroOrMaxNodeScaling option
          Orders          \* the orders in which an offer may list the nodes

ASSUME ParallelismAssumption ==
  /\ GroupOf \in [AllNodes -> NodeGroups]
  /\ AtomicGroups \subseteq NodeGroups
  /\ \A o \in Orders : o \in Seq(AllNodes) /\ Range(o) = AllNodes /\ Len(o) = Cardinality(AllNodes)

VARIABLES present,     \* nodes of the cluster
          failed,      \* instances of a group that never became nodes, per group
          emptyInProgress, drainInProgress

budgetVars == <<present, failed, emptyInProgress, drainInProgress>>

Members == [g \in NodeGroups |-> {n \in AllNodes : GroupOf[n] = g}]
InProgress == emptyInProgress \cup drainInProgress
Registered == [g \in NodeGroups |-> Cardinality(present \cap Members[g])]
TargetSizes == [g \in NodeGroups |-> Registered[g] + failed[g]]

\* AtomicResizeFilteringProcessor: an atomic group is offered whole or not.
FilterUnremovableNodes(offer) ==
  {n \in offer : GroupOf[n] \in AtomicGroups =>
     Cardinality(offer \cap Members[GroupOf[n]]) \in {TargetSizes[GroupOf[n]], Registered[GroupOf[n]]}}

\* One scale-down phase.  NodesToDelete never offers a node that the planner
\* knows to be undergoing deletion (filterOutOngoingDeletions).
StartDeletion(order, empty, drain) ==
  LET offered == FilterUnremovableNodes(empty \cup drain)
      crop == CropNodes(Cardinality(emptyInProgress), Cardinality(drainInProgress),
                        order, empty \cap offered, drain \cap offered,
                        GroupOf, AtomicGroups, TargetSizes, Registered)
  IN  /\ emptyInProgress' = emptyInProgress \cup NodesOf(crop.empty)
      /\ drainInProgress' = drainInProgress \cup NodesOf(crop.drain)
      /\ UNCHANGED <<present, failed>>

\* EndDeletion, after which the node is gone or, if it failed, still there.
DeletionEnds(n, gone) ==
  /\ n \in InProgress
  /\ emptyInProgress' = emptyInProgress \ {n}
  /\ drainInProgress' = drainInProgress \ {n}
  /\ present' = IF gone THEN present \ {n} ELSE present
  /\ UNCHANGED failed

BudgetsInit ==
  /\ present = AllNodes
  /\ failed \in [NodeGroups -> 0 .. 1]
  /\ emptyInProgress = {} /\ drainInProgress = {}

BudgetsNext ==
  \/ \E order \in Orders : \E empty \in SUBSET (present \ InProgress) :
       \E drain \in SUBSET ((present \ InProgress) \ empty) : StartDeletion(order, empty, drain)
  \/ \E n \in AllNodes : \E gone \in BOOLEAN : DeletionEnds(n, gone)

BudgetsSpec == BudgetsInit /\ [][BudgetsNext]_budgetVars

-----------------------------------------------------------------------------
Individual(S) == {n \in S : GroupOf[n] \notin AtomicGroups}
Started == InProgress' \ InProgress

IndividualWithinBudgets ==
  /\ Individual(Started) # {} => Cardinality(InProgress') <= MaxScaleDownParallelism
  /\ Individual(Started \cap drainInProgress') # {}
       => Cardinality(drainInProgress') <= MaxDrainParallelism
AtomicGroupsWhole ==
  \A g \in AtomicGroups :
    Started \cap Members[g] # {} => present \cap Members[g] \subseteq Started

\* Nodes outside atomic groups are only started within both budgets, whatever
\* atomic groups took from them before in the same call or in earlier ones,
\* and an atomic group is only ever started with all its registered nodes at
\* once (CropNodes).
BudgetsKept == [][IndividualWithinBudgets /\ AtomicGroupsWhole]_budgetVars

-----------------------------------------------------------------------------
\* The run.
CONSTANTS a1, a2, b1, c1, c2, A, B, C

VARIABLE stage

allVars == <<stage, budgetVars, drainVars, taintVars>>
-----------------------------------------------------------------------------
\* Two atomic groups, of two nodes and of one, and a group of two single nodes.
FiveNodes == {a1, a2, b1, c1, c2}
ThreeGroups == {A, B, C}
GroupAt == [n \in FiveNodes |-> IF n \in {a1, a2} THEN A ELSE IF n = b1 THEN B ELSE C]
TwoAtomic == {A, B}
TwoOrders == {<<a1, a2, b1, c1, c2>>, <<c2, b1, a1, c1, a2>>}

\* A node with two guarded pods of the same name, in two namespaces and two groups of priorities, a
\* pod without a budget and one of a DaemonSet; forced, delayed, in a single group, or empty.
Pod(kind, name, priority) ==
    [kind |-> kind, name |-> name, priority |-> priority, guarded |-> name = "web", stuck |-> FALSE,
     shortLived |-> FALSE, annotation |-> "none"]
Drain ==
    [pods |-> <<Pod("plain", "web", 5), [Pod("plain", "web", 0) EXCEPT !.shortLived = TRUE],
                Pod("plain", "db", 10), Pod("daemon", "log", 12)>>,
     periods |-> <<10, 0>>, drain |-> TRUE, force |-> FALSE, delayed |-> FALSE, faults |-> 1,
     fullDsEviction |-> FALSE, evictDsOccupied |-> TRUE, evictDsEmpty |-> TRUE]
SomeDrains ==
    {Drain,
     [Drain EXCEPT !.force = TRUE, !.faults = 2, !.pods[1].stuck = TRUE],
     [Drain EXCEPT !.force = TRUE, !.faults = 2, !.delayed = TRUE, !.pods[4].annotation = "true",
                   !.evictDsOccupied = FALSE, !.fullDsEviction = TRUE],
     [Drain EXCEPT !.periods = <<2147483647>>, !.delayed = TRUE, !.pods[3].kind = "mirror", !.pods[4].kind = "fake"],
     [Drain EXCEPT !.drain = FALSE, !.delayed = TRUE, !.pods[4].annotation = "false", !.pods[3].kind = "daemon",
                   !.pods[2].kind = "daemon"]}

\* Two nodes: a measured delay with a crash and a failing call, or two rounds with soft taints and an
\* edit by another component.
Events(c, f, e, r, s) == [crashes |-> c, faults |-> f, edits |-> e, rounds |-> r, soft |-> s]
TwoNodes == {c1, c2}
SomeClusters ==
    {[dynamicDelay |-> TRUE, cordon |-> TRUE, softTaints |-> FALSE, budget |-> Events(1, 1, 0, 1, 0)],
     [dynamicDelay |-> FALSE, cordon |-> FALSE, softTaints |-> TRUE, budget |-> Events(0, 0, 1, 2, 1)]}
-----------------------------------------------------------------------------
StageInit ==
    /\ BudgetsInit /\ DrainInit /\ TaintsInit
    /\ stage \in {"budgets", "drain", "taints"}
    /\ stage # "budgets" => \A g \in NodeGroups : failed[g] = 0
    /\ stage # "drain" => task = NewEvictor(Drain)
    /\ stage # "taints" => conf.softTaints

Only(s, step, idle) == stage = s /\ step /\ UNCHANGED <<stage, idle>>
StageNext ==
    \/ Only("budgets", BudgetsNext, <<drainVars, taintVars>>)
    \/ Only("drain", DrainNext, <<budgetVars, taintVars>>)
    \/ Only("taints", TaintsNext, <<budgetVars, drainVars>>)

\* Every goroutine runs, and time passes.
MainRuns ==
    \/ Only("drain", DrainStep \/ TimePasses, <<budgetVars, taintVars>>)
    \/ Only("taints", MainStep, <<budgetVars, drainVars>>)
OthersRun ==
    \/ Only("drain", \E p \in Pods : EvictorStep(p), <<budgetVars, taintVars>>)
    \/ Only("taints", WorkerStep, <<budgetVars, drainVars>>)
TrackerRuns == Only("taints", TrackerStep, <<budgetVars, drainVars>>)
StageSpec ==
    /\ StageInit /\ [][StageNext]_allVars
    /\ WF_allVars(MainRuns) /\ WF_allVars(OthersRun) /\ WF_allVars(TrackerRuns)
-----------------------------------------------------------------------------
\* Drains and taintings return: neither a disruption budget, nor a pod that never stops, nor the
\* goroutine that measures the latency of the taints holds the loop for ever (see DrainEnds and
\* TaintingReturns).
ActuationReturns ==
    []<>((stage = "drain" => Ended) /\ (stage = "taints" => Returned))
=============================================================================
