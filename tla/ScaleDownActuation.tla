-------------------------- MODULE ScaleDownActuation --------------------------
(***************************************************************************)
(* The scale-down half of the main loop on top of NodeDeletion: it takes a *)
(* snapshot of the deletion tracker, the planner offers nodes that keep    *)
(* their groups at the minimum size, the budgets crop the offer, and the   *)
(* actuator taints and starts first the empty nodes, then those to drain.  *)
(* The deletions it started earlier go on at any moment in between.        *)
(***************************************************************************)
EXTENDS NodeDeletion, ScaleDownBudgets

CONSTANTS Orders,             \* orders in which an offer may list the nodes
          MayDrain,           \* nodes that may have pods to reschedule
          Unregistered,       \* instances that never became nodes, per group
          MaxTaintFailures,   \* failures of taintNodesSync
          MaxAborts,          \* nodes that fail a check or a drain
          MaxRefusals         \* DeleteNodes calls that fail

ASSUME ActuationAssumption ==
  /\ \A o \in Orders : o \in Seq(Nodes) /\ Range(o) = Nodes /\ Len(o) = Cardinality(Nodes)
  /\ MayDrain \subseteq Nodes
  /\ Unregistered \in [NodeGroups -> Nat]
  /\ \A g \in NodeGroups : Cardinality(Nodes) + Unregistered[g] <= MaxBatch
  /\ {MaxTaintFailures, MaxAborts, MaxRefusals} \subseteq Nat

VARIABLES pc,             \* where the main loop is in scaleDown
          status,         \* its snapshot of the tracker
          plan,           \* buckets still to be started
          unregistered,   \* instances of each group that are not nodes
          failures        \* what has failed so far, for the bounds

loopVars == <<pc, status, plan, unregistered, failures>>
allVars == <<vars, loopVars>>

NoPlan == [empty |-> <<>>, drain |-> <<>>]

\* deleteNodesAsync takes the number of nodes for a batch size of 0.
BatchSizes(buckets) ==
  [g \in NodeGroups |->
     IF ~HasGroup(buckets, g) THEN 0
     ELSE LET mine == buckets[CHOOSE k \in DOMAIN buckets : buckets[k].group = g]
          IN  IF mine.BatchSize = 0 THEN Len(mine.nodes) ELSE mine.BatchSize]

-----------------------------------------------------------------------------
\* CheckStatus: NodeDeletionTracker.Snapshot.
CheckStatus ==
  /\ pc = "idle"
  /\ pc' = "plan"
  /\ status' = [names |-> InProgress, count |-> deletionsPerNodeGroup]
  /\ UNCHANGED <<vars, plan, unregistered, failures>>

\* verifyMinSize, for as many nodes of a group as RemovableAt accepts.
verifyMinSize(g, accepted) == targetSize[g] - accepted - status.count[g] >= MinSize[g]

\* a bug the properties must catch: nodes whose deletion is in progress stay candidates
AnyRegistered(offer) ==
  /\ offer \subseteq registered
  /\ \A g \in NodeGroups :
       offer \cap Members[g] # {} => verifyMinSize(g, Cardinality(offer \cap Members[g]))

\* RemovableAt and filterOutOngoingDeletions; IsNodeBeingDeleted keeps tainted
\* nodes from the candidates.
RemovableAt(offer) ==
  /\ offer \subseteq (registered \ status.names) \ tainted
  /\ \A g \in NodeGroups :
       offer \cap Members[g] # {} => verifyMinSize(g, Cardinality(offer \cap Members[g]))

RegisteredIn == [g \in NodeGroups |-> Cardinality(registered \cap Members[g])]

\* AtomicResizeFilteringProcessor: an atomic group is offered whole or not.
FilterUnremovableNodes(offer) ==
  {n \in offer : GroupOf[n] \in AtomicGroups =>
     Cardinality(offer \cap Members[GroupOf[n]]) \in {targetSize[GroupOf[n]], RegisteredIn[GroupOf[n]]}}

\* startDeletion up to the first taint: failures are forgotten and the offer is
\* cropped with the tracker as it is now.
StartDeletion(order, empty, drain) ==
  LET removable == FilterUnremovableNodes(empty \cup drain)
      crop == CropNodes(Cardinality(emptyNodeDeletions), Cardinality(drainedNodeDeletions),
                        order, empty \cap removable, drain \cap removable,
                        GroupOf, AtomicGroups, targetSize, RegisteredIn)
  IN  /\ pc = "plan"
      /\ RemovableAt(empty \cup drain)
      /\ ResetFailures
      /\ plan' = crop
      /\ pc' = IF crop.empty # <<>> THEN "empty" ELSE IF crop.drain # <<>> THEN "drain" ELSE "idle"
      /\ status' = [names |-> {}, count |-> [g \in NodeGroups |-> 0]]
      /\ UNCHANGED <<trackerVars, tainted, async, preparing, batchSize, nodeQueue, bucket,
                     deleting, deleted, refused, cloudVars, unregistered, failures>>

StartEmpty ==
  /\ pc = "empty"
  /\ DeleteAsyncEmpty(NodesOf(plan.empty), BatchSizes(plan.empty))
  /\ plan' = IF plan.drain = <<>> THEN NoPlan ELSE [plan EXCEPT !.empty = <<>>]
  /\ pc' = IF plan.drain = <<>> THEN "idle" ELSE "drain"
  /\ UNCHANGED <<failuresForGroup, status, unregistered, failures>>

StartDrain ==
  /\ pc = "drain"
  /\ DeleteAsyncDrain(NodesOf(plan.drain), BatchSizes(plan.drain))
  /\ plan' = NoPlan
  /\ pc' = "idle"
  /\ UNCHANGED <<failuresForGroup, status, unregistered, failures>>

\* taintNodesSync fails for a node and removes the taints it has put on the
\* others; startDeletion returns.
TaintNodesFails ==
  /\ pc \in {"empty", "drain"}
  /\ failures.taint < MaxTaintFailures
  /\ failures' = [failures EXCEPT !.taint = @ + 1]
  /\ plan' = NoPlan
  /\ pc' = "idle"
  /\ UNCHANGED <<vars, status, unregistered>>

\* removeOldUnregisteredNodes, earlier in the loop: instances of a group that
\* never registered are removed while the group stays at its minimum; with
\* them, all others of an atomic group (overrideNodesToDeleteForZeroOrMax).
RemoveOldUnregisteredNodes(g) ==
  LET possibleToDelete == targetSize[g] - MinSize[g]
      old == Smaller(possibleToDelete, unregistered[g])
      whole == g \in AtomicGroups
  IN  /\ pc = "idle"
      /\ old > 0
      /\ unregistered' = [unregistered EXCEPT ![g] = IF whole THEN 0 ELSE @ - old]
      /\ RemoveOthers(g, IF whole THEN targetSize[g] ELSE old, IF whole THEN Members[g] ELSE {})
      /\ UNCHANGED <<pc, status, plan, failures>>

Worker(n) ==
  /\ \/ ScheduleDeletion(n) \/ AddToBatcher(n) \/ RegisterDeleted(n) \/ RegisterRefused(n)
     \/ NodeVanish(n)
  /\ UNCHANGED loopVars

Abort(n) ==
  /\ failures.abort < MaxAborts
  /\ AbortNodeDeletion(n)
  /\ failures' = [failures EXCEPT !.abort = @ + 1]
  /\ UNCHANGED <<pc, status, plan, unregistered>>

Batcher(g) ==
  /\ \/ remove(g)
     \/ \E S \in deleting : DeleteNodes(S, g, TRUE)
     \/ targetSize[g] <= MinSize[g] /\ \E S \in deleting : DeleteNodes(S, g, FALSE)
  /\ UNCHANGED loopVars

BatcherFails(g) ==
  /\ failures.refusal < MaxRefusals
  /\ \E S \in deleting : DeleteNodes(S, g, FALSE)
  /\ failures' = [failures EXCEPT !.refusal = @ + 1]
  /\ UNCHANGED <<pc, status, plan, unregistered>>

-----------------------------------------------------------------------------
ActuationInit ==
  /\ targetSize = [g \in NodeGroups |-> Cardinality(Members[g]) + Unregistered[g]]
  /\ Init
  /\ pc = "idle"
  /\ status = [names |-> {}, count |-> [g \in NodeGroups |-> 0]]
  /\ plan = NoPlan
  /\ unregistered = Unregistered
  /\ failures = [taint |-> 0, abort |-> 0, refusal |-> 0]

Loop ==
  \/ CheckStatus
  \/ \E order \in Orders : \E empty \in SUBSET Nodes : \E drain \in SUBSET (MayDrain \ empty) :
       StartDeletion(order, empty, drain)
  \/ StartEmpty \/ StartDrain \/ TaintNodesFails
  \/ \E g \in NodeGroups : RemoveOldUnregisteredNodes(g)

ActuationNext ==
  \/ Loop
  \/ \E n \in Nodes : Worker(n) \/ Abort(n)
  \/ \E g \in NodeGroups : Batcher(g) \/ BatcherFails(g)

\* Every goroutine that can run does run, the loop included: deletions do not
\* wait for anything but their own nodes (evictions and delays time out).  A
\* step of the loop is always enabled; that it is taken again and again is
\* stated directly.
Fairness ==
  /\ []<><<pc' # pc>>_allVars
  /\ \A n \in Nodes : WF_allVars(Worker(n))
  /\ \A g \in NodeGroups : WF_allVars(Batcher(g))

ActuationSpec == ActuationInit /\ [][ActuationNext]_allVars
FairActuation == ActuationSpec /\ Fairness

-----------------------------------------------------------------------------
\* Scale-down leaves every node group at its minimum size or above
\* (verifyMinSize), although the sizes, the tracker's snapshot and the deletions
\* in flight are looked at at different moments.
MinSizeKept == \A g \in NodeGroups : targetSize[g] >= MinSize[g]

\* Every deletion that was started ends, for nodes outside atomic groups.
DeletionsEnd ==
  \A n \in Nodes : GroupOf[n] \notin AtomicGroups => (n \in InProgress ~> n \notin InProgress)

\* What the loop does to the nodes is a behaviour of NodeDeletion, for which
\* the invariants are proved.
ImplementsNodeDeletion == Spec

\* An atomic group is only handed to the provider with all its registered nodes.
AtomicGroupsDeletedWhole ==
  \A S \in deleting : \A g \in AtomicGroups :
    S \cap Members[g] # {} => registered \cap Members[g] \subseteq S

\* What holds of the sizes of the groups whatever is in flight.
GroupsAreRespected == MinSizeKept /\ AtomicGroupsDeletedWhole
=============================================================================
