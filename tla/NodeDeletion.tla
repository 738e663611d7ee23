----------------------------- MODULE NodeDeletion -----------------------------
(***************************************************************************)
(* What happens to a node once its deletion has started: the goroutines of *)
(* the actuator, the GroupDeletionScheduler that holds back the nodes of   *)
(* an atomic group until all of them are ready, the NodeDeletionBatcher    *)
(* that collects nodes of a group into one provider call, and the          *)
(* NodeDeletionTracker that counts deletions in progress.                  *)
(*                                                                         *)
(* The nodes are started in sets chosen by the environment; which sets the *)
(* planner and the budgets really choose is in ScaleDownActuation.         *)
(***************************************************************************)
EXTENDS Integers, FiniteSets

CONSTANTS Nodes, NodeGroups, GroupOf,
          AtomicGroups,   \* groups with the ZeroOrMaxNodeScaling option
          MinSize,
          Batching,       \* is NodeDeletionBatcherInterval > 0?
          MaxBatch        \* no batch size is larger

ASSUME NodeDeletionAssumption ==
  /\ IsFiniteSet(Nodes)
  /\ GroupOf \in [Nodes -> NodeGroups]
  /\ AtomicGroups \subseteq NodeGroups
  /\ MinSize \in [NodeGroups -> Nat]
  /\ Batching \in BOOLEAN
  /\ MaxBatch \in Nat

VARIABLES
  \* NodeDeletionTracker
  deletionsPerNodeGroup, emptyNodeDeletions, drainedNodeDeletions,
  \* nodes that carry the ToBeDeleted taint
  tainted,
  \* goroutines: deleteNodesAsync has the node ahead of it; scheduleDeletion
  \* drains it or waits for its delay annotations
  async, preparing,
  \* batch size the node was started with
  batchSize,
  \* GroupDeletionScheduler
  nodeQueue, failuresForGroup,
  \* NodeDeletionBatcher: the bucket of a group, whose timer is running; the
  \* lists its goroutines hand to DeleteNodes; nodes whose outcome they still
  \* have to register
  bucket, deleting, deleted, refused,
  \* cloud provider: target sizes, nodes that are still registered
  targetSize, registered

trackerVars == <<deletionsPerNodeGroup, emptyNodeDeletions, drainedNodeDeletions>>
cloudVars == <<targetSize, registered>>
vars == <<trackerVars, tainted, async, preparing, batchSize, nodeQueue, failuresForGroup,
          bucket, deleting, deleted, refused, cloudVars>>

Members == [g \in NodeGroups |-> {n \in Nodes : GroupOf[n] = g}]
InProgress == emptyNodeDeletions \cup drainedNodeDeletions
Idle == registered \ (InProgress \cup tainted)

-----------------------------------------------------------------------------
(* The tracker. *)

CountUp(S) == [g \in NodeGroups |-> deletionsPerNodeGroup[g] + Cardinality(S \cap Members[g])]

CountDown(S) ==
  [g \in NodeGroups |->
     LET left == deletionsPerNodeGroup[g] - Cardinality(S \cap Members[g])
     IN  IF left < 0 THEN 0 ELSE left]

\* EndDeletion, for every node of S.  A node whose group has no counter left is
\* kept among the names ("This should never happen", CountersMatchNames).
EndDeletion(S) ==
  LET counted == \A g \in NodeGroups : deletionsPerNodeGroup[g] >= Cardinality(S \cap Members[g])
      ended == IF counted THEN S ELSE {}
  IN  /\ deletionsPerNodeGroup' = CountDown(S)
      /\ emptyNodeDeletions' = emptyNodeDeletions \ ended
      /\ drainedNodeDeletions' = drainedNodeDeletions \ ended

\* a bug the properties must catch: the roll-back removes the taint and never ends the deletion
CleanUpTaintOnly(S) == UNCHANGED trackerVars /\ tainted' = tainted \ S

\* CleanUpAndRecordFailedScaleDownEvent, for every node of S.
CleanUp(S) == EndDeletion(S) /\ tainted' = tainted \ S

-----------------------------------------------------------------------------
(* The actuator. *)

\* ResetAndReportMetrics, at the start of every scale-down phase.
ResetFailures == failuresForGroup' = {}

\* taintNodesSync succeeds and deleteAsyncEmpty starts the nodes of S.
DeleteAsyncEmpty(S, batch) ==
  /\ tainted' = tainted \cup S
  /\ deletionsPerNodeGroup' = CountUp(S)
  /\ emptyNodeDeletions' = emptyNodeDeletions \cup S
  /\ async' = async \cup S
  /\ batchSize' = [n \in Nodes |-> IF n \in S THEN batch[GroupOf[n]] ELSE batchSize[n]]
  /\ UNCHANGED <<drainedNodeDeletions, preparing, nodeQueue, bucket, deleting, deleted,
                 refused, cloudVars>>

\* The same for deleteAsyncDrain.
DeleteAsyncDrain(S, batch) ==
  /\ tainted' = tainted \cup S
  /\ deletionsPerNodeGroup' = CountUp(S)
  /\ drainedNodeDeletions' = drainedNodeDeletions \cup S
  /\ async' = async \cup S
  /\ batchSize' = [n \in Nodes |-> IF n \in S THEN batch[GroupOf[n]] ELSE batchSize[n]]
  /\ UNCHANGED <<emptyNodeDeletions, preparing, nodeQueue, bucket, deleting, deleted,
                 refused, cloudVars>>

\* deleteNodesAsync: the node passes the last checks and gets a goroutine.
ScheduleDeletion(n) ==
  /\ n \in async
  /\ async' = async \ {n}
  /\ preparing' = preparing \cup {n}
  /\ UNCHANGED <<trackerVars, tainted, batchSize, nodeQueue, failuresForGroup, bucket,
                 deleting, deleted, refused, cloudVars>>

-----------------------------------------------------------------------------
(* GroupDeletionScheduler; each of these holds its mutex throughout. *)

\* a bug the properties must catch: the queue is rolled back and not emptied
AbortKeepsQueue(n) ==
  LET g == GroupOf[n]
  IN  /\ n \in async \cup preparing
      /\ failuresForGroup' = failuresForGroup \cup {g}
      /\ CleanUp({n} \cup nodeQueue[g])
      /\ async' = async \ {n}
      /\ preparing' = preparing \ {n}
      /\ UNCHANGED <<nodeQueue, batchSize, bucket, deleting, deleted, refused, cloudVars>>

\* AbortNodeDeletion of a node that failed a check or could not be prepared;
\* the nodes queued for its group are given up with it.
AbortNodeDeletion(n) ==
  LET g == GroupOf[n]
  IN  /\ n \in async \cup preparing
      /\ failuresForGroup' = failuresForGroup \cup {g}
      /\ CleanUp({n} \cup nodeQueue[g])
      /\ nodeQueue' = [nodeQueue EXCEPT ![g] = {}]
      /\ async' = async \ {n}
      /\ preparing' = preparing \ {n}
      /\ UNCHANGED <<batchSize, bucket, deleting, deleted, refused, cloudVars>>

\* NodeDeletionBatcher.AddNodes.
AddNodes(S, g) ==
  IF Batching
  THEN bucket' = [bucket EXCEPT ![g] = @ \cup S] /\ UNCHANGED deleting
  ELSE deleting' = deleting \cup {S} /\ UNCHANGED bucket

\* a bug the properties must catch: a member of an atomic group does not wait for the others
AddToBatcherAtOnce(n) ==
  LET g == GroupOf[n]
  IN  /\ n \in preparing
      /\ preparing' = preparing \ {n}
      /\ AddNodes(nodeQueue[g] \cup {n}, g)
      /\ nodeQueue' = [nodeQueue EXCEPT ![g] = {}]
      /\ UNCHANGED <<trackerVars, tainted, async, batchSize, failuresForGroup, deleted, refused,
                     cloudVars>>

\* addToBatcher: the node is prepared.  Which of the three outcomes the node
\* meets is decided by its group's failures and the length of its queue.
AddToBatcher(n) ==
  LET g == GroupOf[n]
      queue == nodeQueue[g] \cup {n}
      failed == g \in AtomicGroups /\ g \in failuresForGroup
      wait == g \in AtomicGroups /\ Cardinality(queue) < batchSize[n]
  IN  /\ n \in preparing
      /\ preparing' = preparing \ {n}
      /\ \/ /\ failed
            /\ CleanUp({n})
            /\ nodeQueue' = [nodeQueue EXCEPT ![g] = {}]
            /\ UNCHANGED <<bucket, deleting>>
         \/ /\ ~failed /\ wait
            /\ nodeQueue' = [nodeQueue EXCEPT ![g] = queue]
            /\ UNCHANGED <<trackerVars, tainted, bucket, deleting>>
         \/ /\ ~failed /\ ~wait
            /\ AddNodes(queue, g)
            /\ nodeQueue' = [nodeQueue EXCEPT ![g] = {}]
            /\ UNCHANGED <<trackerVars, tainted>>
      /\ UNCHANGED <<async, batchSize, failuresForGroup, deleted, refused, cloudVars>>

-----------------------------------------------------------------------------
(* NodeDeletionBatcher. *)

\* remove: the timer of a bucket fires.
remove(g) ==
  /\ bucket[g] # {}
  /\ bucket' = [bucket EXCEPT ![g] = {}]
  /\ deleting' = deleting \cup {bucket[g]}
  /\ UNCHANGED <<trackerVars, tainted, async, preparing, batchSize, nodeQueue,
                 failuresForGroup, deleted, refused, cloudVars>>

\* deleteNodesFromCloudProvider.  The provider refuses a group that is at its
\* minimum, or fails for reasons of its own.
DeleteNodes(S, g, ok) ==
  /\ S \in deleting
  /\ S \subseteq Members[g]
  /\ ok => targetSize[g] > MinSize[g]
  /\ deleting' = deleting \ {S}
  /\ deleted' = IF ok THEN deleted \cup S ELSE deleted
  /\ refused' = IF ok THEN refused ELSE refused \cup S
  /\ targetSize' = IF ok THEN [targetSize EXCEPT ![g] = @ - Cardinality(S \cap registered)]
                     ELSE targetSize
  /\ UNCHANGED <<trackerVars, tainted, async, preparing, batchSize, nodeQueue,
                 failuresForGroup, bucket, registered>>

\* RegisterAndRecordSuccessfulScaleDownEvent.
RegisterDeleted(n) ==
  /\ n \in deleted
  /\ deleted' = deleted \ {n}
  /\ EndDeletion({n})
  /\ UNCHANGED <<tainted, async, preparing, batchSize, nodeQueue, failuresForGroup, bucket,
                 deleting, refused, cloudVars>>

\* CleanUpAndRecordErrorForFailedScaleDownEvent.
RegisterRefused(n) ==
  /\ n \in refused
  /\ refused' = refused \ {n}
  /\ CleanUp({n})
  /\ UNCHANGED <<async, preparing, batchSize, nodeQueue, failuresForGroup, bucket,
                 deleting, deleted, cloudVars>>

\* A deleted node leaves the API server.
NodeVanish(n) ==
  /\ n \in registered \cap tainted
  /\ n \in deleted \/ n \notin InProgress
  /\ registered' = registered \ {n}
  /\ UNCHANGED <<trackerVars, tainted, async, preparing, batchSize, nodeQueue,
                 failuresForGroup, bucket, deleting, deleted, refused, targetSize>>

\* Instances that are not part of any of these deletions are removed by others:
\* the loop's own repairs, or an operator.
RemoveOthers(g, count, S) ==
  /\ targetSize' = [targetSize EXCEPT ![g] = @ - count]
  /\ registered' = registered \ S
  /\ UNCHANGED <<trackerVars, tainted, async, preparing, batchSize, nodeQueue,
                 failuresForGroup, bucket, deleting, deleted, refused>>

-----------------------------------------------------------------------------
NoBatch == [n \in Nodes |-> 0]
NoNodes == [g \in NodeGroups |-> {}]
Batches == [NodeGroups -> 0 .. MaxBatch]

Init ==
  /\ deletionsPerNodeGroup = [g \in NodeGroups |-> 0]
  /\ emptyNodeDeletions = {} /\ drainedNodeDeletions = {}
  /\ tainted = {} /\ async = {} /\ preparing = {}
  /\ batchSize = NoBatch
  /\ nodeQueue = NoNodes /\ failuresForGroup = {}
  /\ bucket = NoNodes /\ deleting = {} /\ deleted = {} /\ refused = {}
  /\ targetSize \in [NodeGroups -> Nat]
  /\ registered = Nodes

Goroutines ==
  \/ \E n \in Nodes : \/ ScheduleDeletion(n) \/ AbortNodeDeletion(n) \/ AddToBatcher(n)
                      \/ RegisterDeleted(n) \/ RegisterRefused(n) \/ NodeVanish(n)
  \/ \E g \in NodeGroups : \/ remove(g)
                           \/ \E S \in deleting : \E ok \in BOOLEAN : DeleteNodes(S, g, ok)

Next ==
  \/ \E S \in SUBSET Idle : \E batch \in Batches :
       (DeleteAsyncEmpty(S, batch) \/ DeleteAsyncDrain(S, batch)) /\ UNCHANGED failuresForGroup
  \/ ResetFailures /\ UNCHANGED <<trackerVars, tainted, async, preparing, batchSize, nodeQueue,
                                  bucket, deleting, deleted, refused, cloudVars>>
  \/ \E g \in NodeGroups : \E S \in SUBSET Members[g] : \E count \in 0 .. targetSize[g] :
       RemoveOthers(g, count, S)
  \/ Goroutines

Spec == Init /\ [][Next]_vars

-----------------------------------------------------------------------------
TypeOK ==
  /\ deletionsPerNodeGroup \in [NodeGroups -> Nat]
  /\ emptyNodeDeletions \subseteq Nodes /\ drainedNodeDeletions \subseteq Nodes
  /\ tainted \subseteq Nodes /\ async \subseteq Nodes /\ preparing \subseteq Nodes
  /\ batchSize \in [Nodes -> Nat]
  /\ nodeQueue \in [NodeGroups -> SUBSET Nodes]
  /\ failuresForGroup \subseteq NodeGroups
  /\ bucket \in [NodeGroups -> SUBSET Nodes]
  /\ deleting \subseteq SUBSET Nodes
  /\ deleted \subseteq Nodes /\ refused \subseteq Nodes
  /\ targetSize \in [NodeGroups -> Int]
  /\ registered \subseteq Nodes

\* The places in which a node under deletion can be.
Queued == UNION {nodeQueue[g] : g \in NodeGroups}
Bucketed == UNION {bucket[g] : g \in NodeGroups}
Deleting == UNION deleting

\* Every node that the tracker reports as being deleted is in the hands of
\* exactly one goroutine or queue, and nothing else is: no deletion is
\* forgotten by everyone and none is carried out twice.
HeldOnce ==
  /\ InProgress = async \cup preparing \cup Queued \cup Bucketed \cup Deleting \cup deleted \cup refused
  /\ async \cap preparing = {}
  /\ (async \cup preparing) \cap (Queued \cup Bucketed \cup Deleting \cup deleted \cup refused) = {}
  /\ Queued \cap (Bucketed \cup Deleting \cup deleted \cup refused) = {}
  /\ Bucketed \cap (Deleting \cup deleted \cup refused) = {}
  /\ Deleting \cap (deleted \cup refused) = {}
  /\ deleted \cap refused = {}
  /\ \A S, T \in deleting : S # T => S \cap T = {}

\* The per-group counters that the minimum size check uses agree with the node
\* names that the planner and the budgets use.
CountersMatchNames ==
  \A g \in NodeGroups : deletionsPerNodeGroup[g] = Cardinality(InProgress \cap Members[g])

\* A node loses its ToBeDeleted taint when its deletion is given up, and only
\* then: whatever is in progress is tainted, and an untainted node that is
\* still wanted by nobody can take pods again.
TaintedWhileInProgress == InProgress \subseteq tainted
=============================================================================
