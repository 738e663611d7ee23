---------------------- MODULE ScaleDownActuationProofs ----------------------
(***************************************************************************)
(* Proofs about the scale-down half of the main loop on top of the         *)
(* deletion pipeline, for any nodes, groups, budgets, offers and numbers   *)
(* of failures: every step of the loop is a step of the pipeline, atomic   *)
(* groups are deleted whole, no group falls below its minimum, and nodes   *)
(* outside atomic groups are only started within the budgets.              *)
(***************************************************************************)
EXTENDS ScaleDownActuation, ActuationProofs

-----------------------------------------------------------------------------
(* The main loop on top of the pipeline.  An instance of a group is live as long as nobody has     *)
(* deleted it; the target size of a group counts its live nodes and its unregistered instances.    *)
LiveNodes == {n \in registered : n \notin deleted /\ (n \in InProgress \/ n \notin tainted)}
Live(g) == LiveNodes \cap Members[g]
InFlight(g) == Live(g) \cap InProgress
Here(g) == registered \cap Members[g]

Accounted(g) ==
  /\ unregistered[g] \in 0 .. Unregistered[g]
  /\ targetSize[g] = Cardinality(Live(g)) + unregistered[g]

(* What startDeletion has still to start is idle, in one bucket only, and comes with batch sizes   *)
(* that make an atomic group wait for all its nodes.                                               *)
BucketOK(b) ==
  /\ b.group \in NodeGroups
  /\ b.nodes \in Seq(Nodes) /\ Len(b.nodes) <= Cardinality(Nodes)
  /\ \A k \in 1 .. Len(b.nodes) : GroupOf[b.nodes[k]] = b.group
  /\ b.BatchSize \in 0 .. MaxBatch
  /\ b.group \in AtomicGroups => b.BatchSize >= Cardinality(Here(b.group))

PlanOK ==
  /\ plan = [empty |-> plan.empty, drain |-> plan.drain]
  /\ \A k \in DOMAIN plan.empty : BucketOK(plan.empty[k])
  /\ \A k \in DOMAIN plan.drain : BucketOK(plan.drain[k])
  /\ NodesOf(plan.empty) \subseteq Idle /\ NodesOf(plan.drain) \subseteq Idle
  /\ NodesOf(plan.empty) \cap NodesOf(plan.drain) = {}
  /\ pc \in {"idle", "plan"} => plan = NoPlan

(* The snapshot of the tracker covers every deletion that is still in progress.                    *)
StatusOK ==
  pc = "plan" =>
    /\ InProgress \subseteq status.names /\ status.names \subseteq Nodes
    /\ \A g \in NodeGroups : status.count[g] = Cardinality(status.names \cap Members[g])

(* The minimum size is kept even if every deletion that is in flight or planned succeeds.          *)
Planned == NodesOf(plan.empty) \cup NodesOf(plan.drain)

Slack(g) == targetSize[g] - Cardinality(InFlight(g)) - Cardinality(Planned \cap Members[g])

Room(g) ==
  Unregistered[g] = 0 /\ Cardinality(Members[g]) >= MinSize[g] => Slack(g) >= MinSize[g]

(* An atomic group is deleted whole: its live nodes are all its nodes or none, and whoever queues  *)
(* them for the batcher waits for all of them.                                                     *)
Whole(g) ==
  /\ Live(g) = {} \/ Live(g) = Here(g)
  /\ Here(g) = {} \/ (Members[g] \cap InProgress) \ deleted \subseteq registered
  /\ \A n \in Members[g] \cap (async \cup preparing) : batchSize[n] >= Cardinality(Here(g))
  /\ bucket[g] # {} => Here(g) \subseteq bucket[g]
  /\ \A S \in deleting : S \cap Members[g] # {} => Here(g) \subseteq S

LoopInv ==
  /\ PlanOK /\ StatusOK /\ unregistered \in [NodeGroups -> Nat]
  /\ \A g \in NodeGroups : Accounted(g) /\ Room(g)

ActInv == IInv /\ LoopInv /\ \A g \in AtomicGroups : Whole(g)

(* A step that starts no deletion and completes none.                                              *)
Quiet ==
  /\ LiveNodes' = LiveNodes
  /\ registered' \subseteq registered
  /\ targetSize' = targetSize
  /\ InProgress' \subseteq InProgress
  /\ Idle \subseteq Idle'
  /\ InProgress' \ deleted' \subseteq InProgress \ deleted

(* What the proofs below need of sizes.                                                            *)
LEMMA Sizes ==
  /\ \A n \in Nat : n \in Int
  /\ \A t \in Int : t - t = 0 + 0
  /\ \A l \in Nat, u \in Nat : u = 0 => l + u = l
  /\ \A n \in Nat : \A u \in 0 .. n : u \in Int
  OBVIOUS

LEMMA SizesMove ==
  /\ \A l \in Nat, u \in Nat, c \in Nat : (l + u) - c = (l - c) + u
  /\ \A l \in Nat, u \in Int, c \in Int : (l + u) - c = l + (u - c)
  /\ \A l \in Nat, u \in Nat : (l + u) - 0 - 0 = l + u
  OBVIOUS

LEMMA SlackStays ==
  ASSUME NEW t \in Int, NEW i \in Nat, NEW p \in Nat, NEW c \in Nat
  PROVE  (t - c) - (i - c) - p = t - i - p /\ t - i - p \in Int
  OBVIOUS

LEMMA SlackSize == \A t \in Int, i \in Nat, p \in Nat : t - i - p \in Int
  OBVIOUS

LEMMA SlackGrows ==
  ASSUME NEW t \in Int, NEW i \in Nat, NEW p \in Nat, NEW c \in Nat, NEW f \in Nat, NEW i1, NEW q,
         i1 = i + c, q = p - c, f <= q
  PROVE  t - i - p \in Int /\ t - i1 - f \in Int /\ t - i1 - f >= t - i - p
  OBVIOUS

LEMMA SlackSuffices ==
  ASSUME NEW t \in Int, NEW i \in Nat, NEW p \in Nat, NEW m \in Nat, t - i - p >= m
  PROVE  t >= m
  OBVIOUS

LEMMA LessIsSafer ==
  ASSUME NEW t \in Int, NEW i \in Nat, NEW p \in Nat, NEW j \in Nat, NEW q \in Nat, NEW m \in Nat,
         i <= j, p <= q, t - q - j >= m
  PROVE  t - i - p >= m
  OBVIOUS

LEMMA OldOnes ==
  ASSUME NEW t \in Int, NEW m \in Nat, NEW n \in Nat, NEW u \in 0 .. n
  PROVE  /\ Smaller(t - m, u) \in Int /\ Smaller(t - m, u) <= t /\ Smaller(t - m, u) <= u
         /\ u - Smaller(t - m, u) \in Nat
  BY DEF Smaller

(* A batch may wait for all registered instances (h) or for all instances (h + u) of a group.      *)
LEMMA BatchesFit ==
  ASSUME NEW h \in Nat, NEW all \in Nat, h <= all, NEW n \in Nat, NEW u \in 0 .. n, NEW max \in Nat,
         all + n <= max
  PROVE  /\ h + u \in 0 .. max /\ h + u >= h
         /\ h \in 0 .. max /\ h >= h /\ h \in Int /\ 0 \in 0 .. max
  OBVIOUS

LEMMA SetTypes ==
  ASSUME IInv
  PROVE  /\ InProgress \in SUBSET Nodes /\ registered \in SUBSET Nodes /\ LiveNodes \in SUBSET registered
         /\ deleted \in SUBSET InProgress /\ refused \in SUBSET InProgress
         /\ InProgress \in SUBSET tainted /\ Idle \in SUBSET LiveNodes
         /\ \A g \in NodeGroups : targetSize[g] \in Int /\ MinSize[g] \in Nat /\ Unregistered[g] \in Nat
  <1>1. InProgress \in SUBSET Nodes /\ registered \in SUBSET Nodes /\ LiveNodes \in SUBSET registered
    BY DEF IInv, TypeOK, InProgress, LiveNodes
  <1>2. deleted \in SUBSET InProgress /\ refused \in SUBSET InProgress
    BY DEF IInv, TypeOK, NodeHeld
  <1>3. InProgress \in SUBSET tainted
    BY DEF IInv, TaintedWhileInProgress
  <1>4. Idle \in SUBSET LiveNodes
    BY <1>2 DEF Idle, LiveNodes
  <1>5. \A g \in NodeGroups : targetSize[g] \in Int /\ MinSize[g] \in Nat /\ Unregistered[g] \in Nat
    BY NodeDeletionAssumption, ActuationAssumption DEF IInv, TypeOK
  <1>6. QED
    BY <1>1, <1>2, <1>3, <1>4, <1>5

LEMMA CleanUpQuiet ==
  ASSUME IInv, NEW S \in SUBSET InProgress, S \cap deleted = {}, CleanUp(S), deleted' = deleted,
         registered' = registered, targetSize' = targetSize
  PROVE  Quiet
  <1>1. InProgress' = InProgress \ S
    BY EndDeletionEffect DEF IInv, CleanUp
  <1>2. tainted' = tainted \ S
    BY DEF CleanUp
  <1>3. LiveNodes' = LiveNodes
    BY <1>1, <1>2, SetTypes DEF LiveNodes
  <1>4. Idle \subseteq Idle'
    BY <1>1, <1>2 DEF Idle
  <1>5. QED
    BY <1>1, <1>3, <1>4 DEF Quiet

(* Steps that touch neither the tracker nor the taints nor the nodes.                              *)
LEMMA NothingQuiet ==
  ASSUME UNCHANGED <<trackerVars, tainted, deleted, cloudVars>>
  PROVE  Quiet
  <1>1. InProgress' = InProgress
    BY DEF InProgress, trackerVars
  <1>2. QED
    BY <1>1 DEF Quiet, LiveNodes, Idle, cloudVars

LEMMA AbortQuiet ==
  ASSUME IInv, NEW n \in Nodes, AbortNodeDeletion(n)
  PROVE  Quiet
  <1> DEFINE S == {n} \cup nodeQueue[GroupOf[n]]
  <1>1. /\ n \in async \cup preparing /\ CleanUp(S)
        /\ deleted' = deleted /\ registered' = registered /\ targetSize' = targetSize
    BY DEF AbortNodeDeletion, cloudVars
  <1>2. GroupOf[n] \in NodeGroups
    BY NodeDeletionAssumption
  <1>3. ASSUME NEW m \in S
        PROVE  m \in InProgress /\ m \notin deleted
    <2>1. m = n \/ m \in nodeQueue[GroupOf[n]]
      OBVIOUS
    <2>2. CASE m = n
      BY <1>1, <2>2 DEF IInv, NodeHeld
    <2>3. CASE m \in nodeQueue[GroupOf[n]]
      <3>1. m \in Nodes /\ GroupOf[m] = GroupOf[n]
        BY <1>2, <2>3, MembersType DEF IInv, Placed
      <3>2. InQueue(m)
        BY <2>3, <3>1 DEF InQueue
      <3>3. QED
        BY <3>1, <3>2 DEF IInv, NodeHeld
    <2>4. QED
      BY <2>1, <2>2, <2>3
  <1>4. QED
    BY <1>1, <1>3, CleanUpQuiet

LEMMA AddToBatcherQuiet ==
  ASSUME IInv, NEW n \in Nodes, AddToBatcher(n)
  PROVE  Quiet
  <1>1. n \in preparing /\ deleted' = deleted /\ registered' = registered /\ targetSize' = targetSize
    BY DEF AddToBatcher, cloudVars
  <1>2. CleanUp({n}) \/ UNCHANGED <<trackerVars, tainted>>
    BY DEF AddToBatcher
  <1>3. n \in InProgress /\ n \notin deleted
    BY <1>1 DEF IInv, NodeHeld
  <1>4. CASE CleanUp({n})
    BY <1>1, <1>3, <1>4, CleanUpQuiet
  <1>5. CASE UNCHANGED <<trackerVars, tainted>>
    BY <1>1, <1>5, NothingQuiet DEF cloudVars
  <1>6. QED
    BY <1>2, <1>4, <1>5

LEMMA RegisterQuiet ==
  ASSUME IInv, NEW n \in Nodes, RegisterDeleted(n) \/ RegisterRefused(n)
  PROVE  Quiet
  <1>1. CASE RegisterDeleted(n)
    <2>1. n \in deleted /\ deleted' = deleted \ {n} /\ EndDeletion({n})
          /\ tainted' = tainted /\ registered' = registered /\ targetSize' = targetSize
      BY <1>1 DEF RegisterDeleted, cloudVars
    <2>2. n \in InProgress /\ n \in tainted
      BY <2>1, SetTypes
    <2>3. InProgress' = InProgress \ {n}
      BY <2>1, <2>2, EndDeletionEffect DEF IInv
    <2>4. LiveNodes' = LiveNodes
      BY <2>1, <2>2, <2>3 DEF LiveNodes
    <2>5. Idle \subseteq Idle'
      BY <2>1, <2>3 DEF Idle
    <2>6. QED
      BY <2>1, <2>3, <2>4, <2>5 DEF Quiet
  <1>2. CASE RegisterRefused(n)
    <2>1. n \in refused /\ CleanUp({n}) /\ deleted' = deleted /\ registered' = registered
          /\ targetSize' = targetSize
      BY <1>2 DEF RegisterRefused, cloudVars
    <2>2. n \in InProgress /\ n \notin deleted
      BY <2>1 DEF IInv, NodeHeld
    <2>3. QED
      BY <2>1, <2>2, CleanUpQuiet
  <1>3. QED
    BY <1>1, <1>2

LEMMA VanishQuiet ==
  ASSUME IInv, NEW n \in Nodes, NodeVanish(n)
  PROVE  Quiet /\ n \notin LiveNodes
  <1>1. /\ n \in tainted /\ (n \in deleted \/ n \notin InProgress) /\ registered' = registered \ {n}
        /\ tainted' = tainted /\ deleted' = deleted /\ targetSize' = targetSize
    BY DEF NodeVanish
  <1>2. InProgress' = InProgress
    BY DEF NodeVanish, trackerVars, InProgress
  <1>3. LiveNodes' = LiveNodes /\ n \notin LiveNodes
    BY <1>1, <1>2 DEF LiveNodes
  <1>4. Idle \subseteq Idle'
    BY <1>1, <1>2 DEF Idle
  <1>5. QED
    BY <1>1, <1>2, <1>3, <1>4 DEF Quiet

(* Sizes of the sets of a group's nodes.                                                           *)
LEMMA GroupSizes ==
  ASSUME IInv, NEW g \in NodeGroups
  PROVE  /\ Cardinality(Here(g)) \in Nat /\ Cardinality(Live(g)) \in Nat
         /\ Cardinality(InFlight(g)) \in Nat
         /\ Live(g) \in SUBSET Here(g) /\ Here(g) \in SUBSET Nodes
         /\ InFlight(g) \in SUBSET Live(g)
         /\ Cardinality(Live(g)) <= Cardinality(Here(g))
         /\ Cardinality(InFlight(g)) <= Cardinality(Live(g))
         /\ Cardinality(Here(g)) <= Cardinality(Nodes) /\ Cardinality(Nodes) \in Nat
  <1>1. Here(g) \in SUBSET Nodes /\ Live(g) \in SUBSET Here(g) /\ InFlight(g) \in SUBSET Live(g)
    BY SetTypes DEF Here, Live, InFlight
  <1>2. Live(g) \in SUBSET Nodes /\ InFlight(g) \in SUBSET Nodes /\ Nodes \in SUBSET Nodes
    BY <1>1
  <1>3. QED
    BY <1>1, <1>2, Finite, Monotone

LEMMA BucketsKept ==
  ASSUME IInv, registered' \subseteq registered, NEW b, BucketOK(b)
  PROVE  BucketOK(b)'
  <1>1. b.group \in NodeGroups
    BY DEF BucketOK
  <1>2. Here(b.group)' \in SUBSET Here(b.group)
    BY DEF Here, Members
  <1>3. Cardinality(Here(b.group)') <= Cardinality(Here(b.group))
    BY <1>1, <1>2, GroupSizes, Monotone
  <1>4. Cardinality(Here(b.group)') \in Nat /\ Cardinality(Here(b.group)) \in Nat
    BY <1>1, <1>2, GroupSizes, Finite
  <1>5. b.group \in AtomicGroups => b.BatchSize >= Cardinality(Here(b.group)')
    BY <1>3, <1>4 DEF BucketOK
  <1> HIDE DEF Here
  <1>6. QED
    BY <1>5 DEF BucketOK

LEMMA PlanKept ==
  ASSUME IInv, PlanOK, registered' \subseteq registered, Idle \subseteq Idle',
         UNCHANGED <<plan, pc>>
  PROVE  PlanOK'
  <1>1. /\ \A k \in DOMAIN plan.empty : BucketOK(plan.empty[k])'
        /\ \A k \in DOMAIN plan.drain : BucketOK(plan.drain[k])'
    <2>1. ASSUME NEW k \in DOMAIN plan.empty
          PROVE  BucketOK(plan.empty[k])'
      <3>1. PICK b : b = plan.empty[k]
        OBVIOUS
      <3>2. BucketOK(b)'
        BY <3>1, BucketsKept, Zenon DEF PlanOK
      <3>3. QED
        BY <3>1, <3>2 DEF BucketOK, Here
    <2>2. ASSUME NEW k \in DOMAIN plan.drain
          PROVE  BucketOK(plan.drain[k])'
      <3>1. PICK b : b = plan.drain[k]
        OBVIOUS
      <3>2. BucketOK(b)'
        BY <3>1, BucketsKept DEF PlanOK
      <3>3. QED
        BY <3>1, <3>2 DEF BucketOK, Here
    <2>3. QED
      BY <2>1, <2>2, Zenon
  <1>2. /\ NodesOf(plan.empty)' = NodesOf(plan.empty)
        /\ NodesOf(plan.drain)' = NodesOf(plan.drain)
    BY DEF NodesOf
  <1>3. QED
    BY <1>1, <1>2 DEF PlanOK

LEMMA StatusKept ==
  ASSUME StatusOK, InProgress' \subseteq InProgress, UNCHANGED <<pc, status>>
  PROVE  StatusOK'
  BY DEF StatusOK, Members

LEMMA RoomKept ==
  ASSUME NEW g \in NodeGroups, Room(g), Slack(g) \in Int, Slack(g)' \in Int, Slack(g)' >= Slack(g)
  PROVE  Room(g)'
  <1>1. Members' = Members
    BY DEF Members
  <1>2. MinSize[g] \in Nat
    BY NodeDeletionAssumption
  <1>3. QED
    BY <1>1, <1>2 DEF Room

LEMMA QuietSizes ==
  ASSUME IInv, LoopInv, Quiet, unregistered' = unregistered, Planned' \subseteq Planned,
         NEW g \in NodeGroups
  PROVE  Accounted(g)' /\ Room(g)'
  <1> DEFINE planned == Planned \cap Members[g]
             after == (Planned \cap Members[g])'
  <1>1. Live(g)' = Live(g) /\ InFlight(g)' \in SUBSET InFlight(g)
    BY DEF Quiet, Live, InFlight, Members
  <1>2. after \in SUBSET planned /\ planned \in SUBSET Nodes
    BY DEF Members
  <1>3. InFlight(g) \in SUBSET Nodes
    BY GroupSizes
  <1>4. targetSize' = targetSize /\ targetSize[g] \in Int
    BY SetTypes DEF Quiet
  <1>5. Slack(g) = targetSize[g] - Cardinality(InFlight(g)) - Cardinality(planned)
    BY DEF Slack
  <1>6. Slack(g)' = targetSize[g] - Cardinality(InFlight(g)') - Cardinality(after)
    BY <1>4 DEF Slack
  <1> HIDE DEF planned, after
  <1>7. /\ Cardinality(InFlight(g)') <= Cardinality(InFlight(g)) /\ Cardinality(InFlight(g)') \in Nat
        /\ Cardinality(after) <= Cardinality(planned) /\ Cardinality(after) \in Nat
        /\ Cardinality(InFlight(g)) \in Nat /\ Cardinality(planned) \in Nat
    BY <1>1, <1>2, <1>3, Finite, Monotone
  <1>8. Slack(g) \in Int /\ Slack(g)' \in Int /\ Slack(g)' >= Slack(g)
    BY <1>4, <1>5, <1>6, <1>7
  <1>9. Accounted(g) /\ Room(g)
    BY DEF LoopInv
  <1>10. QED
    BY <1>1, <1>4, <1>8, <1>9, RoomKept DEF Accounted

LEMMA QuietLoop ==
  ASSUME IInv, LoopInv, Quiet, UNCHANGED <<pc, status, plan, unregistered>>
  PROVE  LoopInv'
  <1>1. PlanOK' /\ StatusOK'
    BY PlanKept, StatusKept DEF LoopInv, Quiet
  <1>2. Planned' = Planned
    BY DEF Planned, NodesOf
  <1>3. QED
    BY <1>1, <1>2, QuietSizes DEF LoopInv

LEMMA WholeKept ==
  ASSUME NEW g \in AtomicGroups, Whole(g), Quiet, registered' = registered,
         async' \cup preparing' \subseteq async \cup preparing, batchSize' = batchSize,
         bucket'[g] # {} => Here(g) \subseteq bucket'[g],
         \A S \in deleting' : S \cap Members[g] # {} => Here(g) \subseteq S
  PROVE  Whole(g)'
  <1>1. Live(g)' = Live(g) /\ Here(g)' = Here(g) /\ Members' = Members
    BY DEF Quiet, Live, Here, Members
  <1>2. (Members[g] \cap InProgress') \ deleted' \subseteq (Members[g] \cap InProgress) \ deleted
    BY DEF Quiet
  <1> HIDE DEF Live, Here
  <1>3. Live(g)' = {} \/ Live(g)' = Here(g)'
    BY <1>1 DEF Whole
  <1>4. Here(g)' = {} \/ (Members'[g] \cap InProgress') \ deleted' \subseteq registered'
    BY <1>1, <1>2 DEF Whole
  <1>5. \A n \in Members'[g] \cap (async' \cup preparing') : batchSize'[n] >= Cardinality(Here(g)')
    BY <1>1 DEF Whole
  <1>6. /\ bucket'[g] # {} => Here(g)' \subseteq bucket'[g]
        /\ \A S \in deleting' : S \cap Members'[g] # {} => Here(g)' \subseteq S
    BY <1>1
  <1>7. QED
    BY <1>3, <1>4, <1>5, <1>6 DEF Whole

LEMMA QuietWhole ==
  ASSUME NEW g \in AtomicGroups, Whole(g), Quiet, registered' = registered,
         async' \cup preparing' \subseteq async \cup preparing, batchSize' = batchSize,
         bucket' = bucket, deleting' \subseteq deleting
  PROVE  Whole(g)'
  <1>1. /\ bucket'[g] # {} => Here(g) \subseteq bucket'[g]
        /\ \A S \in deleting' : S \cap Members[g] # {} => Here(g) \subseteq S
    BY DEF Whole
  <1>2. QED
    BY <1>1, WholeKept

-----------------------------------------------------------------------------
(* Whoever queues the last node of an atomic group hands over all of them.                         *)
LEMMA AddToBatcherWhole ==
  ASSUME IInv, NEW n \in Nodes, AddToBatcher(n), NEW g \in AtomicGroups, Whole(g)
  PROVE  Whole(g)'
  <1> DEFINE h == GroupOf[n]
             queue == nodeQueue[h] \cup {n}
             wait == h \in AtomicGroups /\ Cardinality(queue) < batchSize[n]
  <1>1. Quiet
    BY AddToBatcherQuiet
  <1>2. /\ n \in preparing /\ preparing' = preparing \ {n} /\ async' = async
        /\ batchSize' = batchSize /\ registered' = registered
    BY DEF AddToBatcher, cloudVars
  <1>3. UNCHANGED <<bucket, deleting>> \/ (~wait /\ AddNodes(queue, h))
    BY DEF AddToBatcher
  <1>4. CASE UNCHANGED <<bucket, deleting>>
    BY <1>1, <1>2, <1>4, QuietWhole, Zenon
  <1>5. CASE ~wait /\ AddNodes(queue, h)
    <2>1. h \in NodeGroups /\ g \in NodeGroups /\ bucket \in [NodeGroups -> SUBSET Nodes]
      BY NodeDeletionAssumption DEF IInv, TypeOK
    <2>2. ASSUME NEW m \in queue
          PROVE  m \in Nodes /\ GroupOf[m] = h /\ m \in InProgress /\ m \notin deleted
      <3>1. CASE m = n
        BY <1>2, <3>1, Zenon DEF IInv, NodeHeld
      <3>2. CASE m \in nodeQueue[h]
        <4>1. m \in Nodes /\ GroupOf[m] = h
          BY <2>1, <3>2, MembersType DEF IInv, Placed
        <4>2. InQueue(m)
          BY <3>2, <4>1 DEF InQueue
        <4>3. QED
          BY <4>1, <4>2 DEF IInv, NodeHeld
      <3>3. QED
        BY <3>1, <3>2
    <2>3. ASSUME g = h
          PROVE  Here(g) \subseteq queue
      <3>1. CASE Here(g) = {}
        BY <3>1
      <3>2. CASE Here(g) # {}
        <4>1. queue \in SUBSET Here(g)
          BY <2>1, <2>2, <2>3, <3>2, MembersType DEF Whole, Here
        <4>2. n \in Members[g] \cap (async \cup preparing)
          BY <1>2, <2>1, <2>3, MembersType, Zenon
        <4>3. batchSize[n] >= Cardinality(Here(g)) /\ batchSize[n] \in Nat
          BY <4>2 DEF Whole, IInv, TypeOK
        <4>4. ~(Cardinality(queue) < batchSize[n])
          BY <1>5, <2>3
        <4>5. Here(g) \in SUBSET Nodes /\ Cardinality(Here(g)) \in Nat
          BY <2>1, GroupSizes
        <4>6. IsFiniteSet(Here(g)) /\ Cardinality(queue) \in Nat /\ Cardinality(queue) <= Cardinality(Here(g))
          BY <4>1, <4>5, Finite, Monotone
        <4>7. Cardinality(queue) = Cardinality(Here(g))
          <5> HIDE DEF queue, Here
          <5>1. QED
            BY <4>3, <4>4, <4>5, <4>6
        <4>8. queue = Here(g)
          <5> HIDE DEF queue, Here
          <5>1. QED
            BY <4>1, <4>6, <4>7, FS_Subset, Zenon
        <4>9. QED
          BY <4>8
      <3>3. QED
        BY <3>1, <3>2
    <2>4. g # h => queue \cap Members[g] = {}
      BY <2>1, <2>2, MembersType, Zenon
    <2>5. bucket'[g] # {} => Here(g) \subseteq bucket'[g]
      <3>1. bucket' = bucket \/ bucket' = [bucket EXCEPT ![h] = @ \cup queue]
        BY <1>5 DEF AddNodes
      <3> HIDE DEF queue, h
      <3>2. QED
        BY <2>1, <2>3, <3>1, Zenon DEF Whole
    <2>6. \A S \in deleting' : S \cap Members[g] # {} => Here(g) \subseteq S
      <3>1. deleting' = deleting \/ deleting' = deleting \cup {queue}
        BY <1>5, Zenon DEF AddNodes
      <3> HIDE DEF queue, h
      <3>2. QED
        BY <2>3, <2>4, <3>1 DEF Whole
    <2>7. QED
      BY <1>1, <1>2, <2>5, <2>6, WholeKept, Zenon
  <1>6. QED
    BY <1>3, <1>4, <1>5

LEMMA RemoveWhole ==
  ASSUME IInv, NEW h \in NodeGroups, remove(h), NEW g \in AtomicGroups, Whole(g)
  PROVE  Whole(g)'
  <1>1. Quiet
    BY NothingQuiet DEF remove
  <1>2. /\ UNCHANGED <<async, preparing, batchSize, registered>>
        /\ bucket' = [bucket EXCEPT ![h] = {}] /\ deleting' = deleting \cup {bucket[h]}
    BY DEF remove, cloudVars
  <1>3. g \in NodeGroups /\ bucket \in [NodeGroups -> SUBSET Nodes]
    BY NodeDeletionAssumption DEF IInv, TypeOK
  <1>4. bucket[h] \cap Members[g] # {} => g = h
    BY <1>3, MembersType DEF IInv, Placed
  <1>5. bucket'[g] # {} => Here(g) \subseteq bucket'[g]
    BY <1>2, <1>3 DEF Whole
  <1>6. \A S \in deleting' : S \cap Members[g] # {} => Here(g) \subseteq S
    BY <1>2, <1>3, <1>4 DEF Whole
  <1>7. QED
    BY <1>1, <1>2, <1>5, <1>6, WholeKept

LEMMA VanishWhole ==
  ASSUME IInv, NEW n \in Nodes, NodeVanish(n), NEW g \in AtomicGroups, Whole(g)
  PROVE  Whole(g)'
  <1>1. Quiet /\ n \notin LiveNodes
    BY VanishQuiet
  <1>2. /\ registered' = registered \ {n} /\ (n \in deleted \/ n \notin InProgress)
        /\ UNCHANGED <<deleted, async, preparing, batchSize, bucket, deleting>>
    BY DEF NodeVanish
  <1>3. InProgress' = InProgress /\ Members' = Members
    BY DEF NodeVanish, trackerVars, InProgress, Members
  <1>4. Live(g)' = Live(g) /\ n \notin Live(g) /\ Here(g)' = Here(g) \ {n}
    BY <1>1, <1>2, <1>3 DEF Quiet, Live, Here
  <1>5. /\ Cardinality(Here(g)') <= Cardinality(Here(g))
        /\ Cardinality(Here(g)') \in Nat /\ Cardinality(Here(g)) \in Nat
    <2>1. Here(g) \in SUBSET Nodes /\ Here(g)' \in SUBSET Here(g)
      BY <1>4, GroupSizes, NodeDeletionAssumption, Zenon
    <2>2. QED
      BY <2>1, Finite, Monotone
  <1>6. Here(g)' = {} \/ (Members[g] \cap InProgress) \ deleted \subseteq registered'
    BY <1>2, <1>4, Zenon DEF Whole
  <1> HIDE DEF Live, Here
  <1>7. Live(g)' = {} \/ Live(g)' = Here(g)'
    BY <1>4, Zenon DEF Whole
  <1>8. \A m \in Members[g] \cap (async \cup preparing) : batchSize[m] >= Cardinality(Here(g)')
    <2>1. ASSUME NEW m \in Members[g] \cap (async \cup preparing)
          PROVE  batchSize[m] >= Cardinality(Here(g)')
      <3>1. batchSize[m] >= Cardinality(Here(g)) /\ batchSize[m] \in Nat
        BY DEF Whole, IInv, TypeOK
      <3>2. QED
        BY <1>5, <3>1
    <2>2. QED
      BY <2>1
  <1>9. /\ bucket[g] # {} => Here(g)' \subseteq bucket[g]
        /\ \A S \in deleting : S \cap Members[g] # {} => Here(g)' \subseteq S
    BY <1>4 DEF Whole
  <1>10. QED
    BY <1>2, <1>3, <1>6, <1>7, <1>8, <1>9, Zenon DEF Whole

-----------------------------------------------------------------------------
(* A successful call takes as many instances off the target size as it deletes live nodes.         *)
LEMMA DeleteEffect ==
  ASSUME IInv, NEW S \in deleting, NEW h \in NodeGroups, DeleteNodes(S, h, TRUE)
  PROVE  /\ S \in SUBSET InProgress /\ S \in SUBSET Members[h] /\ S \cap deleted = {}
         /\ S \cap registered \in SUBSET InFlight(h)
         /\ LiveNodes' = LiveNodes \ S /\ InProgress' = InProgress /\ Idle' = Idle
         /\ registered' = registered /\ deleted' = deleted \cup S
         /\ targetSize' = [targetSize EXCEPT ![h] = @ - Cardinality(S \cap registered)]
  <1>1. /\ S \in SUBSET Members[h] /\ deleted' = deleted \cup S
        /\ UNCHANGED <<trackerVars, tainted, registered>>
        /\ targetSize' = [targetSize EXCEPT ![h] = @ - Cardinality(S \cap registered)]
    BY DEF DeleteNodes
  <1>2. ASSUME NEW n \in S
        PROVE  n \in InProgress /\ n \notin deleted
    <2>1. n \in Nodes /\ InCall(n)
      BY DEF IInv, TypeOK, InCall
    <2>2. QED
      BY <2>1 DEF IInv, NodeHeld
  <1>3. InProgress' = InProgress
    BY <1>1 DEF InProgress, trackerVars
  <1>4. LiveNodes' = LiveNodes \ S /\ Idle' = Idle
    BY <1>1, <1>2, <1>3 DEF LiveNodes, Idle
  <1>5. S \cap registered \in SUBSET InFlight(h)
    BY <1>1, <1>2 DEF InFlight, Live, LiveNodes
  <1>6. QED
    BY <1>1, <1>2, <1>3, <1>4, <1>5, Zenon

LEMMA DeleteLoop ==
  ASSUME IInv, LoopInv, NEW S \in deleting, NEW h \in NodeGroups, DeleteNodes(S, h, TRUE),
         UNCHANGED <<pc, status, plan, unregistered>>
  PROVE  LoopInv'
  <1> DEFINE gone == S \cap registered
  <1>1. PlanOK' /\ StatusOK'
    BY DeleteEffect, PlanKept, StatusKept, Zenon DEF LoopInv
  <1>2. Planned' = Planned /\ Members' = Members
    BY DEF Planned, NodesOf, Members
  <1>3. ASSUME NEW g \in NodeGroups
        PROVE  Accounted(g)' /\ Room(g)'
    <2>1. /\ targetSize \in [NodeGroups -> Int]
          /\ targetSize' = [targetSize EXCEPT ![h] = @ - Cardinality(gone)]
      BY DeleteEffect, Zenon DEF IInv, TypeOK
    <2>2. Accounted(g) /\ Room(g)
      BY DEF LoopInv
    <2>3. Cardinality(Planned \cap Members[g]) \in Nat
      <3>1. Planned \cap Members[g] \in SUBSET Nodes
        BY DEF Members
      <3>2. QED
        BY <3>1, Finite
    <2>4. Cardinality(InFlight(g)) \in Nat /\ Cardinality(Live(g)) \in Nat
      BY GroupSizes
    <2>5. CASE g # h
      <3>1. S \cap Members[g] = {}
        <4>1. S \in SUBSET Members[h]
          BY DeleteEffect, Zenon
        <4>2. QED
          BY <2>5, <4>1, MembersType
      <3>2. Live(g)' = Live(g) /\ InFlight(g)' = InFlight(g)
        BY <1>2, <3>1, DeleteEffect, ZenonT(30) DEF Live, InFlight
      <3>3. targetSize'[g] = targetSize[g]
        BY <2>1, <2>5
      <3>4. Accounted(g)'
        BY <2>2, <3>2, <3>3, Zenon DEF Accounted
      <3>5. Slack(g)' = Slack(g) /\ Slack(g) \in Int
        <4>1. targetSize[g] \in Int
          BY <2>1, Zenon
        <4>2. QED
          BY <1>2, <2>3, <2>4, <3>2, <3>3, <4>1, SlackSize, Zenon DEF Slack
      <3>6. QED
        BY <2>2, <3>4, <3>5, RoomKept
    <2>6. CASE g = h
      <3>1. gone \in SUBSET InFlight(g)
        BY <2>6, DeleteEffect, Zenon
      <3>2. /\ InFlight(g) \in SUBSET Live(g) /\ Live(g) \in SUBSET Nodes /\ InFlight(g) \in SUBSET Nodes
            /\ Live(g) \in SUBSET registered
        BY GroupSizes, SetTypes, Zenon DEF Live
      <3>3. Live(g)' = Live(g) \ gone /\ InFlight(g)' = InFlight(g) \ gone
        BY <1>2, <3>2, DeleteEffect, Zenon DEF Live, InFlight
      <3>4. /\ Cardinality(Live(g)') = Cardinality(Live(g)) - Cardinality(gone)
            /\ Cardinality(InFlight(g)') = Cardinality(InFlight(g)) - Cardinality(gone)
            /\ Cardinality(gone) \in Nat
        <4> HIDE DEF gone
        <4>1. gone \in SUBSET Live(g) /\ gone \in SUBSET Nodes
          BY <3>1, <3>2
        <4>2. QED
          BY <3>1, <3>2, <3>3, <4>1, Difference, Finite, Zenon
      <3>5. targetSize'[g] = targetSize[g] - Cardinality(gone) /\ targetSize[g] \in Int
        BY <2>1, <2>6
      <3>6. unregistered[g] \in Nat
        BY <2>2, SetTypes DEF Accounted
      <3> HIDE DEF gone
      <3>7. Accounted(g)'
        <4>1. targetSize'[g] = Cardinality(Live(g)') + unregistered[g]
          <5>1. (Cardinality(Live(g)) + unregistered[g]) - Cardinality(gone)
                  = (Cardinality(Live(g)) - Cardinality(gone)) + unregistered[g]
            BY <2>4, <3>4, <3>6, SizesMove, ZenonT(30)
          <5>2. QED
            BY <2>2, <3>4, <3>5, <5>1, Zenon DEF Accounted
        <4>2. QED
          BY <2>2, <4>1, Zenon DEF Accounted
      <3>8. Slack(g)' = Slack(g) /\ Slack(g) \in Int
        <4> DEFINE planned == Cardinality(Planned \cap Members[g])
        <4>1. Slack(g)' = targetSize'[g] - Cardinality(InFlight(g)') - planned
          BY <1>2 DEF Slack
        <4>2. Slack(g) = targetSize[g] - Cardinality(InFlight(g)) - planned /\ planned \in Nat
          BY <2>3, Zenon DEF Slack
        <4> HIDE DEF planned
        <4>3. QED
          <5> DEFINE t == targetSize[g]
                     i == Cardinality(InFlight(g))
                     c == Cardinality(gone)
          <5>1. t \in Int /\ i \in Nat /\ planned \in Nat /\ c \in Nat
            BY <2>4, <3>4, <3>5, <4>2, Zenon
          <5> HIDE DEF t, i, c
          <5>2. (t - c) - (i - c) - planned = t - i - planned /\ t - i - planned \in Int
            BY <5>1
          <5>3. QED
            BY <3>4, <3>5, <4>1, <4>2, <5>2, Zenon DEF t, i, c
      <3>9. QED
        BY <2>2, <3>7, <3>8, RoomKept
    <2>7. QED
      BY <2>5, <2>6
  <1>4. QED
    BY <1>1, <1>3 DEF LoopInv

LEMMA DeleteWhole ==
  ASSUME IInv, NEW S \in deleting, NEW h \in NodeGroups, DeleteNodes(S, h, TRUE),
         NEW g \in AtomicGroups, Whole(g)
  PROVE  Whole(g)'
  <1>1. /\ LiveNodes' = LiveNodes \ S /\ InProgress' = InProgress /\ registered' = registered
        /\ deleted' = deleted \cup S
    BY DeleteEffect, Zenon
  <1>2. UNCHANGED <<async, preparing, batchSize, bucket>> /\ deleting' \subseteq deleting
    BY DEF DeleteNodes
  <1>3. Members' = Members /\ Here(g)' = Here(g) /\ Live(g)' = Live(g) \ S
    BY <1>1 DEF Members, Here, Live
  <1>4. Live(g) \subseteq Here(g) /\ Live(g) \subseteq Members[g]
    BY GroupSizes, NodeDeletionAssumption, Zenon DEF Live
  <1>5. S \cap Members[g] # {} => Here(g) \subseteq S
    BY DEF Whole
  <1> HIDE DEF Live, Here
  <1>6. Live(g)' = {} \/ Live(g)' = Here(g)'
    <2>1. CASE S \cap Members[g] = {}
      BY <1>3, <1>4, <2>1, ZenonT(30) DEF Whole
    <2>2. CASE S \cap Members[g] # {}
      BY <1>3, <1>4, <1>5, <2>2, Zenon
    <2>3. QED
      BY <2>1, <2>2, Zenon
  <1>7. Here(g)' = {} \/ (Members[g] \cap InProgress) \ (deleted \cup S) \subseteq registered
    BY <1>3, Zenon DEF Whole
  <1>8. QED
    BY <1>1, <1>2, <1>3, <1>6, <1>7 DEF Whole

-----------------------------------------------------------------------------
(* Starting idle nodes moves them from the plan into the pipeline.                                 *)
LEMMA StartEffect ==
  ASSUME IInv, NEW S \in SUBSET Idle, NEW batch \in Batches,
         DeleteAsyncEmpty(S, batch) \/ DeleteAsyncDrain(S, batch)
  PROVE  /\ LiveNodes' = LiveNodes /\ InProgress' = InProgress \cup S /\ Idle' = Idle \ S
         /\ S \cap InProgress = {} /\ S \in SUBSET LiveNodes
         /\ UNCHANGED <<registered, targetSize, deleted, preparing, bucket, deleting>>
         /\ async' = async \cup S
         /\ batchSize' = [n \in Nodes |-> IF n \in S THEN batch[GroupOf[n]] ELSE batchSize[n]]
  <1>1. /\ InProgress' = InProgress \cup S /\ tainted' = tainted \cup S /\ async' = async \cup S
        /\ UNCHANGED <<registered, targetSize, deleted, preparing, bucket, deleting>>
        /\ batchSize' = [n \in Nodes |-> IF n \in S THEN batch[GroupOf[n]] ELSE batchSize[n]]
    BY DEF DeleteAsyncEmpty, DeleteAsyncDrain, InProgress, cloudVars
  <1>2. S \cap InProgress = {} /\ S \in SUBSET LiveNodes
    BY SetTypes DEF Idle
  <1>3. Idle' = Idle \ S
    BY <1>1, Zenon DEF Idle
  <1>4. LiveNodes' = LiveNodes
    BY <1>1, <1>2, Zenon DEF LiveNodes
  <1>5. QED
    BY <1>1, <1>2, <1>3, <1>4, ZenonT(30)

LEMMA StartSizes ==
  ASSUME IInv, LoopInv, NEW S \in SUBSET Idle, NEW batch \in Batches,
         DeleteAsyncEmpty(S, batch) \/ DeleteAsyncDrain(S, batch),
         S \in SUBSET Planned, Planned' \in SUBSET (Planned \ S), unregistered' = unregistered,
         NEW g \in NodeGroups
  PROVE  Accounted(g)' /\ Room(g)'
  <1> DEFINE started == S \cap Members[g]
             planned == Planned \cap Members[g]
             after == (Planned \cap Members[g])'
  <1>1. /\ LiveNodes' = LiveNodes /\ InProgress' = InProgress \cup S /\ targetSize' = targetSize
        /\ S \cap InProgress = {} /\ S \in SUBSET LiveNodes
    BY StartEffect, Zenon
  <1>2. Members' = Members /\ Live(g)' = Live(g)
    BY <1>1 DEF Members, Live
  <1>3. InFlight(g)' = InFlight(g) \cup started /\ InFlight(g) \cap started = {}
    BY <1>1, <1>2, Zenon DEF InFlight, Live
  <1>4. after \in SUBSET (planned \ started) /\ started \in SUBSET planned
    BY <1>2, Zenon
  <1>5. InFlight(g) \in SUBSET Nodes /\ planned \in SUBSET Nodes /\ started \in SUBSET Nodes
    BY GroupSizes, MembersType, Zenon
  <1>6. targetSize[g] \in Int
    BY SetTypes, Zenon
  <1>7. /\ Slack(g)' = targetSize[g] - Cardinality(InFlight(g)') - Cardinality(after)
        /\ Slack(g) = targetSize[g] - Cardinality(InFlight(g)) - Cardinality(planned)
    BY <1>1 DEF Slack
  <1> HIDE DEF started, planned, after
  <1>8. /\ Cardinality(InFlight(g)') = Cardinality(InFlight(g)) + Cardinality(started)
        /\ Cardinality(planned \ started) = Cardinality(planned) - Cardinality(started)
        /\ Cardinality(InFlight(g)) \in Nat /\ Cardinality(started) \in Nat /\ Cardinality(planned) \in Nat
    BY <1>3, <1>4, <1>5, Disjoint, Difference, Finite, Zenon
  <1>9. Cardinality(after) <= Cardinality(planned \ started) /\ Cardinality(after) \in Nat
    BY <1>4, <1>5, Monotone, Finite, Zenon
  <1>10. Slack(g) \in Int /\ Slack(g)' \in Int /\ Slack(g)' >= Slack(g)
    <2>1. LET now == targetSize[g] - Cardinality(InFlight(g)) - Cardinality(planned)
              then == targetSize[g] - Cardinality(InFlight(g)') - Cardinality(after)
          IN  now \in Int /\ then \in Int /\ then >= now
      BY <1>6, <1>8, <1>9, SlackGrows, Zenon
    <2>2. QED
      BY <1>7, <2>1, Zenon
  <1>11. Accounted(g) /\ Room(g)
    BY DEF LoopInv
  <1>12. QED
    BY <1>1, <1>2, <1>10, <1>11, RoomKept, Zenon DEF Accounted

LEMMA StartWhole ==
  ASSUME IInv, NEW S \in SUBSET Idle, NEW batch \in Batches,
         DeleteAsyncEmpty(S, batch) \/ DeleteAsyncDrain(S, batch),
         NEW g \in AtomicGroups, Whole(g),
         \A n \in S : GroupOf[n] = g => batch[g] >= Cardinality(Here(g))
  PROVE  Whole(g)'
  <1>1. /\ LiveNodes' = LiveNodes /\ InProgress' = InProgress \cup S
        /\ S \in SUBSET LiveNodes
        /\ UNCHANGED <<registered, deleted, preparing, bucket, deleting>>
        /\ async' = async \cup S
    BY StartEffect, Zenon
  <1>0. batchSize' = [n \in Nodes |-> IF n \in S THEN batch[GroupOf[n]] ELSE batchSize[n]]
    BY Zenon DEF DeleteAsyncEmpty, DeleteAsyncDrain
  <1>2. Members' = Members /\ Here(g)' = Here(g) /\ Live(g)' = Live(g)
    BY <1>1 DEF Members, Here, Live
  <1>3. S \in SUBSET registered
    BY <1>1, SetTypes
  <1> HIDE DEF Live, Here
  <1>4. Here(g)' = {} \/ (Members[g] \cap InProgress') \ deleted \subseteq registered
    BY <1>1, <1>2, <1>3, Zenon DEF Whole
  <1>5. \A n \in Members[g] \cap (async' \cup preparing) : batchSize'[n] >= Cardinality(Here(g))
    <2>1. ASSUME NEW n \in Members[g] \cap (async' \cup preparing)
          PROVE  batchSize'[n] >= Cardinality(Here(g))
      <3>1. n \in Nodes /\ GroupOf[n] = g
        BY MembersType, NodeDeletionAssumption
      <3>2. CASE n \in S
        BY <1>0, <3>1, <3>2, Zenon
      <3>3. CASE n \notin S
        BY <1>0, <1>1, <3>1, <3>3, Zenon DEF Whole
      <3>4. QED
        BY <3>2, <3>3, Zenon
    <2>2. QED
      BY <2>1
  <1>6. Live(g)' = {} \/ Live(g)' = Here(g)'
    BY <1>2, Zenon DEF Whole
  <1>7. Here(g)' = {} \/ (Members'[g] \cap InProgress') \ deleted' \subseteq registered'
    BY <1>1, <1>2, <1>4, Zenon
  <1>8. \A n \in Members'[g] \cap (async' \cup preparing') : batchSize'[n] >= Cardinality(Here(g)')
    BY <1>1, <1>2, <1>5, Zenon
  <1>9. /\ bucket'[g] # {} => Here(g)' \subseteq bucket'[g]
        /\ \A T \in deleting' : T \cap Members'[g] # {} => Here(g)' \subseteq T
    BY <1>1, <1>2 DEF Whole
  <1>10. QED
    BY <1>6, <1>7, <1>8, <1>9, Zenon DEF Whole

-----------------------------------------------------------------------------
(* The steps of the loop itself: each is a step of the pipeline and keeps the invariant.           *)

LEMMA BatchSizesType ==
  ASSUME IInv, NEW buckets, \A k \in DOMAIN buckets : BucketOK(buckets[k])
  PROVE  /\ BatchSizes(buckets) \in Batches
         /\ \A n \in NodesOf(buckets) :
              GroupOf[n] \in AtomicGroups
                => BatchSizes(buckets)[GroupOf[n]] >= Cardinality(Here(GroupOf[n]))
  <1> DEFINE mine(g) == buckets[CHOOSE k \in DOMAIN buckets : buckets[k].group = g]
             size(g) == IF ~HasGroup(buckets, g) THEN 0
                        ELSE IF mine(g).BatchSize = 0 THEN Len(mine(g).nodes) ELSE mine(g).BatchSize
  <1>1. BatchSizes(buckets) = [g \in NodeGroups |-> size(g)]
    BY DEF BatchSizes
  <1>2. ASSUME NEW g, HasGroup(buckets, g)
        PROVE  BucketOK(mine(g)) /\ mine(g).group = g
    <2>1. \E k \in DOMAIN buckets : buckets[k].group = g
      BY <1>2 DEF HasGroup
    <2>2. PICK k \in DOMAIN buckets : mine(g) = buckets[k] /\ buckets[k].group = g
      BY <2>1, Zenon
    <2> HIDE DEF mine
    <2>3. QED
      BY <2>2
  <1> HIDE DEF mine
  <1>3. ASSUME NEW g \in NodeGroups, HasGroup(buckets, g)
        PROVE  size(g) \in 0 .. MaxBatch /\ (g \in AtomicGroups => size(g) >= Cardinality(Here(g)))
    <2>1. /\ Len(mine(g).nodes) \in Nat /\ Len(mine(g).nodes) <= Cardinality(Nodes)
          /\ mine(g).BatchSize \in 0 .. MaxBatch
          /\ g \in AtomicGroups => mine(g).BatchSize >= Cardinality(Here(g))
      BY <1>2, <1>3 DEF BucketOK
    <2>2. /\ Cardinality(Here(g)) \in Nat /\ Cardinality(Nodes) \in Nat
          /\ Cardinality(Nodes) <= MaxBatch /\ MaxBatch \in Nat
      BY GroupSizes, NodeDeletionAssumption, ActuationAssumption
    <2> DEFINE b == mine(g).BatchSize
               len == Len(mine(g).nodes)
               h == Cardinality(Here(g))
    <2>3. LET z == IF b = 0 THEN len ELSE b
          IN  z \in 0 .. MaxBatch /\ (g \in AtomicGroups => z >= h)
      <3> HIDE DEF b, len, h
      <3>1. b \in 0 .. MaxBatch /\ len \in Nat /\ len <= Cardinality(Nodes) /\ (g \in AtomicGroups => b >= h)
        BY <2>1, Zenon DEF b, len, h
      <3>2. h \in Nat
        BY <2>2, Zenon DEF h
      <3>3. QED
        BY <2>2, <3>1, <3>2
    <2>4. QED
      BY <1>3, <2>3, Zenon
  <1>4. \A g \in NodeGroups : size(g) \in 0 .. MaxBatch
    BY <1>3, NodeDeletionAssumption
  <1>5. ASSUME NEW n \in NodesOf(buckets)
        PROVE  HasGroup(buckets, GroupOf[n]) /\ GroupOf[n] \in NodeGroups
    <2>1. PICK k \in DOMAIN buckets : n \in Range(buckets[k].nodes)
      BY DEF NodesOf
    <2>2. PICK i \in DOMAIN buckets[k].nodes : n = buckets[k].nodes[i]
      BY <2>1 DEF Range
    <2>3. GroupOf[n] = buckets[k].group /\ buckets[k].group \in NodeGroups
      BY <2>2 DEF BucketOK
    <2>4. QED
      BY <2>1, <2>3 DEF HasGroup
  <1> HIDE DEF size
  <1>6. BatchSizes(buckets) \in Batches
    BY <1>1, <1>4 DEF Batches
  <1>7. \A n \in NodesOf(buckets) :
          GroupOf[n] \in AtomicGroups => BatchSizes(buckets)[GroupOf[n]] >= Cardinality(Here(GroupOf[n]))
    BY <1>1, <1>3, <1>5
  <1>8. QED
    BY <1>6, <1>7

LEMMA NothingPlanned == NodesOf(<<>>) = {}
  BY DEF NodesOf

(* Both ways of starting the nodes of some buckets.                                                *)
LEMMA StartStep ==
  ASSUME ActInv, NEW buckets, \A k \in DOMAIN buckets : BucketOK(buckets[k]),
         NodesOf(buckets) \in SUBSET Idle, NodesOf(buckets) \in SUBSET Planned,
         \/ DeleteAsyncEmpty(NodesOf(buckets), BatchSizes(buckets))
         \/ DeleteAsyncDrain(NodesOf(buckets), BatchSizes(buckets)),
         Planned' \in SUBSET (Planned \ NodesOf(buckets)), PlanOK', pc' # "plan",
         unregistered' = unregistered, UNCHANGED failuresForGroup
  PROVE  Next /\ LoopInv' /\ \A g \in AtomicGroups : Whole(g)'
  <1> DEFINE S == NodesOf(buckets)
             batch == BatchSizes(buckets)
  <1>1. /\ batch \in Batches
        /\ \A n \in S : GroupOf[n] \in AtomicGroups => batch[GroupOf[n]] >= Cardinality(Here(GroupOf[n]))
    BY BatchSizesType DEF ActInv
  <1>2. S \in SUBSET Idle /\ S \in SUBSET Planned
    OBVIOUS
  <1>3. DeleteAsyncEmpty(S, batch) \/ DeleteAsyncDrain(S, batch)
    OBVIOUS
  <1>4. Planned' \in SUBSET (Planned \ S)
    OBVIOUS
  <1> HIDE DEF S, batch
  <1>5. Next
    BY <1>1, <1>2, <1>3, Zenon DEF Next
  <1>6. \A g \in NodeGroups : Accounted(g)' /\ Room(g)'
    BY <1>1, <1>2, <1>3, <1>4, StartSizes, Zenon DEF ActInv
  <1>7. \A g \in AtomicGroups : Whole(g)'
    <2>1. ASSUME NEW g \in AtomicGroups
          PROVE  Whole(g)'
      <3>1. \A n \in S : GroupOf[n] = g => batch[g] >= Cardinality(Here(g))
        BY <1>1, Zenon
      <3>2. QED
        BY <1>1, <1>2, <1>3, <3>1, StartWhole, Zenon DEF ActInv
    <2>2. QED
      BY <2>1
  <1>8. StatusOK'
    BY Zenon DEF StatusOK
  <1>9. QED
    BY <1>5, <1>6, <1>7, <1>8, Zenon DEF LoopInv, ActInv

LEMMA StartEmptyStep ==
  ASSUME ActInv, StartEmpty
  PROVE  Next /\ LoopInv' /\ \A g \in AtomicGroups : Whole(g)'
  <1> DEFINE S == NodesOf(plan.empty)
             batch == BatchSizes(plan.empty)
  <1>1. PlanOK
    BY DEF ActInv, LoopInv
  <1>2. plan' = [empty |-> <<>>, drain |-> plan.drain]
    <2>1. plan = [empty |-> plan.empty, drain |-> plan.drain]
      BY <1>1 DEF PlanOK
    <2>2. CASE plan.drain = <<>>
      BY <2>2 DEF StartEmpty, NoPlan
    <2>3. CASE plan.drain # <<>>
      <3>1. plan' = [plan EXCEPT !.empty = <<>>]
        BY <2>3 DEF StartEmpty
      <3>2. QED
        BY <2>1, <3>1
    <2>4. QED
      BY <2>2, <2>3
  <1>3. plan'.empty = <<>> /\ plan'.drain = plan.drain
    BY <1>2
  <1>4. /\ pc' = IF plan.drain = <<>> THEN "idle" ELSE "drain"
        /\ DeleteAsyncEmpty(S, batch) /\ UNCHANGED <<failuresForGroup, unregistered>>
    BY DEF StartEmpty
  <1>5. /\ \A k \in DOMAIN plan.empty : BucketOK(plan.empty[k])
        /\ \A k \in DOMAIN plan.drain : BucketOK(plan.drain[k])
        /\ S \in SUBSET Idle /\ NodesOf(plan.drain) \in SUBSET Idle /\ S \cap NodesOf(plan.drain) = {}
    BY <1>1, Zenon DEF PlanOK
  <1>6. batch \in Batches
    BY <1>5, BatchSizesType, Zenon DEF ActInv
  <1>7. registered' = registered /\ Idle' = Idle \ S
    <2> HIDE DEF S, batch
    <2>1. QED
      BY <1>4, <1>5, <1>6, StartEffect, Zenon DEF ActInv
  <1>8. Planned = S \cup NodesOf(plan.drain) /\ Planned' = NodesOf(plan.drain)
    BY <1>3, NothingPlanned DEF Planned, NodesOf
  <1>9. PlanOK'
    <2>1. \A k \in DOMAIN plan'.drain : BucketOK(plan.drain[k])'
      <3>1. ASSUME NEW k \in DOMAIN plan.drain
            PROVE  BucketOK(plan.drain[k])'
        <4>1. PICK b : b = plan.drain[k]
          BY Zenon
        <4>2. BucketOK(b)'
          BY <1>5, <1>7, <4>1, BucketsKept DEF ActInv
        <4>3. QED
          BY <1>3, <4>1, <4>2 DEF BucketOK, Here
      <3>2. QED
        BY <1>3, <3>1, Zenon
    <2>2. \A k \in DOMAIN plan'.empty : BucketOK(plan.empty[k])'
      BY <1>3
    <2>3. NodesOf(plan.empty)' = {} /\ NodesOf(plan.drain)' = NodesOf(plan.drain)
      BY <1>3, NothingPlanned, Zenon DEF NodesOf
    <2>4. NodesOf(plan.drain) \in SUBSET Idle'
      BY <1>5, <1>7
    <2>5. pc' \in {"idle", "plan"} => plan' = NoPlan'
      BY <1>2, <1>4 DEF NoPlan
    <2>6. plan' = [empty |-> plan'.empty, drain |-> plan'.drain]
      BY <1>2, Zenon
    <2>7. QED
      BY <2>1, <2>2, <2>3, <2>4, <2>5, <2>6, Zenon DEF PlanOK
  <1>10. pc' # "plan" /\ Planned' \in SUBSET (Planned \ S) /\ S \in SUBSET Planned
    BY <1>4, <1>5, <1>8
  <1>11. QED
    BY <1>4, <1>5, <1>9, <1>10, StartStep, Zenon

LEMMA EmptyPlan ==
  ASSUME plan' = NoPlan
  PROVE  /\ PlanOK' /\ Planned' = {}
  <1>1. plan'.empty = <<>> /\ plan'.drain = <<>> /\ plan' = [empty |-> plan'.empty, drain |-> plan'.drain]
    BY DEF NoPlan
  <1>2. NodesOf(plan.empty)' = {} /\ NodesOf(plan.drain)' = {}
    BY <1>1, NothingPlanned DEF NodesOf
  <1>3. plan' = NoPlan'
    BY DEF NoPlan
  <1>4. QED
    BY <1>1, <1>2, <1>3 DEF PlanOK, Planned

LEMMA StartDrainStep ==
  ASSUME ActInv, StartDrain
  PROVE  Next /\ LoopInv' /\ \A g \in AtomicGroups : Whole(g)'
  <1>1. /\ \A k \in DOMAIN plan.drain : BucketOK(plan.drain[k])
        /\ NodesOf(plan.drain) \in SUBSET Idle
    BY DEF ActInv, LoopInv, PlanOK
  <1>2. /\ plan' = NoPlan /\ pc' = "idle" /\ UNCHANGED <<failuresForGroup, unregistered>>
        /\ DeleteAsyncDrain(NodesOf(plan.drain), BatchSizes(plan.drain))
    BY DEF StartDrain
  <1>3. PlanOK' /\ Planned' = {}
    BY <1>2, EmptyPlan, Zenon
  <1>4. /\ NodesOf(plan.drain) \in SUBSET Planned /\ pc' # "plan"
        /\ Planned' \in SUBSET (Planned \ NodesOf(plan.drain))
    BY <1>2, <1>3 DEF Planned
  <1>5. QED
    BY <1>1, <1>2, <1>3, <1>4, StartStep, Zenon

LEMMA CheckStatusStep ==
  ASSUME ActInv, CheckStatus
  PROVE  UNCHANGED vars /\ LoopInv' /\ \A g \in AtomicGroups : Whole(g)'
  <1>1. /\ UNCHANGED vars /\ UNCHANGED <<plan, unregistered>> /\ pc = "idle" /\ pc' = "plan"
        /\ status' = [names |-> InProgress, count |-> deletionsPerNodeGroup]
    BY DEF CheckStatus
  <1>2. Quiet /\ InProgress' = InProgress
    <2>1. UNCHANGED <<trackerVars, tainted, deleted, cloudVars>>
      BY <1>1 DEF vars
    <2>2. QED
      BY <2>1, NothingQuiet DEF InProgress, trackerVars
  <1>3. plan' = NoPlan
    BY <1>1 DEF ActInv, LoopInv, PlanOK
  <1>4. PlanOK' /\ Planned' \subseteq Planned
    BY <1>3, EmptyPlan
  <1>5. StatusOK'
    <2>1. status'.names = InProgress /\ status'.count = deletionsPerNodeGroup
      BY <1>1, Zenon
    <2>2. /\ InProgress \subseteq Nodes /\ Members' = Members
          /\ \A g \in NodeGroups : deletionsPerNodeGroup[g] = Cardinality(InProgress \cap Members[g])
      BY SetTypes DEF ActInv, IInv, CountersMatchNames, Members
    <2>3. QED
      BY <1>2, <2>1, <2>2, Zenon DEF StatusOK
  <1>6. \A g \in NodeGroups : Accounted(g)' /\ Room(g)'
    BY <1>1, <1>2, <1>4, QuietSizes, Zenon DEF ActInv
  <1>7. \A g \in AtomicGroups : Whole(g)'
    BY <1>1, <1>2, QuietWhole DEF ActInv, vars, cloudVars
  <1>8. QED
    BY <1>1, <1>4, <1>5, <1>6, <1>7, Zenon DEF LoopInv, ActInv

LEMMA TaintNodesFailsStep ==
  ASSUME ActInv, TaintNodesFails
  PROVE  UNCHANGED vars /\ LoopInv' /\ \A g \in AtomicGroups : Whole(g)'
  <1>1. /\ UNCHANGED vars /\ unregistered' = unregistered /\ pc' = "idle" /\ plan' = NoPlan
    BY DEF TaintNodesFails
  <1>2. Quiet
    BY <1>1, NothingQuiet DEF vars
  <1>3. PlanOK' /\ Planned' \subseteq Planned
    BY <1>1, EmptyPlan
  <1>4. StatusOK'
    BY <1>1 DEF StatusOK
  <1>5. \A g \in NodeGroups : Accounted(g)' /\ Room(g)'
    BY <1>1, <1>2, <1>3, QuietSizes, Zenon DEF ActInv
  <1>6. \A g \in AtomicGroups : Whole(g)'
    BY <1>1, <1>2, QuietWhole, Zenon DEF ActInv, vars, cloudVars
  <1>7. QED
    BY <1>1, <1>3, <1>4, <1>5, <1>6, Zenon DEF LoopInv, ActInv

(* The instances that never registered leave the target size together with the count of them; of   *)
(* an atomic group nothing is left.                                                                *)
LEMMA RemoveOldStep ==
  ASSUME ActInv, NEW g \in NodeGroups, RemoveOldUnregisteredNodes(g)
  PROVE  Next /\ LoopInv' /\ \A h \in AtomicGroups : Whole(h)'
  <1> DEFINE old == Smaller(targetSize[g] - MinSize[g], unregistered[g])
             whole == g \in AtomicGroups
             count == IF whole THEN targetSize[g] ELSE old
             S == IF whole THEN Members[g] ELSE {}
  <1>1. /\ pc = "idle" /\ old > 0 /\ RemoveOthers(g, count, S) /\ UNCHANGED <<pc, status, plan>>
        /\ unregistered' = [unregistered EXCEPT ![g] = IF whole THEN 0 ELSE @ - old]
    BY Zenon DEF RemoveOldUnregisteredNodes
  <1>2. \A h \in NodeGroups : /\ targetSize[h] \in Int /\ MinSize[h] \in Nat /\ Unregistered[h] \in Nat
                              /\ unregistered[h] \in 0 .. Unregistered[h]
                              /\ targetSize[h] = Cardinality(Live(h)) + unregistered[h]
    BY SetTypes DEF ActInv, LoopInv, Accounted
  <1>3. old \in Int /\ old <= targetSize[g] /\ old <= unregistered[g] /\ unregistered[g] - old \in Nat
    BY <1>2, OldOnes, Zenon
  <1>4. count \in 0 .. targetSize[g] /\ S \in SUBSET Members[g] /\ Unregistered[g] # 0
    <2>1. /\ targetSize[g] \in Int /\ unregistered[g] \in 0 .. Unregistered[g] /\ Unregistered[g] \in Nat
          /\ old \in Int /\ old > 0
      BY <1>1, <1>2, <1>3, Zenon
    <2>2. old <= targetSize[g] /\ old <= unregistered[g]
      BY <1>3
    <2> HIDE DEF old
    <2>3. count \in 0 .. targetSize[g] /\ Unregistered[g] # 0
      BY <2>1, <2>2
    <2>4. S \in SUBSET Members[g]
      BY Zenon
    <2>5. QED
      BY <2>3, <2>4
  <1>5. Next
    <2> HIDE DEF count, S
    <2>1. QED
      BY <1>1, <1>4, Zenon DEF Next
  <1>6. /\ targetSize' = [targetSize EXCEPT ![g] = @ - count] /\ registered' = registered \ S
        /\ UNCHANGED <<trackerVars, tainted, async, preparing, batchSize, bucket, deleting, deleted>>
    BY <1>1, Zenon DEF RemoveOthers
  <1>7. InProgress' = InProgress /\ Members' = Members
    BY <1>6, Zenon DEF InProgress, trackerVars, Members
  <1>8. LiveNodes' = LiveNodes \ S
    BY <1>6, <1>7, Zenon DEF LiveNodes
  <1>9. plan' = NoPlan /\ plan = NoPlan
    BY <1>1 DEF ActInv, LoopInv, PlanOK
  <1>10. PlanOK' /\ Planned' = {} /\ Planned = {}
    BY <1>9, EmptyPlan, NothingPlanned, Zenon DEF Planned, NoPlan
  <1>11. StatusOK'
    BY <1>1, Zenon DEF StatusOK
  <1>12. DOMAIN targetSize = NodeGroups /\ \A h \in NodeGroups : Cardinality(Live(h)) \in Nat
    BY GroupSizes DEF ActInv, IInv, TypeOK
  <1>13. ASSUME NEW h \in NodeGroups, h # g
         PROVE  /\ Live(h)' = Live(h) /\ InFlight(h)' = InFlight(h) /\ Here(h)' = Here(h)
                /\ targetSize'[h] = targetSize[h]
    <2>1. S \cap Members[h] = {}
      BY <1>4, <1>13, MembersType, Zenon
    <2>2. Live(h)' = Live(h) /\ InFlight(h)' = InFlight(h) /\ Here(h)' = Here(h)
      <3> HIDE DEF S
      <3>1. QED
        BY <1>6, <1>7, <1>8, <2>1, Zenon DEF Live, InFlight, Here
    <2>3. targetSize'[h] = targetSize[h]
      <3> HIDE DEF count
      <3>1. QED
        BY <1>6, <1>12, <1>13, Zenon
    <2>4. QED
      BY <2>2, <2>3, Zenon
  <1>14. /\ unregistered' \in [NodeGroups -> Nat]
         /\ unregistered'[g] = IF whole THEN 0 ELSE unregistered[g] - old
         /\ \A h \in NodeGroups : h # g => unregistered'[h] = unregistered[h]
    <2>1. unregistered \in [NodeGroups -> Nat]
      BY Zenon DEF ActInv, LoopInv
    <2>2. unregistered[g] - old \in Nat
      BY <1>3, Zenon
    <2> HIDE DEF old
    <2>3. QED
      BY <1>1, <2>1, <2>2
  <1>15. Accounted(g)' /\ Room(g)'
    <2>1. targetSize'[g] = targetSize[g] - count
      <3> HIDE DEF count
      <3>1. QED
        BY <1>6, <1>12, Zenon
    <2>2. Live(g)' = IF whole THEN {} ELSE Live(g)
      BY <1>7, <1>8 DEF Live
    <2>3. Cardinality(Live(g)') = IF whole THEN 0 ELSE Cardinality(Live(g))
      BY <2>2, FS_EmptySet, Zenon
    <2>4. Cardinality(Live(g)) \in Nat /\ unregistered[g] - old \in 0 .. Unregistered[g]
      <3>1. /\ unregistered[g] \in 0 .. Unregistered[g] /\ Unregistered[g] \in Nat
            /\ Cardinality(Live(g)) \in Nat
        BY <1>2, <1>12, Zenon
      <3>2. old \in Int /\ old > 0 /\ old <= unregistered[g]
        BY <1>1, <1>3, Zenon
      <3> HIDE DEF old
      <3>3. QED
        BY <3>1, <3>2
    <2> HIDE DEF old, Live
    <2>5. targetSize'[g] = Cardinality(Live(g)') + unregistered'[g]
      <3> HIDE DEF whole
      <3>1. targetSize[g] = Cardinality(Live(g)) + unregistered[g] /\ targetSize[g] \in Int
        BY <1>2
      <3>2. old \in Int /\ unregistered[g] \in Int
        BY <1>2, <1>3, Sizes, Zenon
      <3>3. CASE whole
        BY <1>14, <2>1, <2>3, <3>1, <3>3, Sizes, Zenon
      <3>4. CASE ~whole
        <4>1. /\ targetSize'[g] = targetSize[g] - old /\ Cardinality(Live(g)') = Cardinality(Live(g))
              /\ unregistered'[g] = unregistered[g] - old
          BY <1>14, <2>1, <2>3, <3>4, Zenon
        <4>2. QED
          <5>1. (Cardinality(Live(g)) + unregistered[g]) - old = Cardinality(Live(g)) + (unregistered[g] - old)
            BY <2>4, <3>2, SizesMove, Zenon
          <5>2. QED
            BY <3>1, <4>1, <5>1, Zenon
      <3>5. QED
        BY <3>3, <3>4, Zenon
    <2>6. unregistered'[g] \in 0 .. Unregistered[g]
      BY <1>2, <1>14, <2>4
    <2>7. QED
      BY <1>4, <2>5, <2>6, Zenon DEF Accounted, Room
  <1>16. ASSUME NEW h \in NodeGroups, h # g
         PROVE  Accounted(h)' /\ Room(h)'
    <2>1. Slack(h)' = Slack(h)
      BY <1>7, <1>10, <1>13, <1>16, Zenon DEF Slack
    <2>2. Accounted(h) /\ Room(h)
      BY DEF ActInv, LoopInv
    <2>3. QED
      BY <1>7, <1>13, <1>14, <1>16, <2>1, <2>2, Zenon DEF Accounted, Room
  <1>17. ASSUME g \in AtomicGroups
         PROVE  Whole(g)'
    <2>1. Here(g)' = {} /\ Live(g)' = {}
      BY <1>6, <1>7, <1>8, <1>17, Zenon DEF Here, Live
    <2>2. Cardinality(Here(g)') = 0 /\ batchSize' \in [Nodes -> Nat] /\ Members'[g] \in SUBSET Nodes
      <3>1. Cardinality(Here(g)') = 0
        BY <2>1, FS_EmptySet, Zenon
      <3>2. batchSize \in [Nodes -> Nat] /\ Members[g] \in SUBSET Nodes
        BY MembersType DEF ActInv, IInv, TypeOK
      <3>3. batchSize' = batchSize
        BY <1>6
      <3>4. QED
        BY <1>7, <3>1, <3>2, <3>3, Zenon
    <2> HIDE DEF Here, Live
    <2>3. \A n \in Members'[g] : batchSize'[n] >= Cardinality(Here(g)')
      BY <2>2
    <2>4. QED
      BY <2>1, <2>3, Zenon DEF Whole
  <1>18. ASSUME NEW h \in AtomicGroups, h # g
         PROVE  Whole(h)'
    <2>1. h \in NodeGroups /\ Whole(h)
      BY NodeDeletionAssumption DEF ActInv
    <2>2. Live(h)' = Live(h) /\ Here(h)' = Here(h)
      BY <1>13, <1>18, <2>1, Zenon
    <2>3. Members[h] \cap S = {}
      BY <1>4, <1>18, <2>1, MembersType, Zenon
    <2>4. Here(h) = {} \/ (Members[h] \cap InProgress) \ deleted \subseteq registered'
      <3> HIDE DEF S
      <3>1. QED
        BY <1>6, <2>1, <2>3, Zenon DEF Whole
    <2> HIDE DEF Here, Live
    <2>5. Live(h)' = {} \/ Live(h)' = Here(h)'
      BY <2>1, <2>2, Zenon DEF Whole
    <2>6. Here(h)' = {} \/ (Members'[h] \cap InProgress') \ deleted' \subseteq registered'
      <3>1. deleted' = deleted
        BY <1>6, Zenon
      <3>2. QED
        BY <1>7, <2>2, <2>4, <3>1
    <2>7. UNCHANGED <<async, preparing, batchSize, bucket, deleting>>
      BY <1>6, Zenon
    <2>8. \A n \in Members'[h] \cap (async' \cup preparing') : batchSize'[n] >= Cardinality(Here(h)')
      BY <1>7, <2>1, <2>2, <2>7, Zenon DEF Whole
    <2>9. /\ bucket'[h] # {} => Here(h)' \subseteq bucket'[h]
          /\ \A T \in deleting' : T \cap Members'[h] # {} => Here(h)' \subseteq T
      BY <1>7, <2>1, <2>2, <2>7 DEF Whole
    <2>10. QED
      BY <2>5, <2>6, <2>8, <2>9, Zenon DEF Whole
  <1>19. QED
    BY <1>5, <1>10, <1>11, <1>14, <1>15, <1>16, <1>17, <1>18, Zenon DEF LoopInv

-----------------------------------------------------------------------------
(* The batch sizes startDeletion may give to the nodes of a group.                                 *)
Waits == [g \in NodeGroups |-> {i \in 0 .. MaxBatch : g \in AtomicGroups => i >= Cardinality(Here(g))}]

LEMMA OfferIdle ==
  ASSUME ActInv, pc = "plan", NEW offer, RemovableAt(offer)
  PROVE  offer \in SUBSET Idle /\ offer \in SUBSET Nodes
  <1>1. offer \subseteq (registered \ status.names) \ tainted
    BY DEF RemovableAt
  <1>2. InProgress \subseteq status.names /\ registered \subseteq Nodes
    BY SetTypes, Zenon DEF ActInv, LoopInv, StatusOK
  <1>3. QED
    BY <1>1, <1>2, Zenon DEF Idle

(* Both sizes that an atomic group may be taken with cover all its registered nodes.               *)
LEMMA OfferWaits ==
  ASSUME ActInv, NEW n \in Idle
  PROVE  LET g == GroupOf[n]
         IN  /\ g \in AtomicGroups => /\ targetSize[g] \in Int /\ targetSize[g] \in Waits[g]
                                      /\ RegisteredIn[g] \in Int /\ RegisteredIn[g] \in Waits[g]
             /\ g \notin AtomicGroups => 0 \in Waits[g]
  <1> DEFINE g == GroupOf[n]
  <1>1. n \in LiveNodes /\ n \in Nodes /\ g \in NodeGroups
    BY SetTypes, NodeDeletionAssumption DEF ActInv
  <1>2. n \in Live(g)
    BY <1>1, MembersType DEF Live
  <1>3. /\ Cardinality(Here(g)) \in Nat /\ Cardinality(Here(g)) <= Cardinality(Nodes)
        /\ Cardinality(Nodes) \in Nat
    BY <1>1, GroupSizes DEF ActInv
  <1>4. /\ Unregistered[g] \in Nat /\ unregistered[g] \in 0 .. Unregistered[g] /\ targetSize[g] \in Int
        /\ targetSize[g] = Cardinality(Live(g)) + unregistered[g]
    BY <1>1, SetTypes, Zenon DEF ActInv, LoopInv, Accounted
  <1>5. MaxBatch \in Nat /\ Cardinality(Nodes) + Unregistered[g] <= MaxBatch
    BY <1>1, NodeDeletionAssumption, ActuationAssumption
  <1>6. RegisteredIn[g] = Cardinality(Here(g))
    BY <1>1, Zenon DEF RegisteredIn, Here
  <1>7. Waits[g] = {i \in 0 .. MaxBatch : g \in AtomicGroups => i >= Cardinality(Here(g))}
    BY <1>1, Zenon DEF Waits
  <1>8. g \in AtomicGroups => Live(g) = Here(g)
    BY <1>2 DEF ActInv, Whole
  <1> HIDE DEF g, Live, Here
  <1> DEFINE h == Cardinality(Here(g))
             u == unregistered[g]
  <1>9. /\ h + u \in 0 .. MaxBatch /\ h + u >= h
        /\ h \in 0 .. MaxBatch /\ h >= h /\ h \in Int /\ 0 \in 0 .. MaxBatch
    BY <1>3, <1>4, <1>5, BatchesFit, Zenon
  <1>10. g \in AtomicGroups => targetSize[g] \in Waits[g]
    BY <1>4, <1>7, <1>8, <1>9, Zenon
  <1>11. RegisteredIn[g] \in Int /\ RegisteredIn[g] \in Waits[g]
    BY <1>6, <1>7, <1>9, Zenon
  <1>12. g \notin AtomicGroups => 0 \in Waits[g]
    BY <1>7, <1>9, Zenon
  <1>13. QED
    BY <1>4, <1>10, <1>11, <1>12, Zenon DEF g

LEMMA TakenOK ==
  ASSUME NEW S \in SUBSET Nodes, NEW max \in Nat, max <= Cardinality(Nodes),
         NEW b \in Taken(S, GroupOf, max, Waits)
  PROVE  BucketOK(b) /\ Range(b.nodes) \in SUBSET S
  <1>1. /\ b.nodes \in Seq(S) /\ Len(b.nodes) <= max /\ b.group \in {GroupOf[n] : n \in S}
        /\ \A k \in 1 .. Len(b.nodes) : GroupOf[b.nodes[k]] = b.group
        /\ b.BatchSize \in Waits[b.group]
    BY DEF Taken, Fits
  <1>2. b.group \in NodeGroups
    BY <1>1, NodeDeletionAssumption, Zenon
  <1>3. /\ b.BatchSize \in 0 .. MaxBatch
        /\ b.group \in AtomicGroups => b.BatchSize >= Cardinality(Here(b.group))
    BY <1>1, <1>2, Zenon DEF Waits
  <1>4. b.nodes \in Seq(Nodes) /\ Range(b.nodes) \in SUBSET S
    BY <1>1 DEF Range
  <1>5. Cardinality(Nodes) \in Nat /\ Len(b.nodes) \in Nat
    BY <1>1, Finite
  <1>6. Len(b.nodes) <= Cardinality(Nodes)
    BY <1>1, <1>5
  <1>7. QED
    BY <1>1, <1>2, <1>3, <1>4, <1>6, Zenon DEF BucketOK

LEMMA TakenBuckets ==
  ASSUME IInv, NEW S \in SUBSET Nodes, NEW max \in Nat, max <= Cardinality(Nodes),
         NEW buckets \in Seq(Taken(S, GroupOf, max, Waits))
  PROVE  /\ \A k \in DOMAIN buckets : BucketOK(buckets[k])
         /\ NodesOf(buckets) \in SUBSET S
  <1>1. ASSUME NEW k \in DOMAIN buckets
        PROVE  buckets[k] \in Taken(S, GroupOf, max, Waits)
    OBVIOUS
  <1>2. \A k \in DOMAIN buckets : BucketOK(buckets[k]) /\ Range(buckets[k].nodes) \in SUBSET S
    BY <1>1, TakenOK
  <1>3. QED
    BY <1>2 DEF NodesOf

(* startDeletion plans idle nodes only, and no more than verifyMinSize has allowed.                *)
LEMMA StartDeletionStep ==
  ASSUME ActInv, NEW order \in Orders, NEW empty \in SUBSET Nodes,
         NEW drain \in SUBSET (MayDrain \ empty), StartDeletion(order, empty, drain)
  PROVE  Next /\ LoopInv' /\ \A g \in AtomicGroups : Whole(g)'
  <1> DEFINE offer == empty \cup drain
             removable == FilterUnremovableNodes(offer)
             E == empty \cap removable
             D == drain \cap removable
             e == Cardinality(emptyNodeDeletions)
             d == Cardinality(drainedNodeDeletions)
             crop == CropNodes(e, d, order, E, D, GroupOf, AtomicGroups, targetSize, RegisteredIn)
  <1>1. /\ pc = "plan" /\ RemovableAt(offer) /\ ResetFailures /\ plan' = crop
        /\ pc' = IF crop.empty # <<>> THEN "empty" ELSE IF crop.drain # <<>> THEN "drain" ELSE "idle"
        /\ UNCHANGED <<trackerVars, tainted, async, preparing, batchSize, nodeQueue, bucket,
                       deleting, deleted, refused, cloudVars, unregistered>>
    BY Zenon DEF StartDeletion
  <1>2. offer \in SUBSET Idle /\ offer \in SUBSET Nodes
    BY <1>1, OfferIdle, Zenon
  <1>3. /\ E \in SUBSET offer /\ D \in SUBSET offer /\ E \cap D = {}
        /\ E \in SUBSET Idle /\ D \in SUBSET Idle /\ E \in SUBSET Nodes /\ D \in SUBSET Nodes
    BY <1>2
  <1>4. e \in Int /\ d \in Int
    <2>1. emptyNodeDeletions \in SUBSET Nodes /\ drainedNodeDeletions \in SUBSET Nodes
      BY DEF ActInv, IInv, TypeOK
    <2>2. QED
      BY <2>1, Finite
  <1>5. order \in Seq(Nodes) /\ Len(order) \in Nat /\ Len(order) <= Cardinality(Nodes)
    <2>1. order \in Seq(Nodes) /\ Len(order) = Cardinality(Nodes) /\ Cardinality(Nodes) \in Nat
      BY ActuationAssumption, Finite
    <2>2. QED
      BY <2>1
  <1>6. \A g \in {GroupOf[n] : n \in E \cup D} :
          /\ g \in AtomicGroups => /\ targetSize[g] \in Int /\ targetSize[g] \in Waits[g]
                                   /\ RegisteredIn[g] \in Int /\ RegisteredIn[g] \in Waits[g]
          /\ g \notin AtomicGroups => 0 \in Waits[g]
    BY <1>3, OfferWaits, Zenon
  <1> HIDE DEF E, D, e, d, offer
  <1>7. /\ crop = [empty |-> crop.empty, drain |-> crop.drain]
        /\ crop.empty \in Seq(Taken(E, GroupOf, Len(order), Waits))
        /\ crop.drain \in Seq(Taken(D, GroupOf, Len(order), Waits))
    BY <1>4, <1>5, <1>6, CropNodesType, Zenon
  <1> HIDE DEF crop
  <1>8. /\ \A k \in DOMAIN crop.empty : BucketOK(crop.empty[k])
        /\ \A k \in DOMAIN crop.drain : BucketOK(crop.drain[k])
        /\ NodesOf(crop.empty) \in SUBSET E /\ NodesOf(crop.drain) \in SUBSET D
    BY <1>3, <1>5, <1>7, TakenBuckets, Zenon DEF ActInv
  <1>9. Quiet /\ InProgress' = InProgress /\ registered' = registered /\ targetSize' = targetSize
    <2>1. UNCHANGED <<trackerVars, tainted, deleted, cloudVars>>
      BY <1>1
    <2>2. QED
      BY <2>1, NothingQuiet DEF InProgress, trackerVars, cloudVars
  <1>10. Next
    BY <1>1, Zenon DEF Next
  <1>11. Planned' = NodesOf(crop.empty) \cup NodesOf(crop.drain)
    BY <1>1, Zenon DEF Planned, NodesOf
  <1>12. PlanOK'
    <2>1. \A k \in DOMAIN crop.empty : BucketOK(plan.empty[k])'
      <3>1. ASSUME NEW k \in DOMAIN crop.empty
            PROVE  BucketOK(plan.empty[k])'
        <4>1. PICK b : b = crop.empty[k]
          OBVIOUS
        <4>2. BucketOK(b)'
          BY <1>8, <1>9, <4>1, BucketsKept, Zenon DEF ActInv
        <4>3. QED
          BY <1>1, <4>1, <4>2, Zenon DEF BucketOK, Here
      <3>2. QED
        BY <3>1
    <2>2. \A k \in DOMAIN crop.drain : BucketOK(plan.drain[k])'
      <3>1. ASSUME NEW k \in DOMAIN crop.drain
            PROVE  BucketOK(plan.drain[k])'
        <4>1. PICK b : b = crop.drain[k]
          OBVIOUS
        <4>2. BucketOK(b)'
          BY <1>8, <1>9, <4>1, BucketsKept, Zenon DEF ActInv
        <4>3. QED
          BY <1>1, <4>1, <4>2, Zenon DEF BucketOK, Here
      <3>2. QED
        BY <3>1
    <2>3. /\ NodesOf(plan.empty)' = NodesOf(crop.empty)
          /\ NodesOf(plan.drain)' = NodesOf(crop.drain)
      BY <1>1, Zenon DEF NodesOf
    <2>4. /\ NodesOf(crop.empty) \subseteq Idle' /\ NodesOf(crop.drain) \subseteq Idle'
          /\ NodesOf(crop.empty) \cap NodesOf(crop.drain) = {}
      BY <1>3, <1>8, <1>9, Zenon DEF Quiet
    <2>5. pc' \in {"idle", "plan"} => plan' = NoPlan'
      <3>1. ASSUME pc' \in {"idle", "plan"}
            PROVE  crop.empty = <<>> /\ crop.drain = <<>>
        BY <1>1, <3>1, Zenon
      <3>2. QED
        BY <1>1, <1>7, <3>1, Zenon DEF NoPlan
    <2>6. plan' = [empty |-> plan'.empty, drain |-> plan'.drain]
      BY <1>1, <1>7, Zenon
    <2>7. plan'.empty = crop.empty /\ plan'.drain = crop.drain
      BY <1>1, Zenon
    <2>8. QED
      BY <2>1, <2>2, <2>3, <2>4, <2>5, <2>6, <2>7, Zenon DEF PlanOK
  <1>13. pc' # "plan" /\ StatusOK'
    BY <1>1, Zenon DEF StatusOK
  <1>14. ASSUME NEW g \in NodeGroups
         PROVE  Accounted(g)' /\ Room(g)'
    <2> DEFINE after == (Planned \cap Members[g])'
               offered == offer \cap Members[g]
               seen == status.names \cap Members[g]
    <2>1. Accounted(g) /\ Room(g) /\ Members' = Members
      BY Zenon DEF ActInv, LoopInv, Members
    <2>2. Live(g)' = Live(g) /\ InFlight(g)' = InFlight(g)
      BY <1>9 DEF Quiet, Live, InFlight, Members
    <2>3. Accounted(g)'
      BY <1>1, <1>9, <2>1, <2>2, Zenon DEF Accounted
    <2>4. /\ Cardinality(InFlight(g)) \in Nat /\ targetSize[g] \in Int /\ MinSize[g] \in Nat
          /\ InFlight(g) \in SUBSET Nodes
      BY GroupSizes, SetTypes, Zenon DEF ActInv
    <2>5. after \in SUBSET offered /\ offered \in SUBSET Nodes
      BY <1>2, <1>3, <1>8, <1>11, <2>1, Zenon
    <2>6. Slack(g)' = targetSize[g] - Cardinality(InFlight(g)) - Cardinality(after)
      BY <1>9, <2>2 DEF Slack
    <2>7. CASE after = {}
      <3>1. Planned = {}
        <4>1. plan = NoPlan
          BY <1>1 DEF ActInv, LoopInv, PlanOK
        <4>2. QED
          BY <4>1, NothingPlanned, Zenon DEF Planned, NoPlan
      <3>2. Planned \cap Members[g] = after
        BY <2>7, <3>1, Zenon
      <3>3. Slack(g) = Slack(g)'
        BY <2>6, <3>2, Zenon DEF Slack
      <3>4. QED
        BY <2>1, <2>3, <3>3, Zenon DEF Room
    <2>8. CASE after # {}
      <3>1. verifyMinSize(g, Cardinality(offered))
        BY <1>1, <2>5, <2>8, Zenon DEF RemovableAt
      <3>2. status.count[g] = Cardinality(seen) /\ seen \in SUBSET Nodes /\ InFlight(g) \in SUBSET seen
        BY <1>1, Zenon DEF ActInv, LoopInv, StatusOK, InFlight, Live
      <3>3. targetSize[g] - Cardinality(offered) - Cardinality(seen) >= MinSize[g]
        BY <3>1, <3>2, Zenon DEF verifyMinSize
      <3> HIDE DEF after, offered, seen
      <3>4. /\ Cardinality(InFlight(g)) <= Cardinality(seen) /\ Cardinality(seen) \in Nat
            /\ Cardinality(after) <= Cardinality(offered) /\ Cardinality(offered) \in Nat
            /\ Cardinality(after) \in Nat
        BY <2>5, <3>2, Finite, Monotone, Zenon
      <3>5. Slack(g)' >= MinSize[g]
        <4>1. targetSize[g] - Cardinality(InFlight(g)) - Cardinality(after) >= MinSize[g]
          BY <2>4, <3>3, <3>4, LessIsSafer, Zenon
        <4>2. QED
          BY <2>6, <4>1, Zenon
      <3>6. QED
        BY <2>1, <2>3, <3>5 DEF Room
    <2>9. QED
      BY <2>7, <2>8, Zenon
  <1>15. \A g \in AtomicGroups : Whole(g)'
    BY <1>1, <1>9, QuietWhole, Zenon DEF ActInv
  <1>16. unregistered' \in [NodeGroups -> Nat]
    BY <1>1 DEF ActInv, LoopInv
  <1>17. QED
    BY <1>10, <1>12, <1>13, <1>14, <1>15, <1>16, Zenon DEF LoopInv

-----------------------------------------------------------------------------
(* The goroutines go on underneath the loop.                                                       *)
LEMMA WorkerStep ==
  ASSUME ActInv, NEW n \in Nodes,
         \/ ScheduleDeletion(n) \/ AddToBatcher(n) \/ RegisterDeleted(n) \/ RegisterRefused(n)
         \/ NodeVanish(n) \/ AbortNodeDeletion(n),
         UNCHANGED <<pc, status, plan, unregistered>>
  PROVE  Next /\ LoopInv' /\ \A g \in AtomicGroups : Whole(g)'
  <1>1. Next
    BY Zenon DEF Next, Goroutines
  <1>2. IInv /\ LoopInv /\ \A g \in AtomicGroups : Whole(g)
    BY DEF ActInv
  <1>3. CASE ScheduleDeletion(n)
    <2>1. /\ UNCHANGED <<trackerVars, tainted, deleted, cloudVars, batchSize, bucket, deleting, registered>>
          /\ async' \cup preparing' \subseteq async \cup preparing
      BY <1>3 DEF ScheduleDeletion, cloudVars
    <2>2. Quiet
      BY <2>1, NothingQuiet
    <2>3. QED
      BY <1>1, <1>2, <2>1, <2>2, QuietLoop, QuietWhole, Zenon
  <1>4. CASE AddToBatcher(n)
    BY <1>1, <1>2, <1>4, AddToBatcherQuiet, AddToBatcherWhole, QuietLoop, Zenon
  <1>5. CASE RegisterDeleted(n) \/ RegisterRefused(n)
    <2>1. Quiet
      BY <1>2, <1>5, RegisterQuiet, Zenon
    <2>2. UNCHANGED <<registered, async, preparing, batchSize, bucket, deleting>>
      BY <1>5 DEF RegisterDeleted, RegisterRefused, cloudVars
    <2>3. QED
      BY <1>1, <1>2, <2>1, <2>2, QuietLoop, QuietWhole, Zenon
  <1>6. CASE NodeVanish(n)
    BY <1>1, <1>2, <1>6, VanishQuiet, VanishWhole, QuietLoop, Zenon
  <1>7. CASE AbortNodeDeletion(n)
    <2>1. Quiet
      BY <1>2, <1>7, AbortQuiet, Zenon
    <2>2. /\ UNCHANGED <<registered, batchSize, bucket, deleting>>
          /\ async' \cup preparing' \subseteq async \cup preparing
      BY <1>7 DEF AbortNodeDeletion, cloudVars
    <2>3. QED
      BY <1>1, <1>2, <2>1, <2>2, QuietLoop, QuietWhole, Zenon
  <1>8. QED
    BY <1>3, <1>4, <1>5, <1>6, <1>7

LEMMA BatcherStep ==
  ASSUME ActInv, NEW h \in NodeGroups,
         remove(h) \/ \E S \in deleting : \E ok \in BOOLEAN : DeleteNodes(S, h, ok),
         UNCHANGED <<pc, status, plan, unregistered>>
  PROVE  Next /\ LoopInv' /\ \A g \in AtomicGroups : Whole(g)'
  <1>1. Next
    BY Zenon DEF Next, Goroutines
  <1>2. IInv /\ LoopInv /\ \A g \in AtomicGroups : Whole(g)
    BY DEF ActInv
  <1>3. CASE remove(h)
    <2>1. Quiet
      BY <1>3, NothingQuiet DEF remove
    <2>2. QED
      BY <1>1, <1>2, <1>3, <2>1, QuietLoop, RemoveWhole, Zenon
  <1>4. ASSUME NEW S \in deleting, DeleteNodes(S, h, TRUE)
        PROVE  LoopInv' /\ \A g \in AtomicGroups : Whole(g)'
    BY <1>2, <1>4, DeleteLoop, DeleteWhole, Zenon
  <1>5. ASSUME NEW S \in deleting, DeleteNodes(S, h, FALSE)
        PROVE  LoopInv' /\ \A g \in AtomicGroups : Whole(g)'
    <2>1. /\ UNCHANGED <<trackerVars, tainted, deleted, cloudVars>> /\ registered' = registered
          /\ UNCHANGED <<async, preparing, batchSize, bucket>> /\ deleting' \subseteq deleting
      BY <1>5, Zenon DEF DeleteNodes, cloudVars
    <2>2. Quiet
      BY <2>1, NothingQuiet
    <2>3. QED
      BY <1>2, <2>1, <2>2, QuietLoop, QuietWhole
  <1>6. ASSUME NEW S \in deleting, NEW ok \in BOOLEAN, DeleteNodes(S, h, ok)
        PROVE  LoopInv' /\ \A g \in AtomicGroups : Whole(g)'
    <2>1. ok = TRUE \/ ok = FALSE
      OBVIOUS
    <2>2. QED
      BY <1>4, <1>5, <1>6, <2>1, Zenon
  <1>7. QED
    BY <1>1, <1>3, <1>6

LEMMA ActuationInitInv == ActuationInit => ActInv
  <1> SUFFICES ASSUME ActuationInit PROVE ActInv
    OBVIOUS
  <1>1. /\ Init /\ IInv /\ pc = "idle" /\ plan = NoPlan /\ unregistered = Unregistered
        /\ targetSize = [g \in NodeGroups |-> Cardinality(Members[g]) + Unregistered[g]]
    BY InitInv, Zenon DEF ActuationInit
  <1>2. /\ registered = Nodes /\ InProgress = {} /\ tainted = {} /\ deleted = {} /\ async = {}
        /\ preparing = {} /\ deleting = {} /\ \A g \in NodeGroups : bucket[g] = {}
    BY <1>1, Zenon DEF Init, InProgress, NoNodes
  <1>3. PlanOK /\ Planned = {}
    <2>1. plan = [empty |-> plan.empty, drain |-> plan.drain] /\ plan.empty = <<>> /\ plan.drain = <<>>
      BY <1>1 DEF NoPlan
    <2>2. QED
      <3>1. NodesOf(plan.empty) = {} /\ NodesOf(plan.drain) = {}
        BY <2>1, NothingPlanned, Zenon
      <3>2. DOMAIN plan.empty = {} /\ DOMAIN plan.drain = {}
        BY <2>1
      <3>3. QED
        BY <1>1, <2>1, <3>1, <3>2, Zenon DEF PlanOK, Planned
  <1>4. StatusOK
    BY <1>1, Zenon DEF StatusOK
  <1>5. LiveNodes = Nodes
    BY <1>2 DEF LiveNodes
  <1>6. ASSUME NEW g \in NodeGroups
        PROVE  Accounted(g) /\ Room(g)
    <2>1. /\ Members[g] \in SUBSET Nodes /\ Live(g) = Members[g] /\ InFlight(g) = {}
          /\ Planned \cap Members[g] = {}
      BY <1>2, <1>3, <1>5, MembersType, Zenon DEF Live, InFlight
    <2>2. /\ Cardinality(Members[g]) \in Nat /\ Unregistered[g] \in Nat /\ MinSize[g] \in Nat
          /\ Cardinality({}) = 0
      BY <2>1, Finite, FS_EmptySet, SetTypes, <1>1, Zenon
    <2>3. targetSize[g] = Cardinality(Members[g]) + Unregistered[g]
      BY <1>1, Zenon
    <2>4. Accounted(g)
      <3>1. unregistered[g] = Unregistered[g] /\ Unregistered[g] \in 0 .. Unregistered[g]
        <4>1. unregistered = Unregistered
          BY <1>1, Zenon
        <4>2. QED
          BY <2>2, <4>1
      <3>2. QED
        BY <2>1, <2>3, <3>1, Zenon DEF Accounted
    <2>5. Slack(g) = Cardinality(Members[g]) + Unregistered[g]
      <3>1. Cardinality(InFlight(g)) = 0 /\ Cardinality(Planned \cap Members[g]) = 0
        BY <2>1, <2>2, Zenon
      <3> HIDE DEF Planned, InFlight
      <3>2. (Cardinality(Members[g]) + Unregistered[g]) - 0 - 0 = Cardinality(Members[g]) + Unregistered[g]
        BY <2>2, SizesMove, Zenon
      <3>3. QED
        BY <2>3, <3>1, <3>2, Zenon DEF Slack
    <2>6. Room(g)
      BY <2>2, <2>5, Sizes, Zenon DEF Room
    <2>7. QED
      BY <2>4, <2>6, Zenon
  <1>7. ASSUME NEW g \in AtomicGroups
        PROVE  Whole(g)
    <2>1. g \in NodeGroups
      BY NodeDeletionAssumption
    <2>2. Live(g) = Here(g)
      BY <1>2, <1>5, Zenon DEF Live, Here
    <2>3. QED
      BY <1>2, <2>1, <2>2 DEF Whole
  <1>8. unregistered \in [NodeGroups -> Nat]
    BY <1>1, ActuationAssumption, Zenon
  <1>9. QED
    BY <1>1, <1>3, <1>4, <1>6, <1>7, <1>8, Zenon DEF ActInv, LoopInv

(* Every step of the composed system is a step of NodeDeletion, or none.                           *)
LEMMA ActuationStep ==
  ASSUME ActInv, [ActuationNext]_allVars
  PROVE  [Next]_vars /\ LoopInv' /\ \A g \in AtomicGroups : Whole(g)'
  <1>1. CASE CheckStatus
    BY <1>1, CheckStatusStep
  <1>2. CASE TaintNodesFails
    BY <1>2, TaintNodesFailsStep
  <1>3. ASSUME NEW order \in Orders, NEW empty \in SUBSET Nodes,
               NEW drain \in SUBSET (MayDrain \ empty), StartDeletion(order, empty, drain)
        PROVE  [Next]_vars /\ LoopInv' /\ \A g \in AtomicGroups : Whole(g)'
    BY <1>3, StartDeletionStep
  <1>4. CASE StartEmpty
    BY <1>4, StartEmptyStep
  <1>5. CASE StartDrain
    BY <1>5, StartDrainStep
  <1>6. ASSUME NEW g \in NodeGroups, RemoveOldUnregisteredNodes(g)
        PROVE  [Next]_vars /\ LoopInv' /\ \A h \in AtomicGroups : Whole(h)'
    BY <1>6, RemoveOldStep
  <1>7. ASSUME NEW n \in Nodes, Worker(n) \/ Abort(n)
        PROVE  [Next]_vars /\ LoopInv' /\ \A g \in AtomicGroups : Whole(g)'
    <2>1. UNCHANGED <<pc, status, plan, unregistered>>
      BY <1>7 DEF Worker, Abort, loopVars
    <2>2. \/ ScheduleDeletion(n) \/ AddToBatcher(n) \/ RegisterDeleted(n) \/ RegisterRefused(n)
          \/ NodeVanish(n) \/ AbortNodeDeletion(n)
      BY <1>7 DEF Worker, Abort
    <2>3. QED
      BY <2>1, <2>2, WorkerStep
  <1>8. ASSUME NEW g \in NodeGroups, Batcher(g) \/ BatcherFails(g)
        PROVE  [Next]_vars /\ LoopInv' /\ \A h \in AtomicGroups : Whole(h)'
    <2>1. UNCHANGED <<pc, status, plan, unregistered>>
      BY <1>8, Zenon DEF Batcher, BatcherFails, loopVars
    <2>2. remove(g) \/ \E S \in deleting : \E ok \in BOOLEAN : DeleteNodes(S, g, ok)
      BY <1>8, Zenon DEF Batcher, BatcherFails
    <2>3. QED
      BY <2>1, <2>2, BatcherStep
  <1>9. CASE UNCHANGED allVars
    <2>1. UNCHANGED vars /\ UNCHANGED <<pc, status, plan, unregistered>>
      BY <1>9 DEF allVars, loopVars
    <2>2. /\ UNCHANGED <<trackerVars, tainted, deleted, cloudVars>>
          /\ UNCHANGED <<registered, async, preparing, batchSize, bucket, deleting>>
      BY <2>1 DEF vars, cloudVars
    <2>3. Quiet
      BY <2>2, NothingQuiet
    <2>4. QED
      BY <2>1, <2>2, <2>3, QuietLoop, QuietWhole, Zenon DEF ActInv
  <1>10. QED
    BY <1>1, <1>2, <1>3, <1>4, <1>5, <1>6, <1>7, <1>8, <1>9, Zenon DEF ActuationNext, Loop

LEMMA ActuationNextInv == ActInv /\ [ActuationNext]_allVars => ActInv' /\ [Next]_vars
  <1> SUFFICES ASSUME ActInv, [ActuationNext]_allVars PROVE ActInv' /\ [Next]_vars
    OBVIOUS
  <1>1. [Next]_vars /\ LoopInv' /\ \A g \in AtomicGroups : Whole(g)'
    BY ActuationStep
  <1>2. IInv'
    BY <1>1, NextInv DEF ActInv
  <1>3. QED
    BY <1>1, <1>2 DEF ActInv

(* The invariant of the loop and the pipeline holds throughout.                                    *)
THEOREM ActuationInvariance == ActuationSpec => []ActInv
  BY ActuationInitInv, ActuationNextInv, PTL DEF ActuationSpec

(* What startDeletion does with the nodes the planner offers and the budgets leave is what         *)
(* NodeDeletion allows: only idle nodes are started, with batch sizes that deleteNodesAsync can    *)
(* compute, and removeOldUnregisteredNodes takes no more instances than there are.                 *)
THEOREM ActuationRefines == FairActuation => ImplementsNodeDeletion
  <1>1. ActuationInit => Init
    BY DEF ActuationInit
  <1>2. QED
    BY <1>1, ActuationInitInv, ActuationNextInv, PTL
       DEF FairActuation, ActuationSpec, ImplementsNodeDeletion, Spec

(* Whatever was in flight when the loop looked at an atomic group, the batcher hands its nodes to  *)
(* the provider all at once.                                                                       *)
THEOREM AtomicGroupsWhole == ActuationSpec => []AtomicGroupsDeletedWhole
  <1>1. ActInv => AtomicGroupsDeletedWhole
    BY Zenon DEF ActInv, Whole, AtomicGroupsDeletedWhole, Here
  <1>2. QED
    BY <1>1, ActuationInvariance, PTL

(* The same, and scale-down leaves every group at its minimum size or above, although              *)
(* verifyMinSize looks at a snapshot of the tracker: for groups whose minimum is 0, and for those  *)
(* that start above it with all their instances registered.                                        *)
THEOREM GroupsRespected ==
  ASSUME \A g \in NodeGroups :
           MinSize[g] = 0 \/ (Unregistered[g] = 0 /\ Cardinality(Members[g]) >= MinSize[g])
  PROVE  ActuationSpec => []GroupsAreRespected
  <1>1. ActInv => MinSizeKept
    <2>1. ASSUME ActInv, NEW g \in NodeGroups
          PROVE  targetSize[g] >= MinSize[g]
      <3>1. /\ Cardinality(Live(g)) \in Nat /\ Cardinality(InFlight(g)) \in Nat
            /\ targetSize[g] \in Int /\ MinSize[g] \in Nat /\ Unregistered[g] \in Nat
        BY <2>1, GroupSizes, SetTypes, Zenon DEF ActInv
      <3>2. Accounted(g) /\ Room(g)
        BY <2>1, Zenon DEF ActInv, LoopInv
      <3>3. CASE MinSize[g] = 0
        BY <3>1, <3>2, <3>3 DEF Accounted
      <3>4. CASE Unregistered[g] = 0 /\ Cardinality(Members[g]) >= MinSize[g]
        <4>1. Slack(g) >= MinSize[g]
          BY <3>2, <3>4, Zenon DEF Room
        <4>2. Planned \cap Members[g] \in SUBSET Nodes
          BY MembersType
        <4>3. Cardinality(Planned \cap Members[g]) \in Nat
          BY <4>2, Finite
        <4>4. QED
          BY <3>1, <4>1, <4>3, SlackSuffices, Zenon DEF Slack
      <3>5. QED
        BY <3>3, <3>4
    <2>2. QED
      BY <2>1 DEF MinSizeKept
  <1>2. ActInv => AtomicGroupsDeletedWhole
    BY Zenon DEF ActInv, Whole, AtomicGroupsDeletedWhole, Here
  <1>3. ActInv => GroupsAreRespected
    BY <1>1, <1>2 DEF GroupsAreRespected
  <1>4. QED
    BY <1>3, ActuationInvariance, PTL

(* What is proved of the pipeline holds when the loop drives it: no deletion that startDeletion    *)
(* has started is forgotten or carried out twice, and its node keeps the taint until it ends.      *)
THEOREM LoopForgetsNobody == FairActuation => [](HeldOnce /\ TaintedWhileInProgress)
  <1>1. FairActuation => Spec
    BY ActuationRefines DEF ImplementsNodeDeletion
  <1>2. QED
    BY <1>1, NobodyForgotten, TaintsStay, PTL

-----------------------------------------------------------------------------
(* What startDeletion has still to start keeps to the budgets together with the deletions that     *)
(* are in progress by then.                                                                        *)
PlanKeepsBudgets ==
  KeepsBudgets(plan, Cardinality(emptyNodeDeletions), Cardinality(drainedNodeDeletions),
               GroupOf, AtomicGroups)

(* A node outside the atomic groups is only started if the deletions in progress, its own          *)
(* included, are within the budgets.                                                               *)
StartsWithinBudgets ==
  /\ (\E n \in InProgress' \ InProgress : GroupOf[n] \notin AtomicGroups)
       => Cardinality(InProgress') <= MaxScaleDownParallelism
  /\ (\E n \in drainedNodeDeletions' \ drainedNodeDeletions : GroupOf[n] \notin AtomicGroups)
       => Cardinality(drainedNodeDeletions') <= MaxDrainParallelism

LEMMA PlanFits ==
  ASSUME NEW p, NEW e, NEW d, plan' = p, Cardinality(emptyNodeDeletions)' = e,
         Cardinality(drainedNodeDeletions)' = d, KeepsBudgets(p, e, d, GroupOf, AtomicGroups)
  PROVE  PlanKeepsBudgets'
  <1>1. NodesOf(plan.empty)' = NodesOf(p.empty) /\ NodesOf(plan.drain)' = NodesOf(p.drain)
    BY Zenon DEF NodesOf
  <1>2. QED
    BY <1>1, Zenon DEF PlanKeepsBudgets, KeepsBudgets

LEMMA FewerInProgress ==
  ASSUME NEW crop, NEW e \in Nat, NEW d \in Nat, NEW e2 \in Nat, NEW d2 \in Nat, e2 <= e, d2 <= d,
         NodesOf(crop.empty) \in SUBSET Nodes, NodesOf(crop.drain) \in SUBSET Nodes,
         KeepsBudgets(crop, e, d, GroupOf, AtomicGroups)
  PROVE  KeepsBudgets(crop, e2, d2, GroupOf, AtomicGroups)
  <1> DEFINE drained == NodesOf(crop.drain)
             all == NodesOf(crop.empty) \cup drained
  <1>1. Cardinality(drained) \in Nat /\ Cardinality(all) \in Nat
    BY Finite
  <1>2. /\ (\E n \in all : GroupOf[n] \notin AtomicGroups)
             => e + d + Cardinality(all) <= MaxScaleDownParallelism
        /\ (\E n \in drained : GroupOf[n] \notin AtomicGroups)
             => d + Cardinality(drained) <= MaxDrainParallelism
    BY Zenon DEF KeepsBudgets
  <1> HIDE DEF drained, all
  <1>3. /\ (\E n \in all : GroupOf[n] \notin AtomicGroups)
             => e2 + d2 + Cardinality(all) <= MaxScaleDownParallelism
        /\ (\E n \in drained : GroupOf[n] \notin AtomicGroups)
             => d2 + Cardinality(drained) <= MaxDrainParallelism
    BY <1>1, <1>2, BudgetAssumption
  <1>4. QED
    BY <1>3, Zenon DEF KeepsBudgets, drained, all

(* Deletions only end: nothing is started, and what is planned still fits.                         *)
LEMMA EndsKeepBudgets ==
  ASSUME ActInv, PlanKeepsBudgets, emptyNodeDeletions' \in SUBSET emptyNodeDeletions,
         drainedNodeDeletions' \in SUBSET drainedNodeDeletions, plan' = plan
  PROVE  PlanKeepsBudgets' /\ StartsWithinBudgets
  <1>1. emptyNodeDeletions \in SUBSET Nodes /\ drainedNodeDeletions \in SUBSET Nodes
    BY DEF ActInv, IInv, TypeOK
  <1>2. NodesOf(plan.empty) \in SUBSET Nodes /\ NodesOf(plan.drain) \in SUBSET Nodes
    BY SetTypes DEF ActInv, LoopInv, PlanOK, Idle
  <1>3. PICK e, d, e2, d2 : /\ e = Cardinality(emptyNodeDeletions) /\ e2 = Cardinality(emptyNodeDeletions)'
                            /\ d = Cardinality(drainedNodeDeletions) /\ d2 = Cardinality(drainedNodeDeletions)'
    OBVIOUS
  <1>4. e \in Nat /\ d \in Nat /\ e2 \in Nat /\ d2 \in Nat /\ e2 <= e /\ d2 <= d
    BY <1>1, <1>3, Finite, Monotone, Zenon
  <1>5. KeepsBudgets(plan, e, d, GroupOf, AtomicGroups)
    BY <1>3, Zenon DEF PlanKeepsBudgets
  <1>6. KeepsBudgets(plan, e2, d2, GroupOf, AtomicGroups)
    BY <1>2, <1>4, <1>5, FewerInProgress
  <1>7. PlanKeepsBudgets'
    BY <1>3, <1>6, PlanFits, Zenon
  <1>8. StartsWithinBudgets
    BY Zenon DEF StartsWithinBudgets, InProgress
  <1>9. QED
    BY <1>7, <1>8

(* Nothing planned.                                                                                *)
LEMMA NoPlanKeepsBudgets ==
  ASSUME plan' = NoPlan
  PROVE  PlanKeepsBudgets'
  <1>1. plan'.empty = <<>> /\ plan'.drain = <<>>
    BY DEF NoPlan
  <1>2. NodesOf(plan'.empty) = {} /\ NodesOf(plan'.drain) = {}
    BY <1>1, NothingPlanned, Zenon
  <1>3. QED
    BY <1>2 DEF PlanKeepsBudgets, KeepsBudgets, NodesOf


(* The size of a union of sets of nodes.                                                           *)
LEMMA UnionSize ==
  ASSUME NEW S \in SUBSET Nodes, NEW T \in SUBSET Nodes
  PROVE  /\ Cardinality(S \cup T) \in Nat
         /\ Cardinality(S \cup T) <= Cardinality(S) + Cardinality(T)
         /\ S \cap T = {} => Cardinality(S \cup T) = Cardinality(S) + Cardinality(T)
  <1>1. IsFiniteSet(S) /\ IsFiniteSet(T) /\ S \cap T \in SUBSET Nodes /\ S \cup T \in SUBSET Nodes
    BY Finite
  <1>2. /\ Cardinality(S) \in Nat /\ Cardinality(T) \in Nat
        /\ Cardinality(S \cap T) \in Nat /\ Cardinality(S \cup T) \in Nat
    BY <1>1, Finite
  <1>3. Cardinality(S \cup T) = Cardinality(S) + Cardinality(T) - Cardinality(S \cap T)
    BY <1>1, FS_Union
  <1>4. S \cap T = {} => Cardinality(S \cap T) = 0
    BY FS_EmptySet
  <1>5. QED
    BY <1>2, <1>3, <1>4

LEMMA StartDeletionBudgets ==
  ASSUME ActInv, NEW order \in Orders, NEW empty \in SUBSET Nodes,
         NEW drain \in SUBSET (MayDrain \ empty), StartDeletion(order, empty, drain)
  PROVE  PlanKeepsBudgets' /\ StartsWithinBudgets
  <1> DEFINE removable == FilterUnremovableNodes(empty \cup drain)
             E == empty \cap removable
             D == drain \cap removable
             e == Cardinality(emptyNodeDeletions)
             d == Cardinality(drainedNodeDeletions)
             crop == CropNodes(e, d, order, E, D, GroupOf, AtomicGroups, targetSize, RegisteredIn)
  <1>1. plan' = crop /\ UNCHANGED trackerVars
    BY Zenon DEF StartDeletion
  <1>2. E \in SUBSET Nodes /\ D \in SUBSET Nodes
    BY ActuationAssumption
  <1>3. e \in Nat /\ d \in Nat
    <2>1. emptyNodeDeletions \in SUBSET Nodes /\ drainedNodeDeletions \in SUBSET Nodes
      BY DEF ActInv, IInv, TypeOK
    <2>2. QED
      BY <2>1, Finite, Zenon
  <1>4. order \in Seq(Nodes)
    BY ActuationAssumption, Zenon
  <1>5. \A g \in NodeGroups : targetSize[g] \in Int /\ RegisteredIn[g] \in Int
    <2>1. ASSUME NEW g \in NodeGroups
          PROVE  targetSize[g] \in Int /\ RegisteredIn[g] \in Int
      <3>1. targetSize[g] \in Int /\ Cardinality(Here(g)) \in Nat
        BY GroupSizes, SetTypes, Zenon DEF ActInv
      <3>2. RegisteredIn[g] = Cardinality(Here(g))
        BY DEF RegisteredIn, Here
      <3>3. QED
        BY <3>1, <3>2, Sizes, Zenon
    <2>2. QED
      BY <2>1, Zenon
  <1>6. \A g \in {GroupOf[n] : n \in E \cup D} : targetSize[g] \in Int /\ RegisteredIn[g] \in Int
    BY <1>2, <1>5, NodeDeletionAssumption, Zenon
  <1> HIDE DEF E, D, e, d
  <1>7. KeepsBudgets(crop, e, d, GroupOf, AtomicGroups)
    BY <1>3, <1>4, <1>6, CropKeepsBudgets, Zenon
  <1> HIDE DEF crop
  <1>8. e = Cardinality(emptyNodeDeletions)' /\ d = Cardinality(drainedNodeDeletions)'
    BY <1>1 DEF e, d, trackerVars
  <1>9. PlanKeepsBudgets'
    BY <1>1, <1>7, <1>8, PlanFits, Zenon
  <1>10. StartsWithinBudgets
    BY <1>1 DEF StartsWithinBudgets, InProgress, trackerVars
  <1>11. QED
    BY <1>9, <1>10

(* The deletions once the empty nodes (c), and then those to drain (r), have been started.          *)
LEMMA EmptyFit ==
  ASSUME NEW max \in Nat, NEW e \in Nat, NEW d \in Nat, NEW c \in Nat, NEW r \in Nat,
         NEW ec \in Nat, NEW all \in Nat,
         e + d + (c + r) <= max, ec <= e + c, all <= ec + d
  PROVE  ec + d + r <= max /\ all <= max
  OBVIOUS

LEMMA DrainFit ==
  ASSUME NEW max \in Nat, NEW e \in Nat, NEW d \in Nat, NEW r \in Nat, NEW dr \in Nat, NEW all \in Nat,
         e + d + r <= max, dr <= d + r, all <= e + dr
  PROVE  all <= max
  OBVIOUS

LEMMA FewerFit ==
  ASSUME NEW max \in Nat, NEW e \in Nat, NEW d \in Nat, NEW r \in Nat, NEW cr \in Nat,
         e + d + cr <= max, r <= cr
  PROVE  e + d + r <= max
  OBVIOUS

LEMMA AtMost ==
  ASSUME NEW max \in Nat, NEW n \in Nat, NEW d \in Nat, NEW r \in Nat, n <= d + r, d + r <= max
  PROVE  n <= max
  OBVIOUS

LEMMA StartEmptyBudgets ==
  ASSUME ActInv, PlanKeepsBudgets, StartEmpty
  PROVE  PlanKeepsBudgets' /\ StartsWithinBudgets
  <1> DEFINE E == emptyNodeDeletions
             D == drainedNodeDeletions
             S == NodesOf(plan.empty)
             R == NodesOf(plan.drain)
  <1>1. E \in SUBSET Nodes /\ D \in SUBSET Nodes
    BY Zenon DEF ActInv, IInv, TypeOK
  <1>2. S \in SUBSET Nodes /\ R \in SUBSET Nodes /\ S \cap R = {}
    BY SetTypes DEF ActInv, LoopInv, PlanOK, Idle
  <1>3. E' = E \cup S /\ D' = D
    BY Zenon DEF StartEmpty, DeleteAsyncEmpty
  <1>4. plan = [empty |-> plan.empty, drain |-> plan.drain]
    BY DEF ActInv, LoopInv, PlanOK
  <1>5. plan'.empty = <<>> /\ plan'.drain = plan.drain
    <2>1. CASE plan.drain = <<>>
      BY <2>1 DEF StartEmpty, NoPlan
    <2>2. CASE plan.drain # <<>>
      <3>1. plan' = [plan EXCEPT !.empty = <<>>]
        BY <2>2 DEF StartEmpty
      <3>2. QED
        BY <1>4, <3>1
    <2>3. QED
      BY <2>1, <2>2
  <1>6. NodesOf(plan'.empty) = {} /\ NodesOf(plan'.drain) = R
    BY <1>5, NothingPlanned
  <1>7. /\ (\E n \in S \cup R : GroupOf[n] \notin AtomicGroups)
             => Cardinality(E) + Cardinality(D) + Cardinality(S \cup R) <= MaxScaleDownParallelism
        /\ (\E n \in R : GroupOf[n] \notin AtomicGroups)
             => Cardinality(D) + Cardinality(R) <= MaxDrainParallelism
    BY Zenon DEF PlanKeepsBudgets, KeepsBudgets
  <1>8. InProgress' = (E \cup S) \cup D /\ InProgress = E \cup D
    BY <1>3, Zenon DEF InProgress
  <1> HIDE DEF E, D, S, R
  <1>9. /\ Cardinality(E) \in Nat /\ Cardinality(D) \in Nat /\ Cardinality(S) \in Nat
        /\ Cardinality(R) \in Nat /\ Cardinality(E \cup S) \in Nat
        /\ Cardinality(E \cup S) <= Cardinality(E) + Cardinality(S)
    BY <1>1, <1>2, Finite, UnionSize, Zenon
  <1>10. Cardinality(S \cup R) = Cardinality(S) + Cardinality(R)
    BY <1>2, UnionSize, Zenon
  <1>11. /\ Cardinality((E \cup S) \cup D) \in Nat
         /\ Cardinality((E \cup S) \cup D) <= Cardinality(E \cup S) + Cardinality(D)
    <2>1. E \cup S \in SUBSET Nodes
      BY <1>1, <1>2, Zenon
    <2>2. QED
      BY <1>1, <2>1, UnionSize, Zenon
  <1>12. /\ (\E n \in R : GroupOf[n] \notin AtomicGroups)
              => Cardinality(E \cup S) + Cardinality(D) + Cardinality(R) <= MaxScaleDownParallelism
         /\ (\E n \in S : GroupOf[n] \notin AtomicGroups)
              => Cardinality((E \cup S) \cup D) <= MaxScaleDownParallelism
    <2>1. MaxScaleDownParallelism \in Nat
      BY BudgetAssumption, Zenon
    <2>2. ASSUME NEW n \in S \cup R, GroupOf[n] \notin AtomicGroups
          PROVE  /\ Cardinality(E \cup S) + Cardinality(D) + Cardinality(R) <= MaxScaleDownParallelism
                 /\ Cardinality((E \cup S) \cup D) <= MaxScaleDownParallelism
      <3>1. Cardinality(E) + Cardinality(D) + (Cardinality(S) + Cardinality(R)) <= MaxScaleDownParallelism
        BY <1>7, <1>10, <2>2, Zenon
      <3>2. QED
        BY <1>9, <1>11, <2>1, <3>1, EmptyFit, Zenon
    <2>3. QED
      BY <2>2, Zenon
  <1>13. Cardinality(emptyNodeDeletions)' = Cardinality(E \cup S) /\ Cardinality(drainedNodeDeletions)' = Cardinality(D)
    BY <1>3 DEF E, D
  <1>14. PlanKeepsBudgets'
    <2>1. {} \cup R = R
      BY Zenon
    <2>2. KeepsBudgets(plan', Cardinality(E \cup S), Cardinality(D), GroupOf, AtomicGroups)
      BY <1>6, <1>7, <1>12, <2>1, Zenon DEF KeepsBudgets
    <2>3. QED
      BY <1>13, <2>2, PlanFits, Zenon
  <1>15. drainedNodeDeletions' = drainedNodeDeletions
    BY <1>3, Zenon DEF D
  <1>16. StartsWithinBudgets
    BY <1>8, <1>12, <1>15, Zenon DEF StartsWithinBudgets
  <1>17. QED
    BY <1>14, <1>16, Zenon

LEMMA StartDrainBudgets ==
  ASSUME ActInv, PlanKeepsBudgets, StartDrain
  PROVE  PlanKeepsBudgets' /\ StartsWithinBudgets
  <1> DEFINE E == emptyNodeDeletions
             D == drainedNodeDeletions
             S == NodesOf(plan.empty)
             R == NodesOf(plan.drain)
  <1>1. E \in SUBSET Nodes /\ D \in SUBSET Nodes
    BY DEF ActInv, IInv, TypeOK
  <1>2. S \in SUBSET Nodes /\ R \in SUBSET Nodes
    BY SetTypes DEF ActInv, LoopInv, PlanOK, Idle
  <1>3. E' = E /\ D' = D \cup R /\ plan' = NoPlan
    BY Zenon DEF StartDrain, DeleteAsyncDrain
  <1>4. /\ (\E n \in S \cup R : GroupOf[n] \notin AtomicGroups)
             => Cardinality(E) + Cardinality(D) + Cardinality(S \cup R) <= MaxScaleDownParallelism
        /\ (\E n \in R : GroupOf[n] \notin AtomicGroups)
             => Cardinality(D) + Cardinality(R) <= MaxDrainParallelism
    BY Zenon DEF PlanKeepsBudgets, KeepsBudgets
  <1>5. InProgress' = E \cup (D \cup R) /\ InProgress = E \cup D
    BY <1>3 DEF InProgress
  <1>6. drainedNodeDeletions' = D \cup R /\ drainedNodeDeletions = D
    BY <1>3
  <1> HIDE DEF E, D, S, R
  <1>7. D \cup R \in SUBSET Nodes /\ E \cup (D \cup R) \in SUBSET Nodes /\ S \cup R \in SUBSET Nodes
    BY <1>1, <1>2
  <1>8. /\ Cardinality(E) \in Nat /\ Cardinality(D) \in Nat /\ Cardinality(R) \in Nat
        /\ Cardinality(D \cup R) \in Nat /\ Cardinality(S \cup R) \in Nat
        /\ Cardinality(E \cup (D \cup R)) \in Nat
    BY <1>1, <1>2, <1>7, Finite, Zenon
  <1>9. Cardinality(D \cup R) <= Cardinality(D) + Cardinality(R)
    BY <1>1, <1>2, Finite, UnionSize, Zenon
  <1>10. Cardinality(E \cup (D \cup R)) <= Cardinality(E) + Cardinality(D \cup R)
    BY <1>1, <1>7, UnionSize, Zenon
  <1>11. Cardinality(R) <= Cardinality(S \cup R)
    BY <1>7, Monotone, Zenon
  <1>12. (\E n \in R : GroupOf[n] \notin AtomicGroups)
           => /\ Cardinality(E \cup (D \cup R)) <= MaxScaleDownParallelism
              /\ Cardinality(D \cup R) <= MaxDrainParallelism
    <2>1. MaxScaleDownParallelism \in Nat /\ MaxDrainParallelism \in Nat
      BY BudgetAssumption, Zenon
    <2>2. ASSUME NEW n \in R, GroupOf[n] \notin AtomicGroups
          PROVE  /\ Cardinality(E \cup (D \cup R)) <= MaxScaleDownParallelism
                 /\ Cardinality(D \cup R) <= MaxDrainParallelism
      <3>1. /\ Cardinality(E) + Cardinality(D) + Cardinality(S \cup R) <= MaxScaleDownParallelism
            /\ Cardinality(D) + Cardinality(R) <= MaxDrainParallelism
        BY <1>4, <2>2, Zenon
      <3>2. Cardinality(E \cup (D \cup R)) <= MaxScaleDownParallelism
        <4>1. Cardinality(E) + Cardinality(D) + Cardinality(R) <= MaxScaleDownParallelism
          BY <1>8, <1>11, <2>1, <3>1, FewerFit, Zenon
        <4>2. QED
          BY <1>8, <1>9, <1>10, <2>1, <4>1, DrainFit, Zenon
      <3>3. Cardinality(D \cup R) <= MaxDrainParallelism
        BY <1>8, <1>9, <2>1, <3>1, AtMost, Zenon
      <3>4. QED
        BY <3>2, <3>3, Zenon
    <2>3. QED
      BY <2>2, Zenon
  <1>13. StartsWithinBudgets
    BY <1>5, <1>6, <1>12, Zenon DEF StartsWithinBudgets
  <1>14. QED
    BY <1>3, <1>13, NoPlanKeepsBudgets, Zenon


LEMMA BudgetsStep ==
  ASSUME ActInv, PlanKeepsBudgets, [ActuationNext]_allVars
  PROVE  PlanKeepsBudgets' /\ StartsWithinBudgets
  <1> DEFINE Ends == /\ emptyNodeDeletions' \in SUBSET emptyNodeDeletions
                     /\ drainedNodeDeletions' \in SUBSET drainedNodeDeletions
  <1>1. UNCHANGED trackerVars => Ends
    BY Zenon DEF trackerVars
  <1>2. ASSUME NEW S, EndDeletion(S)
        PROVE  Ends
    BY <1>2 DEF EndDeletion
  <1> HIDE DEF Ends
  <1>3. CASE CheckStatus \/ UNCHANGED allVars
    <2>1. UNCHANGED trackerVars /\ plan' = plan
      BY <1>3 DEF CheckStatus, allVars, vars, loopVars
    <2>2. QED
      BY <1>1, <2>1, EndsKeepBudgets, Zenon DEF Ends
  <1>4. CASE TaintNodesFails
    <2>1. UNCHANGED trackerVars /\ plan' = NoPlan
      BY <1>4, Zenon DEF TaintNodesFails, vars
    <2>2. StartsWithinBudgets
      BY <2>1 DEF StartsWithinBudgets, InProgress, trackerVars
    <2>3. QED
      BY <2>1, <2>2, NoPlanKeepsBudgets
  <1>5. ASSUME NEW order \in Orders, NEW empty \in SUBSET Nodes,
               NEW drain \in SUBSET (MayDrain \ empty), StartDeletion(order, empty, drain)
        PROVE  PlanKeepsBudgets' /\ StartsWithinBudgets
    BY <1>5, StartDeletionBudgets
  <1>6. CASE StartEmpty
    BY <1>6, StartEmptyBudgets
  <1>7. CASE StartDrain
    BY <1>7, StartDrainBudgets
  <1>8. ASSUME NEW g \in NodeGroups, RemoveOldUnregisteredNodes(g)
        PROVE  PlanKeepsBudgets' /\ StartsWithinBudgets
    <2>1. UNCHANGED trackerVars /\ plan' = plan
      BY <1>8, Zenon DEF RemoveOldUnregisteredNodes, RemoveOthers
    <2>2. QED
      BY <1>1, <2>1, EndsKeepBudgets DEF Ends
  <1>9. ASSUME NEW n \in Nodes, Worker(n) \/ Abort(n)
        PROVE  PlanKeepsBudgets' /\ StartsWithinBudgets
    <2>1. plan' = plan
      BY <1>9 DEF Worker, Abort, loopVars
    <2>2. \/ ScheduleDeletion(n) \/ AddToBatcher(n) \/ RegisterDeleted(n) \/ RegisterRefused(n)
          \/ NodeVanish(n) \/ AbortNodeDeletion(n)
      BY <1>9, Zenon DEF Worker, Abort
    <2>3. UNCHANGED trackerVars \/ \E S : EndDeletion(S)
      <3>1. CASE ScheduleDeletion(n)
        BY <3>1, Zenon DEF ScheduleDeletion
      <3>2. CASE AddToBatcher(n)
        BY <3>2, Zenon DEF AddToBatcher, CleanUp
      <3>3. CASE RegisterDeleted(n)
        BY <3>3, Zenon DEF RegisterDeleted
      <3>4. CASE RegisterRefused(n)
        BY <3>4, Zenon DEF RegisterRefused, CleanUp
      <3>5. CASE NodeVanish(n)
        BY <3>5, Zenon DEF NodeVanish
      <3>6. CASE AbortNodeDeletion(n)
        BY <3>6, Zenon DEF AbortNodeDeletion, CleanUp
      <3>7. QED
        BY <2>2, <3>1, <3>2, <3>3, <3>4, <3>5, <3>6, Zenon
    <2>4. QED
      BY <1>1, <1>2, <2>1, <2>3, EndsKeepBudgets, Zenon DEF Ends
  <1>10. ASSUME NEW g \in NodeGroups, Batcher(g) \/ BatcherFails(g)
         PROVE  PlanKeepsBudgets' /\ StartsWithinBudgets
    <2>1. plan' = plan
      BY <1>10, Zenon DEF Batcher, BatcherFails, loopVars
    <2>2. UNCHANGED trackerVars
      BY <1>10, Zenon DEF Batcher, BatcherFails, remove, DeleteNodes
    <2>3. QED
      BY <1>1, <2>1, <2>2, EndsKeepBudgets, Zenon DEF Ends
  <1>11. QED
    BY <1>3, <1>4, <1>5, <1>6, <1>7, <1>8, <1>9, <1>10, Zenon DEF ActuationNext, Loop

(* Nodes outside atomic groups are only started within both budgets, although CropNodes counts     *)
(* the deletions in progress once and the nodes are tainted and started later, the empty ones      *)
(* before those to drain, while other deletions end or fail.                                       *)
THEOREM StartsKeepBudgets == ActuationSpec => [][StartsWithinBudgets]_allVars
  <1>1. ActuationInit => PlanKeepsBudgets
    <2> SUFFICES ASSUME ActuationInit PROVE PlanKeepsBudgets
      OBVIOUS
    <2>1. plan.empty = <<>> /\ plan.drain = <<>>
      BY DEF ActuationInit, NoPlan
    <2>2. NodesOf(plan.empty) = {} /\ NodesOf(plan.drain) = {}
      BY <2>1, NothingPlanned
    <2>3. QED
      BY <2>2, Zenon DEF PlanKeepsBudgets, KeepsBudgets
  <1>2. ActInv /\ PlanKeepsBudgets /\ [ActuationNext]_allVars => PlanKeepsBudgets' /\ StartsWithinBudgets
    BY BudgetsStep
  <1>3. QED
    BY <1>1, <1>2, ActuationInvariance, PTL DEF ActuationSpec
=============================================================================
