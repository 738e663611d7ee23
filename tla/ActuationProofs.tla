--------------------------- MODULE ActuationProofs ---------------------------
(***************************************************************************)
(* Proofs about the deletion pipeline, for any nodes, groups, batch sizes  *)
(* and for both settings of the batcher; then what the deletion budgets    *)
(* take from an offer.                                                     *)
(***************************************************************************)
EXTENDS ScaleDownBudgets, NodeDeletion, FiniteSetTheorems, WellFoundedInduction,
        NaturalsInduction, TLAPS

(* HeldOnce said of one node, in terms of the queue and the bucket of its   *)
(* own group only.                                                          *)
InQueue(n) == n \in nodeQueue[GroupOf[n]]
InBucket(n) == n \in bucket[GroupOf[n]]
InCall(n) == \E S \in deleting : n \in S

NodeHeld(n) ==
  /\ n \in InProgress <=> \/ n \in async \/ n \in preparing \/ InQueue(n) \/ InBucket(n)
                          \/ InCall(n) \/ n \in deleted \/ n \in refused
  /\ n \in async => n \notin preparing
  /\ n \in async \cup preparing =>
       ~InQueue(n) /\ ~InBucket(n) /\ ~InCall(n) /\ n \notin deleted \cup refused
  /\ InQueue(n) => ~InBucket(n) /\ ~InCall(n) /\ n \notin deleted \cup refused
  /\ InBucket(n) => ~InCall(n) /\ n \notin deleted \cup refused
  /\ InCall(n) => n \notin deleted \cup refused
  /\ n \in deleted => n \notin refused

(* Queues and buckets hold nodes of their own group, and only an atomic     *)
(* group without a failure in this phase has a queue: addToBatcher may      *)
(* delete a queue without cleaning it up because it is empty then.          *)
Placed ==
  /\ \A g \in NodeGroups : nodeQueue[g] \subseteq Members[g] /\ bucket[g] \subseteq Members[g]
  /\ \A g \in NodeGroups : nodeQueue[g] # {} => g \in AtomicGroups /\ g \notin failuresForGroup
  /\ \A S, T \in deleting : S # T => S \cap T = {}

IInv ==
  /\ TypeOK
  /\ Placed
  /\ \A n \in Nodes : NodeHeld(n)
  /\ CountersMatchNames
  /\ TaintedWhileInProgress

-----------------------------------------------------------------------------
(* Finite cardinalities of sets of nodes.                                   *)
LEMMA Finite ==
  ASSUME NEW S \in SUBSET Nodes
  PROVE  IsFiniteSet(S) /\ Cardinality(S) \in Nat
  BY FS_Subset, FS_CardinalityType, NodeDeletionAssumption

LEMMA Monotone ==
  ASSUME NEW S \in SUBSET Nodes, NEW T \in SUBSET S
  PROVE  Cardinality(T) <= Cardinality(S)
  BY FS_Subset, Finite

LEMMA Disjoint ==
  ASSUME NEW S \in SUBSET Nodes, NEW T \in SUBSET Nodes, S \cap T = {}
  PROVE  Cardinality(S \cup T) = Cardinality(S) + Cardinality(T)
  <1>1. IsFiniteSet(S) /\ IsFiniteSet(T)
    BY Finite
  <1>2. Cardinality(S \cup T) = Cardinality(S) + Cardinality(T) - Cardinality(S \cap T)
    BY <1>1, FS_Union
  <1>3. Cardinality(S \cap T) = 0
    BY FS_EmptySet
  <1>4. QED
    BY <1>1, <1>2, <1>3, Finite

LEMMA Difference ==
  ASSUME NEW S \in SUBSET Nodes, NEW T \in SUBSET S
  PROVE  Cardinality(S \ T) = Cardinality(S) - Cardinality(T)
  <1>1. S = T \cup (S \ T) /\ T \cap (S \ T) = {} /\ T \in SUBSET Nodes /\ S \ T \in SUBSET Nodes
    OBVIOUS
  <1>2. Cardinality(S) = Cardinality(T) + Cardinality(S \ T)
    BY <1>1, Disjoint
  <1>3. QED
    BY <1>1, <1>2, Finite

LEMMA MembersType == \A g \in NodeGroups : Members[g] = {n \in Nodes : GroupOf[n] = g}
  BY DEF Members

-----------------------------------------------------------------------------
(* EndDeletion of tracked nodes takes exactly them out of the tracker.      *)
LEMMA EndDeletionEffect ==
  ASSUME TypeOK, CountersMatchNames, NEW S \in SUBSET InProgress, EndDeletion(S)
  PROVE  /\ InProgress' = InProgress \ S
         /\ emptyNodeDeletions' \subseteq Nodes /\ drainedNodeDeletions' \subseteq Nodes
         /\ deletionsPerNodeGroup' \in [NodeGroups -> Nat]
         /\ CountersMatchNames'
  <1> DEFINE ended(g) == Cardinality(S \cap Members[g])
             left(g) == Cardinality((InProgress \ S) \cap Members[g])
             counter(g) == deletionsPerNodeGroup[g]
  <1>0. InProgress \in SUBSET Nodes /\ S \in SUBSET Nodes
    BY DEF TypeOK, InProgress
  <1>1. ASSUME NEW g \in NodeGroups
        PROVE  ended(g) \in Nat /\ left(g) \in Nat /\ counter(g) = left(g) + ended(g)
    <2>1. counter(g) = Cardinality(InProgress \cap Members[g])
      BY DEF CountersMatchNames
    <2>2. /\ S \cap Members[g] \in SUBSET Nodes
          /\ (InProgress \ S) \cap Members[g] \in SUBSET Nodes
          /\ ((InProgress \ S) \cap Members[g]) \cap (S \cap Members[g]) = {}
          /\ InProgress \cap Members[g]
               = ((InProgress \ S) \cap Members[g]) \cup (S \cap Members[g])
      BY <1>0
    <2>3. ended(g) \in Nat /\ left(g) \in Nat
      BY <2>2, Finite
    <2>4. QED
      BY <2>1, <2>2, <2>3, Disjoint, Zenon
  <1>2. CountDown(S) = [g \in NodeGroups |-> IF counter(g) - ended(g) < 0 THEN 0
                                             ELSE counter(g) - ended(g)]
    BY DEF CountDown
  <1>3. (\A g \in NodeGroups : counter(g) >= ended(g)) =>
          /\ emptyNodeDeletions' = emptyNodeDeletions \ S
          /\ drainedNodeDeletions' = drainedNodeDeletions \ S
    BY DEF EndDeletion
  <1>4. deletionsPerNodeGroup' = CountDown(S)
    BY DEF EndDeletion
  <1> HIDE DEF ended, left, counter
  <1>5. CountDown(S) = [g \in NodeGroups |-> left(g)] /\ (\A g \in NodeGroups : counter(g) >= ended(g))
    <2>1. ASSUME NEW g \in NodeGroups
          PROVE  /\ counter(g) >= ended(g)
                 /\ (IF counter(g) - ended(g) < 0 THEN 0 ELSE counter(g) - ended(g)) = left(g)
      BY <1>1
    <2>2. QED
      BY <1>2, <2>1
  <1>6. InProgress' = InProgress \ S
    BY <1>3, <1>5 DEF InProgress
  <1>7. CountersMatchNames'
    <2>1. Members' = Members
      BY DEF Members
    <2>2. \A g \in NodeGroups : deletionsPerNodeGroup'[g] = left(g)
      BY <1>4, <1>5
    <2>3. QED
      BY <1>6, <2>1, <2>2 DEF CountersMatchNames, left
  <1>8. deletionsPerNodeGroup' \in [NodeGroups -> Nat]
    BY <1>1, <1>4, <1>5
  <1>9. QED
    BY <1>3, <1>5, <1>6, <1>7, <1>8 DEF TypeOK

(* Starting idle nodes adds exactly them.                                   *)
LEMMA CountUpEffect ==
  ASSUME TypeOK, CountersMatchNames, NEW S \in SUBSET Nodes, S \cap InProgress = {},
         deletionsPerNodeGroup' = CountUp(S), InProgress' = InProgress \cup S
  PROVE  deletionsPerNodeGroup' \in [NodeGroups -> Nat] /\ CountersMatchNames'
  <1> DEFINE started(g) == Cardinality(S \cap Members[g])
             total(g) == Cardinality((InProgress \cup S) \cap Members[g])
  <1>0. InProgress \in SUBSET Nodes
    BY DEF TypeOK, InProgress
  <1>1. ASSUME NEW g \in NodeGroups
        PROVE  total(g) \in Nat /\ deletionsPerNodeGroup[g] + started(g) = total(g)
    <2>1. deletionsPerNodeGroup[g] = Cardinality(InProgress \cap Members[g])
      BY DEF CountersMatchNames
    <2>2. /\ (InProgress \cup S) \cap Members[g] = (InProgress \cap Members[g]) \cup (S \cap Members[g])
          /\ (InProgress \cap Members[g]) \cap (S \cap Members[g]) = {}
          /\ InProgress \cap Members[g] \in SUBSET Nodes /\ S \cap Members[g] \in SUBSET Nodes
          /\ (InProgress \cup S) \cap Members[g] \in SUBSET Nodes
      BY <1>0
    <2>3. total(g) \in Nat
      BY <2>2, Finite
    <2>4. QED
      BY <2>1, <2>2, <2>3, Disjoint, Zenon
  <1>2. CountUp(S) = [g \in NodeGroups |-> deletionsPerNodeGroup[g] + started(g)]
    BY DEF CountUp
  <1>3. Members' = Members
    BY DEF Members
  <1> HIDE DEF started
  <1>4. \A g \in NodeGroups : deletionsPerNodeGroup'[g] = total(g)
    BY <1>1, <1>2
  <1>5. CountersMatchNames'
    BY <1>3, <1>4 DEF CountersMatchNames
  <1> HIDE DEF total
  <1>6. deletionsPerNodeGroup' = [g \in NodeGroups |-> total(g)]
    BY <1>1, <1>2
  <1>7. QED
    BY <1>1, <1>5, <1>6
(* A step that leaves the tracker alone leaves its counters alone.          *)
LEMMA SameCounters ==
  ASSUME CountersMatchNames, UNCHANGED trackerVars
  PROVE  CountersMatchNames' /\ InProgress' = InProgress
  BY DEF CountersMatchNames, trackerVars, InProgress, Members

-----------------------------------------------------------------------------
LEMMA InitInv == Init => IInv
  <1> SUFFICES ASSUME Init PROVE IInv
    OBVIOUS
  <1>1. TypeOK /\ Placed /\ TaintedWhileInProgress
    BY NodeDeletionAssumption
       DEF Init, TypeOK, Placed, TaintedWhileInProgress, InProgress, NoNodes, NoBatch
  <1>2. \A n \in Nodes : NodeHeld(n)
    BY NodeDeletionAssumption
       DEF Init, NodeHeld, InProgress, InQueue, InBucket, InCall, NoNodes
  <1>3. CountersMatchNames
    <2>1. \A g \in NodeGroups : InProgress \cap Members[g] = {}
      BY DEF Init, InProgress
    <2>2. QED
      BY <2>1, FS_EmptySet DEF Init, CountersMatchNames
  <1>4. QED
    BY <1>1, <1>2, <1>3 DEF IInv

(* Nodes that start are idle, so nobody holds them yet.                     *)
LEMMA StartInv ==
  ASSUME IInv, NEW S \in SUBSET Idle, NEW batch \in Batches,
         DeleteAsyncEmpty(S, batch) \/ DeleteAsyncDrain(S, batch), UNCHANGED failuresForGroup
  PROVE  IInv'
  <1>1. S \in SUBSET Nodes /\ S \cap InProgress = {}
    BY DEF IInv, TypeOK, Idle
  <1>2. InProgress' = InProgress \cup S /\ deletionsPerNodeGroup' = CountUp(S)
    BY DEF DeleteAsyncEmpty, DeleteAsyncDrain, InProgress
  <1>3. deletionsPerNodeGroup' \in [NodeGroups -> Nat] /\ CountersMatchNames'
    BY <1>1, <1>2, CountUpEffect DEF IInv
  <1>4. batchSize' \in [Nodes -> Nat]
    <2>1. \A n \in Nodes : batch[GroupOf[n]] \in Nat
      BY NodeDeletionAssumption, FS_CardinalityType DEF Batches
    <2>2. batchSize' = [n \in Nodes |-> IF n \in S THEN batch[GroupOf[n]] ELSE batchSize[n]]
      BY DEF DeleteAsyncEmpty, DeleteAsyncDrain
    <2>3. batchSize \in [Nodes -> Nat]
      BY DEF IInv, TypeOK
    <2>4. QED
      BY <2>1, <2>2, <2>3
  <1>5. TypeOK'
    BY <1>1, <1>3, <1>4 DEF IInv, TypeOK, DeleteAsyncEmpty, DeleteAsyncDrain, cloudVars
  <1>6. Placed'
    BY DEF IInv, Placed, DeleteAsyncEmpty, DeleteAsyncDrain, Members
  <1>7. ASSUME NEW n \in Nodes PROVE NodeHeld(n)'
    <2>1. NodeHeld(n)
      BY DEF IInv
    <2>2. async' = async \cup S
          /\ UNCHANGED <<preparing, nodeQueue, bucket, deleting, deleted, refused>>
      BY DEF DeleteAsyncEmpty, DeleteAsyncDrain
    <2>3. QED
      BY <1>1, <1>2, <2>1, <2>2 DEF NodeHeld, InQueue, InBucket, InCall
  <1>8. TaintedWhileInProgress'
    BY <1>2 DEF IInv, TaintedWhileInProgress, DeleteAsyncEmpty, DeleteAsyncDrain
  <1>9. QED
    BY <1>3, <1>5, <1>6, <1>7, <1>8 DEF IInv

LEMMA ResetInv ==
  ASSUME IInv, ResetFailures,
         UNCHANGED <<trackerVars, tainted, async, preparing, batchSize, nodeQueue, bucket,
                     deleting, deleted, refused, cloudVars>>
  PROVE  IInv'
  <1>1. CountersMatchNames' /\ InProgress' = InProgress
    BY SameCounters DEF IInv
  <1>2. TypeOK' /\ TaintedWhileInProgress'
    BY <1>1 DEF IInv, TypeOK, ResetFailures, trackerVars, cloudVars, TaintedWhileInProgress
  <1>3. Placed'
    BY DEF IInv, Placed, ResetFailures, Members
  <1>4. \A n \in Nodes : NodeHeld(n)'
    BY <1>1 DEF IInv, NodeHeld, InQueue, InBucket, InCall
  <1>5. QED
    BY <1>1, <1>2, <1>3, <1>4 DEF IInv

LEMMA ScheduleInv ==
  ASSUME IInv, NEW m \in Nodes, ScheduleDeletion(m)
  PROVE  IInv'
  <1>1. CountersMatchNames' /\ InProgress' = InProgress
    BY SameCounters DEF IInv, ScheduleDeletion
  <1>2. TypeOK' /\ TaintedWhileInProgress'
    BY <1>1 DEF IInv, TypeOK, ScheduleDeletion, trackerVars, cloudVars, TaintedWhileInProgress
  <1>3. Placed'
    BY DEF IInv, Placed, ScheduleDeletion, Members
  <1>4. \A n \in Nodes : NodeHeld(n)'
    BY <1>1 DEF IInv, NodeHeld, InQueue, InBucket, InCall, ScheduleDeletion
  <1>5. QED
    BY <1>1, <1>2, <1>3, <1>4 DEF IInv

(* The node and the queue of its group leave the tracker together.          *)
LEMMA AbortInv ==
  ASSUME IInv, NEW m \in Nodes, AbortNodeDeletion(m)
  PROVE  IInv'
  <1> DEFINE g == GroupOf[m]
             S == {m} \cup nodeQueue[g]
  <1>0. g \in NodeGroups /\ nodeQueue \in [NodeGroups -> SUBSET Nodes]
        /\ bucket \in [NodeGroups -> SUBSET Nodes] /\ TypeOK /\ CountersMatchNames
    BY NodeDeletionAssumption DEF IInv, TypeOK
  <1>a. \A n \in Nodes : n \in nodeQueue[g] => GroupOf[n] = g
    BY <1>0, MembersType DEF IInv, Placed
  <1>1. S \in SUBSET InProgress
    <2>1. m \in InProgress
      BY DEF AbortNodeDeletion, IInv, NodeHeld
    <2>2. \A n \in nodeQueue[g] : n \in InProgress
      BY <1>0, <1>a DEF IInv, NodeHeld, InQueue
    <2>3. QED
      BY <2>1, <2>2
  <1>2. EndDeletion(S) /\ tainted' = tainted \ S
    BY DEF AbortNodeDeletion, CleanUp
  <1>3. /\ failuresForGroup' = failuresForGroup \cup {g}
        /\ nodeQueue' = [nodeQueue EXCEPT ![g] = {}]
        /\ async' = async \ {m} /\ preparing' = preparing \ {m}
        /\ UNCHANGED <<batchSize, bucket, deleting, deleted, refused, cloudVars>>
        /\ m \in async \cup preparing
    BY DEF AbortNodeDeletion
  <1> HIDE DEF g, S
  <1>4. /\ InProgress' = InProgress \ S
        /\ emptyNodeDeletions' \subseteq Nodes /\ drainedNodeDeletions' \subseteq Nodes
        /\ deletionsPerNodeGroup' \in [NodeGroups -> Nat]
        /\ CountersMatchNames'
    BY <1>0, <1>1, <1>2, EndDeletionEffect
  <1>5. TypeOK'
    BY <1>0, <1>2, <1>3, <1>4, Zenon DEF TypeOK, cloudVars
  <1>6. Placed'
    BY <1>0, <1>3 DEF IInv, Placed, Members
  <1>7. ASSUME NEW n \in Nodes PROVE NodeHeld(n)'
    <2>1. NodeHeld(n) /\ GroupOf[n] \in NodeGroups
      BY NodeDeletionAssumption DEF IInv
    <2>2. InQueue(n)' <=> InQueue(n) /\ n \notin nodeQueue[g]
      BY <1>0, <1>3, <1>a, <2>1 DEF InQueue
    <2>3. (n \in nodeQueue[g] => InQueue(n)) /\ (InBucket(n)' <=> InBucket(n)) /\ (InCall(n)' <=> InCall(n))
      BY <1>a, <1>3 DEF InQueue, InBucket, InCall
    <2>4. n \in S <=> n = m \/ n \in nodeQueue[g]
      BY DEF S
    <2>5. QED
      BY <1>3, <1>4, <2>1, <2>2, <2>3, <2>4 DEF NodeHeld
  <1>8. TaintedWhileInProgress'
    BY <1>2, <1>4 DEF IInv, TaintedWhileInProgress
  <1>9. QED
    BY <1>4, <1>5, <1>6, <1>7, <1>8 DEF IInv

(* A list that leaves the queue or the bucket is handed over whole.         *)
LEMMA RemoveInv ==
  ASSUME IInv, NEW g \in NodeGroups, remove(g)
  PROVE  IInv'
  <1>1. CountersMatchNames' /\ InProgress' = InProgress
    BY SameCounters DEF IInv, remove
  <1>2. TypeOK' /\ TaintedWhileInProgress'
    BY <1>1 DEF IInv, TypeOK, remove, trackerVars, cloudVars, TaintedWhileInProgress
  <1>3. \A n \in bucket[g] : n \in Nodes /\ GroupOf[n] = g
    BY MembersType DEF IInv, Placed
  <1>4. bucket \in [NodeGroups -> SUBSET Nodes]
        /\ bucket' = [bucket EXCEPT ![g] = {}] /\ deleting' = deleting \cup {bucket[g]}
        /\ UNCHANGED <<nodeQueue, failuresForGroup, async, preparing, deleted, refused>>
    BY DEF IInv, TypeOK, remove
  <1>5. Placed'
    <2>1. \A S \in deleting : S \cap bucket[g] = {}
      BY <1>3 DEF IInv, NodeHeld, InBucket, InCall
    <2>2. QED
      BY <1>4, <2>1 DEF IInv, Placed, Members
  <1>6. ASSUME NEW n \in Nodes PROVE NodeHeld(n)'
    <2>1. NodeHeld(n) /\ GroupOf[n] \in NodeGroups
      BY NodeDeletionAssumption DEF IInv
    <2>2. InBucket(n)' <=> InBucket(n) /\ n \notin bucket[g]
      BY <1>3, <1>4, <2>1 DEF InBucket
    <2>3. InCall(n)' <=> InCall(n) \/ n \in bucket[g]
      BY <1>4 DEF InCall
    <2>4. (n \in bucket[g] => InBucket(n)) /\ (InQueue(n)' <=> InQueue(n))
      BY <1>3, <1>4 DEF InBucket, InQueue
    <2>5. QED
      BY <1>1, <1>4, <2>1, <2>2, <2>3, <2>4 DEF NodeHeld
  <1>7. QED
    BY <1>1, <1>2, <1>5, <1>6 DEF IInv

(* The prepared node is given up, waits, or takes the queue to the batcher. *)
LEMMA AddToBatcherInv ==
  ASSUME IInv, NEW m \in Nodes, AddToBatcher(m)
  PROVE  IInv'
  <1> DEFINE g == GroupOf[m]
             queue == nodeQueue[g] \cup {m}
             failed == g \in AtomicGroups /\ g \in failuresForGroup
             wait == g \in AtomicGroups /\ Cardinality(queue) < batchSize[m]
             given == failed /\ CleanUp({m}) /\ nodeQueue' = [nodeQueue EXCEPT ![g] = {}]
                      /\ UNCHANGED <<bucket, deleting>>
             waits == ~failed /\ wait /\ nodeQueue' = [nodeQueue EXCEPT ![g] = queue]
                      /\ UNCHANGED <<trackerVars, tainted, bucket, deleting>>
             moves == ~failed /\ ~wait /\ AddNodes(queue, g)
                      /\ nodeQueue' = [nodeQueue EXCEPT ![g] = {}]
                      /\ UNCHANGED <<trackerVars, tainted>>
  <1>0. g \in NodeGroups /\ nodeQueue \in [NodeGroups -> SUBSET Nodes]
        /\ bucket \in [NodeGroups -> SUBSET Nodes] /\ TypeOK /\ CountersMatchNames
    BY NodeDeletionAssumption DEF IInv, TypeOK
  <1>1. /\ m \in preparing /\ preparing' = preparing \ {m}
        /\ UNCHANGED <<async, batchSize, failuresForGroup, deleted, refused, cloudVars>>
        /\ given \/ waits \/ moves
    BY DEF AddToBatcher
  <1>2. m \in InProgress /\ NodeHeld(m)
    BY <1>1 DEF IInv, NodeHeld
  <1>3. \A n \in Nodes : n \in nodeQueue[g] => GroupOf[n] = g /\ InQueue(n)
    BY <1>0, MembersType DEF IInv, Placed, InQueue
  <1>4. nodeQueue[g] # {} => ~failed /\ g \in AtomicGroups
    BY <1>0 DEF IInv, Placed
  <1>5. Placed
    BY DEF IInv
  <1>6. GroupOf[m] = g /\ \A n \in Nodes : GroupOf[n] \in NodeGroups /\ NodeHeld(n)
    BY NodeDeletionAssumption DEF IInv
  <1>7. m \in Members[g] /\ nodeQueue[g] \subseteq Members[g] /\ bucket[g] \subseteq Members[g]
    BY <1>0, <1>6, MembersType DEF IInv, Placed
  <1>8. TaintedWhileInProgress
    BY DEF IInv
  <1>A. CASE given
    <2>1. EndDeletion({m}) /\ tainted' = tainted \ {m} /\ nodeQueue[g] = {} /\ nodeQueue' = nodeQueue
          /\ UNCHANGED <<bucket, deleting>>
      BY <1>A, <1>0, <1>4 DEF CleanUp
    <2>2. {m} \in SUBSET InProgress
      BY <1>2
    <2>3. /\ InProgress' = InProgress \ {m}
          /\ emptyNodeDeletions' \subseteq Nodes /\ drainedNodeDeletions' \subseteq Nodes
          /\ deletionsPerNodeGroup' \in [NodeGroups -> Nat]
          /\ CountersMatchNames'
      BY <1>0, <2>1, <2>2, EndDeletionEffect
    <2>4. TypeOK'
      BY <1>0, <1>1, <2>1, <2>3 DEF TypeOK, cloudVars
    <2>5. Placed'
      BY <1>1, <1>5, <2>1, Zenon DEF Placed, Members
    <2>6. ASSUME NEW n \in Nodes PROVE NodeHeld(n)'
      <3>1. /\ InQueue(n)' <=> InQueue(n)
            /\ InBucket(n)' <=> InBucket(n)
            /\ InCall(n)' <=> InCall(n)
        BY <2>1 DEF InQueue, InBucket, InCall
      <3>2. NodeHeld(n)
        BY <1>6, Zenon
      <3>3. QED
        BY <1>1, <2>3, <3>1, <3>2 DEF NodeHeld
    <2>7. QED
      BY <1>8, <2>1, <2>3, <2>4, <2>5, <2>6 DEF IInv, TaintedWhileInProgress
  <1>B. CASE waits
    <2>1. CountersMatchNames' /\ InProgress' = InProgress
      BY <1>B, <1>0, SameCounters
    <2>2. TypeOK'
      BY <1>B, <1>0, <1>1 DEF TypeOK, trackerVars, cloudVars
    <2>3. Placed'
      <3>1. /\ Members' = Members /\ bucket' = bucket /\ deleting' = deleting
            /\ failuresForGroup' = failuresForGroup /\ queue \subseteq Members[g]
        BY <1>B, <1>1, <1>7, Zenon DEF Members
      <3>2. g \in AtomicGroups /\ g \notin failuresForGroup
        BY <1>B
      <3>3. \A h \in NodeGroups : nodeQueue'[h] = IF h = g THEN queue ELSE nodeQueue[h]
        BY <1>B, <1>0
      <3> HIDE DEF queue
      <3>4. QED
        BY <1>5, <3>1, <3>2, <3>3 DEF Placed
    <2>4. ASSUME NEW n \in Nodes PROVE NodeHeld(n)'
      <3>1. InQueue(n)' <=> InQueue(n) \/ n = m
        BY <1>B, <1>0, <1>3, <1>6 DEF InQueue
      <3>2. (InBucket(n)' <=> InBucket(n)) /\ (InCall(n)' <=> InCall(n))
        BY <1>B DEF InBucket, InCall
      <3>3. QED
        BY <1>1, <1>2, <1>6, <2>1, <3>1, <3>2, Zenon DEF NodeHeld
    <2>5. QED
      BY <1>B, <1>8, <2>1, <2>2, <2>3, <2>4 DEF IInv, TaintedWhileInProgress
  <1>C. CASE moves
    <2>1. CountersMatchNames' /\ InProgress' = InProgress
      BY <1>C, <1>0, SameCounters
    <2>2. /\ nodeQueue' = [nodeQueue EXCEPT ![g] = {}]
          /\ UNCHANGED <<trackerVars, tainted>>
          /\ \/ bucket' = [bucket EXCEPT ![g] = @ \cup queue] /\ UNCHANGED deleting
             \/ deleting' = deleting \cup {queue} /\ UNCHANGED bucket
      BY <1>C DEF AddNodes
    <2>3. queue \in SUBSET Nodes
      BY <1>0
    <2>4. TypeOK'
      BY <1>0, <1>1, <2>2, <2>3 DEF TypeOK, trackerVars, cloudVars
    <2>5. Placed'
      <3>1. \A S \in deleting : S \cap queue = {}
        <4>1. \A n \in Nodes : n \in preparing \/ InQueue(n) => ~InCall(n)
          BY <1>6 DEF NodeHeld
        <4>2. \A n \in queue : ~InCall(n)
          BY <1>1, <1>3, <2>3, <4>1
        <4> QED
          BY <4>2 DEF InCall
      <3>2. queue \subseteq Members[g] /\ Members' = Members /\ failuresForGroup' = failuresForGroup
        BY <1>1, <1>7, Zenon DEF Members
      <3> HIDE DEF queue
      <3>3. \A h \in NodeGroups :
              /\ nodeQueue'[h] \subseteq Members[h] /\ bucket'[h] \subseteq Members[h]
              /\ nodeQueue'[h] # {} => nodeQueue[h] # {}
        BY <1>0, <1>5, <2>2, <3>2 DEF Placed
      <3>4. \A S, T \in deleting' : S # T => S \cap T = {}
        BY <1>5, <2>2, <3>1 DEF Placed
      <3>5. \A h \in NodeGroups : nodeQueue'[h] # {} => h \in AtomicGroups /\ h \notin failuresForGroup'
        BY <1>5, <3>2, <3>3 DEF Placed
      <3> HIDE DEF g
      <3>6. QED
        BY <3>2, <3>3, <3>4, <3>5 DEF Placed
    <2>6. ASSUME NEW n \in Nodes PROVE NodeHeld(n)'
      <3>1. InQueue(n)' <=> InQueue(n) /\ n \notin nodeQueue[g]
        BY <1>0, <1>3, <1>6, <2>2 DEF InQueue
      <3>2. \/ (InBucket(n)' <=> InBucket(n) \/ n \in queue) /\ (InCall(n)' <=> InCall(n))
            \/ (InBucket(n)' <=> InBucket(n)) /\ (InCall(n)' <=> InCall(n) \/ n \in queue)
        BY <1>0, <1>3, <1>6, <2>2, Zenon DEF InBucket, InCall
      <3>3. n \in queue <=> n \in nodeQueue[g] \/ n = m
        OBVIOUS
      <3>4. n \in nodeQueue[g] => InQueue(n)
        BY <1>3
      <3>5. QED
        BY <1>1, <1>2, <1>6, <2>1, <3>1, <3>2, <3>3, <3>4, Zenon DEF NodeHeld
    <2>7. QED
      BY <1>8, <2>1, <2>2, <2>4, <2>5, <2>6 DEF IInv, TaintedWhileInProgress
  <1>9. QED
    BY <1>1, <1>A, <1>B, <1>C

(* The provider's answer moves the list to one of the two outcomes.         *)
LEMMA DeleteNodesInv ==
  ASSUME IInv, NEW S \in deleting, NEW g \in NodeGroups, NEW ok \in BOOLEAN, DeleteNodes(S, g, ok)
  PROVE  IInv'
  <1>1. CountersMatchNames' /\ InProgress' = InProgress
    BY SameCounters DEF IInv, DeleteNodes
  <1>2. S \in SUBSET Nodes /\ Cardinality(S \cap registered) \in Nat
    BY Finite DEF IInv, TypeOK
  <1>3. targetSize' \in [NodeGroups -> Int]
    BY <1>2 DEF IInv, TypeOK, DeleteNodes
  <1>4. /\ deleting' = deleting \ {S}
        /\ \/ deleted' = deleted \cup S /\ refused' = refused
           \/ deleted' = deleted /\ refused' = refused \cup S
        /\ UNCHANGED <<async, preparing, nodeQueue, bucket, failuresForGroup>>
    BY DEF DeleteNodes
  <1>5. TypeOK' /\ TaintedWhileInProgress'
    BY <1>1, <1>2, <1>3, <1>4, Zenon
       DEF IInv, TypeOK, DeleteNodes, trackerVars, TaintedWhileInProgress
  <1>6. Placed'
    BY <1>4 DEF IInv, Placed, Members
  <1>7. ASSUME NEW n \in Nodes PROVE NodeHeld(n)'
    <2>1. NodeHeld(n) /\ (n \in S => InCall(n))
      BY DEF IInv, InCall
    <2>2. InCall(n)' <=> InCall(n) /\ n \notin S
      BY <1>4 DEF IInv, Placed, InCall
    <2>3. (InQueue(n)' <=> InQueue(n)) /\ (InBucket(n)' <=> InBucket(n))
      BY <1>4 DEF InQueue, InBucket
    <2>4. QED
      BY <1>1, <1>4, <2>1, <2>2, <2>3 DEF NodeHeld
  <1>8. QED
    BY <1>1, <1>5, <1>6, <1>7 DEF IInv

(* A registered outcome ends the deletion of its node.                      *)
LEMMA RegisterInv ==
  ASSUME IInv, NEW m \in Nodes, RegisterDeleted(m) \/ RegisterRefused(m)
  PROVE  IInv'
  <1>1. /\ m \in deleted \cup refused
        /\ deleted' = deleted \ {m} /\ refused' = refused \ {m}
        /\ EndDeletion({m})
        /\ tainted' = tainted \/ tainted' = tainted \ {m}
        /\ UNCHANGED <<async, preparing, batchSize, nodeQueue, failuresForGroup, bucket,
                       deleting, cloudVars>>
    BY DEF IInv, NodeHeld, RegisterDeleted, RegisterRefused, CleanUp
  <1>2. {m} \in SUBSET InProgress
    BY <1>1 DEF IInv, NodeHeld
  <1>3. /\ InProgress' = InProgress \ {m}
        /\ emptyNodeDeletions' \subseteq Nodes /\ drainedNodeDeletions' \subseteq Nodes
        /\ deletionsPerNodeGroup' \in [NodeGroups -> Nat]
        /\ CountersMatchNames'
    BY <1>1, <1>2, EndDeletionEffect DEF IInv
  <1>4. TypeOK' /\ TaintedWhileInProgress'
    BY <1>1, <1>3 DEF IInv, TypeOK, cloudVars, TaintedWhileInProgress
  <1>5. Placed'
    BY <1>1 DEF IInv, Placed, Members
  <1>6. \A n \in Nodes : NodeHeld(n)'
    BY <1>1, <1>3 DEF IInv, NodeHeld, InQueue, InBucket, InCall
  <1>7. QED
    BY <1>3, <1>4, <1>5, <1>6 DEF IInv

(* What happens in the cloud does not concern who holds a node.             *)
LEMMA CloudInv ==
  ASSUME IInv, UNCHANGED <<trackerVars, tainted, async, preparing, batchSize, nodeQueue,
                           failuresForGroup, bucket, deleting, deleted, refused>>,
         targetSize' \in [NodeGroups -> Int], registered' \subseteq Nodes
  PROVE  IInv'
  <1>1. CountersMatchNames' /\ InProgress' = InProgress
    BY SameCounters DEF IInv
  <1>2. TypeOK' /\ TaintedWhileInProgress'
    BY <1>1 DEF IInv, TypeOK, trackerVars, TaintedWhileInProgress
  <1>3. Placed'
    BY DEF IInv, Placed, Members
  <1>4. \A n \in Nodes : NodeHeld(n)'
    BY <1>1 DEF IInv, NodeHeld, InQueue, InBucket, InCall
  <1>5. QED
    BY <1>1, <1>2, <1>3, <1>4 DEF IInv

LEMMA NextInv == IInv /\ [Next]_vars => IInv'
  <1> SUFFICES ASSUME IInv, [Next]_vars PROVE IInv'
    OBVIOUS
  <1>1. CASE \E S \in SUBSET Idle : \E batch \in Batches :
               (DeleteAsyncEmpty(S, batch) \/ DeleteAsyncDrain(S, batch)) /\ UNCHANGED failuresForGroup
    BY <1>1, StartInv
  <1>2. CASE ResetFailures /\ UNCHANGED <<trackerVars, tainted, async, preparing, batchSize,
                 nodeQueue, bucket, deleting, deleted, refused, cloudVars>>
    BY <1>2, ResetInv
  <1>3. ASSUME NEW g \in NodeGroups, NEW S \in SUBSET Members[g], NEW count \in 0 .. targetSize[g],
               RemoveOthers(g, count, S)
        PROVE  IInv'
    <2>1. targetSize' \in [NodeGroups -> Int] /\ registered' \subseteq Nodes
      BY <1>3 DEF RemoveOthers, IInv, TypeOK
    <2>2. QED
      BY <1>3, <2>1, CloudInv DEF RemoveOthers
  <1>4. ASSUME NEW n \in Nodes,
               \/ ScheduleDeletion(n) \/ AbortNodeDeletion(n) \/ AddToBatcher(n)
               \/ RegisterDeleted(n) \/ RegisterRefused(n)
        PROVE  IInv'
    BY <1>4, ScheduleInv, AbortInv, AddToBatcherInv, RegisterInv
  <1>5. ASSUME NEW n \in Nodes, NodeVanish(n)
        PROVE  IInv'
    <2>1. targetSize' \in [NodeGroups -> Int] /\ registered' \subseteq Nodes
      BY <1>5 DEF NodeVanish, IInv, TypeOK
    <2>2. QED
      BY <1>5, <2>1, CloudInv DEF NodeVanish
  <1>6. ASSUME NEW g \in NodeGroups,
               remove(g) \/ \E S \in deleting : \E ok \in BOOLEAN : DeleteNodes(S, g, ok)
        PROVE  IInv'
    BY <1>6, RemoveInv, DeleteNodesInv
  <1>7. CASE UNCHANGED vars
    <2>1. targetSize' \in [NodeGroups -> Int] /\ registered' \subseteq Nodes
      BY <1>7 DEF vars, cloudVars, IInv, TypeOK
    <2>2. QED
      BY <1>7, <2>1, CloudInv DEF vars
  <1>8. QED
    BY <1>1, <1>2, <1>3, <1>4, <1>5, <1>6, <1>7, Zenon DEF Next, Goroutines

(* The inductive invariant holds throughout.                                *)
THEOREM Invariance == Spec => []IInv
  BY InitInv, NextInv, PTL DEF Spec

(* The sets of the model keep their types; the counters never go negative.  *)
THEOREM TypeCorrect == Spec => []TypeOK
  <1>1. IInv => TypeOK
    BY DEF IInv
  <1>2. QED
    BY <1>1, Invariance, PTL

(* Every deletion in progress is in the hands of exactly one goroutine,     *)
(* queue or bucket, whatever fails and whenever a new phase starts.         *)
THEOREM NobodyForgotten == Spec => []HeldOnce
  <1>1. IInv => HeldOnce
    <2> SUFFICES ASSUME IInv PROVE HeldOnce
      OBVIOUS
    <2>1. /\ async \subseteq Nodes /\ preparing \subseteq Nodes /\ deleted \subseteq Nodes
          /\ refused \subseteq Nodes /\ InProgress \subseteq Nodes
          /\ Queued \subseteq Nodes /\ Bucketed \subseteq Nodes /\ Deleting \subseteq Nodes
      BY DEF IInv, TypeOK, InProgress, Queued, Bucketed, Deleting
    <2>2. \A n \in Nodes : n \in Queued <=> InQueue(n)
      BY NodeDeletionAssumption, MembersType DEF IInv, Placed, Queued, InQueue
    <2>3. \A n \in Nodes : n \in Bucketed <=> InBucket(n)
      BY NodeDeletionAssumption, MembersType DEF IInv, Placed, Bucketed, InBucket
    <2>4. \A n \in Nodes : n \in Deleting <=> InCall(n)
      BY DEF Deleting, InCall
    <2>5. \A n \in Nodes : NodeHeld(n)
      BY DEF IInv
    <2>6. InProgress = async \cup preparing \cup Queued \cup Bucketed \cup Deleting \cup deleted \cup refused
      BY <2>1, <2>2, <2>3, <2>4, <2>5 DEF NodeHeld
    <2>7. /\ async \cap preparing = {}
          /\ (async \cup preparing) \cap (Queued \cup Bucketed \cup Deleting \cup deleted \cup refused) = {}
      BY <2>1, <2>2, <2>3, <2>4, <2>5 DEF NodeHeld
    <2>8. /\ Queued \cap (Bucketed \cup Deleting \cup deleted \cup refused) = {}
          /\ Bucketed \cap (Deleting \cup deleted \cup refused) = {}
          /\ Deleting \cap (deleted \cup refused) = {}
          /\ deleted \cap refused = {}
      BY <2>1, <2>2, <2>3, <2>4, <2>5 DEF NodeHeld
    <2>9. QED
      BY <2>6, <2>7, <2>8 DEF HeldOnce, IInv, Placed
  <1>2. QED
    BY <1>1, Invariance, PTL

(* The counters of the minimum size check agree with the names in progress. *)
THEOREM CountersAgree == Spec => []CountersMatchNames
  <1>1. IInv => CountersMatchNames
    BY DEF IInv
  <1>2. QED
    BY <1>1, Invariance, PTL

(* A node carries its taint for as long as its deletion is in progress.     *)
THEOREM TaintsStay == Spec => []TaintedWhileInProgress
  <1>1. IInv => TaintedWhileInProgress
    BY DEF IInv
  <1>2. QED
    BY <1>1, Invariance, PTL

-----------------------------------------------------------------------------
(* The turn before one that is not the first.                                                       *)
LEMMA TurnBefore ==
  ASSUME NEW n \in Nat, NEW k \in 0 .. n, k # 0
  PROVE  k \in 1 .. n /\ k - 1 \in 0 .. n
  OBVIOUS

(* Every set of numbers has a least one. *)
LEMMA LeastNumber ==
  ASSUME NEW S \in SUBSET Nat, S # {}
  PROVE  \E m \in S : \A i \in S : m <= i
  <1>1. PICK m \in S : \A t \in S : ~(<<t, m>> \in OpToRel(<, Nat))
    BY NatLessThanWellFounded, WFMin, Zenon
  <1>2. ASSUME NEW t \in S, t < m
        PROVE  FALSE
    <2>1. <<t, m>> \in OpToRel(<, Nat)
      BY <1>2 DEF OpToRel
    <2>2. QED
      BY <1>1, <2>1, Zenon
  <1>3. QED
    BY <1>2

(* A walk over a list stays where each of its steps leads. *)
LEMMA WalkStays ==
  ASSUME NEW n \in Nat, NEW X, NEW s, s[0] \in X[0],
         \A k \in 1 .. n : s[k - 1] \in X[k - 1] => s[k] \in X[k]
  PROVE  \A k \in 0 .. n : s[k] \in X[k]
  <1> DEFINE out == {k \in 0 .. n : s[k] \notin X[k]}
  <1> SUFFICES ASSUME out # {} PROVE FALSE
    OBVIOUS
  <1>1. PICK m \in out : \A i \in out : m <= i
    <2>1. out \in SUBSET Nat
      OBVIOUS
    <2>2. QED
      BY <2>1, LeastNumber, Zenon
  <1>2. m - 1 \in 0 .. n /\ m \in 1 .. n
    OBVIOUS
  <1>3. m - 1 \notin out
    BY <1>1, <1>2
  <1>4. QED
    BY <1>2, <1>3

Walked(n, base, F, s) == s = [k \in 0 .. n |-> IF k = 0 THEN base ELSE F[k][s[k - 1]]]

(* The walk exists. *)
LEMMA WalkExists ==
  ASSUME NEW n \in Nat, NEW X, NEW base \in X[0], NEW F,
         \A k \in 1 .. n : F[k] \in [X[k - 1] -> X[k]]
  PROVE  \E s : Walked(n, base, F, s) /\ \A k \in 0 .. n : s[k] \in X[k]
  <1> DEFINE has(k) == \E s : Walked(k, base, F, s)
             missing == {k \in 0 .. n : ~has(k)}
  <1>1. missing = {}
    <2> SUFFICES ASSUME missing # {} PROVE FALSE
      OBVIOUS
    <2>1. PICK m \in missing : \A i \in missing : m <= i
      <3>1. missing \in SUBSET Nat
        OBVIOUS
      <3>2. QED
        BY <3>1, LeastNumber, Zenon
    <2>2. m # 0
      <3>1. Walked(0, base, F, [k \in 0 .. 0 |-> base])
        BY DEF Walked
      <3>2. QED
        BY <3>1
    <2>3. m - 1 \in 0 .. n /\ m - 1 \notin missing /\ m \in 1 .. n
      BY <2>1, <2>2
    <2>4. PICK s : Walked(m - 1, base, F, s)
      BY <2>3, Zenon
    <2> DEFINE t == [k \in 0 .. m |-> IF k = m THEN F[m][s[m - 1]] ELSE s[k]]
    <2>5. ASSUME NEW k \in 0 .. m
          PROVE  t[k] = IF k = 0 THEN base ELSE F[k][t[k - 1]]
      <3> HIDE DEF missing, has
      <3>1. CASE k = m
        <4>1. m - 1 \in 0 .. m /\ m \in 0 .. m /\ m - 1 # m /\ m # 0
          BY <2>2, <2>3
        <4>2. t[m - 1] = s[m - 1] /\ t[m] = F[m][s[m - 1]]
          BY <4>1
        <4>3. QED
          BY <3>1, <4>1, <4>2
      <3>2. CASE k # m
        <4>1. k \in 0 .. m - 1 /\ (k # 0 => k - 1 \in 0 .. m - 1)
          BY <2>3, <3>2
        <4>2. s[k] = IF k = 0 THEN base ELSE F[k][s[k - 1]]
          BY <2>4, <4>1 DEF Walked
        <4>3. t[k] = s[k] /\ (k # 0 => t[k - 1] = s[k - 1])
          BY <2>3, <4>1
        <4>4. QED
          BY <4>2, <4>3
      <3>3. QED
        BY <3>1, <3>2
    <2> HIDE DEF missing, has
    <2>6. Walked(m, base, F, t)
      <3>1. t = [k \in 0 .. m |-> IF k = 0 THEN base ELSE F[k][t[k - 1]]]
        <4> DEFINE u == [k \in 0 .. m |-> IF k = 0 THEN base ELSE F[k][t[k - 1]]]
        <4>1. \A k \in 0 .. m : t[k] = u[k]
          BY <2>5
        <4>2. DOMAIN t = 0 .. m /\ DOMAIN u = 0 .. m
          OBVIOUS
        <4>3. QED
          BY <4>1, <4>2
      <3>2. QED
        BY <3>1, Zenon DEF Walked
    <2>7. QED
      BY <2>6 DEF missing, has
  <1>2. PICK s : Walked(n, base, F, s)
    BY <1>1
  <1>3. s[0] = base /\ \A k \in 1 .. n : s[k] = F[k][s[k - 1]]
    BY <1>2 DEF Walked
  <1>4. \A k \in 0 .. n : s[k] \in X[k]
    <2>1. s[0] \in X[0]
      BY <1>3
    <2>2. \A k \in 1 .. n : s[k - 1] \in X[k - 1] => s[k] \in X[k]
      BY <1>3
    <2>3. QED
      BY <2>1, <2>2, WalkStays, Zenon
  <1>5. QED
    BY <1>2, <1>4

(* What group makes of the nodes of S: every bucket has nodes of its own group, and as many as the *)
(* list has at most.                                                                              *)
Grouped(S, groupOf, max) ==
  {b \in [group : {groupOf[n] : n \in S}, nodes : Seq(S), BatchSize : {0}] :
     Len(b.nodes) <= max /\ \A k \in 1 .. Len(b.nodes) : groupOf[b.nodes[k]] = b.group}

LEMMA BucketFields ==
  ASSUME NEW g, NEW nodes, NEW batch
  PROVE  /\ Bucket(g, nodes, batch).group = g
         /\ Bucket(g, nodes, batch).nodes = nodes
         /\ Bucket(g, nodes, batch).BatchSize = batch
  BY DEF Bucket

LEMMA AddToGroupType ==
  ASSUME NEW S, NEW groupOf, NEW max \in Nat, NEW n \in S,
         NEW buckets \in Seq(Grouped(S, groupOf, max))
  PROVE  AddToGroup(buckets, n, groupOf[n]) \in Seq(Grouped(S, groupOf, max + 1))
  <1> DEFINE g == groupOf[n]
             added(b) == [b EXCEPT !.nodes = Append(@, n)]
  <1>1. ASSUME NEW b \in Grouped(S, groupOf, max)
        PROVE  /\ b \in Grouped(S, groupOf, max + 1)
               /\ b.group = g => added(b) \in Grouped(S, groupOf, max + 1)
    <2>1. /\ b \in [group : {groupOf[i] : i \in S}, nodes : Seq(S), BatchSize : {0}]
          /\ b.nodes \in Seq(S) /\ Len(b.nodes) \in Nat
          /\ Len(b.nodes) <= max /\ \A k \in 1 .. Len(b.nodes) : groupOf[b.nodes[k]] = b.group
      BY DEF Grouped
    <2>2. b \in Grouped(S, groupOf, max + 1)
      BY <2>1 DEF Grouped
    <2>3. ASSUME b.group = g
          PROVE  added(b) \in Grouped(S, groupOf, max + 1)
      <3>0. Append(b.nodes, n) \in Seq(S)
        BY <2>1
      <3>1. added(b) \in [group : {groupOf[i] : i \in S}, nodes : Seq(S), BatchSize : {0}]
        <4> DEFINE G == {groupOf[i] : i \in S}
        <4> HIDE DEF G
        <4>1. b \in [group : G, nodes : Seq(S), BatchSize : {0}]
          BY <2>1 DEF G
        <4>2. added(b) \in [group : G, nodes : Seq(S), BatchSize : {0}]
          BY <3>0, <4>1
        <4>3. QED
          BY <4>2, Zenon DEF G
      <3>2. added(b).group = b.group /\ added(b).nodes = Append(b.nodes, n)
        BY <2>1
      <3>3. Len(Append(b.nodes, n)) <= max + 1
        BY <2>1
      <3>4. \A k \in 1 .. Len(Append(b.nodes, n)) : groupOf[Append(b.nodes, n)[k]] = b.group
        BY <2>1, <2>3
      <3>5. QED
        BY <3>1, <3>2, <3>3, <3>4, Zenon DEF Grouped
    <2>4. QED
      BY <2>2, <2>3
  <1>2. Bucket(g, <<n>>, 0) \in Grouped(S, groupOf, max + 1)
    <2>1. <<n>> \in Seq(S) /\ Len(<<n>>) = 1 /\ <<n>>[1] = n /\ g \in {groupOf[i] : i \in S} /\ 1 <= max + 1
      OBVIOUS
    <2>2. Bucket(g, <<n>>, 0) \in [group : {groupOf[i] : i \in S}, nodes : Seq(S), BatchSize : {0}]
      <3> HIDE DEF g
      <3>1. QED
        BY <2>1 DEF Bucket
    <2>3. \A k \in 1 .. Len(<<n>>) : groupOf[<<n>>[k]] = g
      BY <2>1
    <2> DEFINE one == Bucket(g, <<n>>, 0)
    <2>4. one.group = g /\ one.nodes = <<n>>
      BY BucketFields
    <2> HIDE DEF one, g
    <2>5. one \in Grouped(S, groupOf, max + 1)
      BY <2>1, <2>2, <2>3, <2>4, Zenon DEF Grouped, one
    <2>6. QED
      BY <2>5 DEF one
  <1>3. \A k \in DOMAIN buckets : buckets[k] \in Grouped(S, groupOf, max)
    OBVIOUS
  <1>4. CASE HasGroup(buckets, g)
    <2> HIDE DEF g, added
    <2>1. AddToGroup(buckets, n, g) =
            [k \in DOMAIN buckets |-> IF buckets[k].group = g THEN added(buckets[k]) ELSE buckets[k]]
      BY <1>4 DEF AddToGroup, added
    <2>2. \A k \in DOMAIN buckets :
            (IF buckets[k].group = g THEN added(buckets[k]) ELSE buckets[k]) \in Grouped(S, groupOf, max + 1)
      BY <1>1, <1>3
    <2>3. DOMAIN buckets = 1 .. Len(buckets) /\ Len(buckets) \in Nat
      OBVIOUS
    <2>4. AddToGroup(buckets, n, g) \in Seq(Grouped(S, groupOf, max + 1))
      BY <2>1, <2>2, <2>3
    <2>5. QED
      BY <2>4 DEF g
  <1>5. CASE ~HasGroup(buckets, g)
    <2> HIDE DEF g, added
    <2>1. AddToGroup(buckets, n, g) = Append(buckets, Bucket(g, <<n>>, 0))
      BY <1>5 DEF AddToGroup
    <2>2. buckets \in Seq(Grouped(S, groupOf, max + 1))
      BY <1>1, <1>3
    <2>3. AddToGroup(buckets, n, g) \in Seq(Grouped(S, groupOf, max + 1))
      BY <1>2, <2>1, <2>2
    <2>4. QED
      BY <2>3 DEF g
  <1>6. QED
    BY <1>4, <1>5

LEMMA GroupType ==
  ASSUME NEW T, NEW list \in Seq(T), NEW S, NEW groupOf
  PROVE  group(list, S, groupOf) \in Seq(Grouped(S, groupOf, Len(list)))
  <1> DEFINE n == Len(list)
             X == [k \in 0 .. n |-> Seq(Grouped(S, groupOf, k))]
             step(x, k) == IF list[k] \in S THEN AddToGroup(x, list[k], groupOf[list[k]]) ELSE x
             F == [k \in 1 .. n |-> [x \in X[k - 1] |-> step(x, k)]]
             walk(s) == s = [k \in 0 .. n |-> IF k = 0 THEN <<>>
                                              ELSE IF list[k] \in S
                                              THEN AddToGroup(s[k - 1], list[k], groupOf[list[k]])
                                              ELSE s[k - 1]]
  <1>1. n \in Nat
    OBVIOUS
  <1>2. ASSUME NEW k \in 1 .. n, NEW x \in X[k - 1]
        PROVE  step(x, k) \in X[k]
    <2>1. k - 1 \in 0 .. n /\ k \in 0 .. n /\ k - 1 \in Nat /\ (k - 1) + 1 = k
      BY <1>1
    <2>2. x \in Seq(Grouped(S, groupOf, k - 1))
      BY <2>1
    <2>3. CASE list[k] \in S
      <3>1. AddToGroup(x, list[k], groupOf[list[k]]) \in Seq(Grouped(S, groupOf, (k - 1) + 1))
        BY <2>1, <2>2, <2>3, AddToGroupType
      <3>2. QED
        BY <2>1, <2>3, <3>1
    <2>4. CASE list[k] \notin S
      <3>1. \A b : b \in Grouped(S, groupOf, k - 1) => b \in Grouped(S, groupOf, k)
        <4>1. ASSUME NEW b \in Grouped(S, groupOf, k - 1)
              PROVE  b \in Grouped(S, groupOf, k)
          <5>1. /\ b \in [group : {groupOf[i] : i \in S}, nodes : Seq(S), BatchSize : {0}]
                /\ Len(b.nodes) <= k - 1
            BY DEF Grouped
          <5>2. Len(b.nodes) \in Nat
            BY <5>1
          <5>3. Len(b.nodes) <= k
            BY <2>1, <5>1, <5>2
          <5>4. QED
            BY <5>3 DEF Grouped
        <4>2. QED
          BY <4>1
      <3>2. x \in Seq(Grouped(S, groupOf, k))
        BY <2>2, <3>1
      <3>3. QED
        BY <2>1, <2>4, <3>2
    <2>5. QED
      BY <2>3, <2>4
  <1>3. <<>> \in X[0]
    BY <1>1
  <1> HIDE DEF n, X, step
  <1>4. \A k \in 1 .. n : F[k] \in [X[k - 1] -> X[k]]
    BY <1>2
  <1>5. PICK f : Walked(n, <<>>, F, f) /\ \A k \in 0 .. n : f[k] \in X[k]
    BY <1>1, <1>3, <1>4, WalkExists, Zenon
  <1>6. ASSUME NEW k \in 0 .. n
        PROVE  f[k] = IF k = 0 THEN <<>> ELSE step(f[k - 1], k)
    <2>1. f[k] = IF k = 0 THEN <<>> ELSE F[k][f[k - 1]]
      BY <1>5, Zenon DEF Walked
    <2>2. CASE k # 0
      <3>1. k \in 1 .. n /\ k - 1 \in 0 .. n
        BY <1>1, <2>2
      <3>2. F[k][f[k - 1]] = step(f[k - 1], k)
        BY <1>5, <3>1
      <3>3. QED
        BY <2>1, <2>2, <3>2
    <2>3. QED
      BY <2>1, <2>2
  <1>7. walk(f)
    <2>1. DOMAIN f = 0 .. n
      BY <1>5 DEF Walked
    <2>2. f = [k \in 0 .. n |-> f[k]]
      BY <1>5, <2>1 DEF Walked
    <2>3. QED
      BY <1>6, <2>2, Zenon DEF step
  <1> DEFINE g == CHOOSE s : walk(s)
  <1>8. group(list, S, groupOf) = g[n]
    BY DEF group, n
  <1>9. walk(g)
    <2> HIDE DEF walk
    <2>1. QED
      BY <1>7
  <1> HIDE DEF g
  <1>10. g[0] = <<>> /\ \A k \in 1 .. n : g[k] = step(g[k - 1], k)
    BY <1>1, <1>9 DEF step
  <1>11. \A k \in 0 .. n : g[k] \in X[k]
    BY <1>1, <1>2, <1>3, <1>10, WalkStays, Zenon
  <1>12. QED
    BY <1>1, <1>8, <1>11 DEF X, n

(* Nodes of S that may make up a bucket of group g, and such buckets with a batch size out of       *)
(* batches[g].                                                                                     *)
Fits(nodes, g, S, groupOf, max) ==
  /\ nodes \in Seq(S) /\ Len(nodes) <= max
  /\ g \in {groupOf[n] : n \in S}
  /\ \A k \in 1 .. Len(nodes) : groupOf[nodes[k]] = g

Taken(S, groupOf, max, batches) ==
  {b \in [group : {groupOf[n] : n \in S}, nodes : Seq(S), BatchSize : Int] :
     Fits(b.nodes, b.group, S, groupOf, max) /\ b.BatchSize \in batches[b.group]}

LEMMA BucketTaken ==
  ASSUME NEW S, NEW groupOf, NEW max, NEW batches, NEW g, NEW nodes, NEW batch \in Int,
         Fits(nodes, g, S, groupOf, max), batch \in batches[g]
  PROVE  Bucket(g, nodes, batch) \in Taken(S, groupOf, max, batches)
  <1> DEFINE b == Bucket(g, nodes, batch)
             G == {groupOf[n] : n \in S}
  <1>1. b.group = g /\ b.nodes = nodes /\ b.BatchSize = batch
    BY BucketFields
  <1>2. nodes \in Seq(S) /\ g \in G
    BY DEF Fits
  <1> HIDE DEF G
  <1>3. b \in [group : G, nodes : Seq(S), BatchSize : Int]
    BY <1>2 DEF Bucket
  <1> HIDE DEF b
  <1>4. b \in Taken(S, groupOf, max, batches)
    BY <1>1, <1>3 DEF Taken, G
  <1>5. QED
    BY <1>4 DEF b

LEMMA GroupedFits ==
  ASSUME NEW S, NEW P \in SUBSET S, NEW groupOf, NEW max, NEW b \in Grouped(P, groupOf, max)
  PROVE  Fits(b.nodes, b.group, S, groupOf, max) /\ Len(b.nodes) \in Nat
  <1>1. /\ b.group \in {groupOf[n] : n \in P} /\ b.nodes \in Seq(P)
        /\ Len(b.nodes) <= max /\ \A k \in 1 .. Len(b.nodes) : groupOf[b.nodes[k]] = b.group
    BY DEF Grouped
  <1>2. b.nodes \in Seq(S) /\ Len(b.nodes) \in Nat
    BY <1>1
  <1>3. QED
    BY <1>1, <1>2 DEF Fits

LEMMA NodesInFits ==
  ASSUME NEW S, NEW P \in SUBSET S, NEW groupOf, NEW max, NEW g,
         NEW buckets \in Seq(Grouped(P, groupOf, max))
  PROVE  /\ Len(NodesIn(buckets, g)) \in Nat
         /\ NodesIn(buckets, g) # <<>> => Fits(NodesIn(buckets, g), g, S, groupOf, max)
  <1>1. CASE HasGroup(buckets, g)
    <2> DEFINE k == CHOOSE i \in DOMAIN buckets : buckets[i].group = g
    <2>1. k \in DOMAIN buckets /\ buckets[k].group = g
      BY <1>1 DEF HasGroup
    <2>2. NodesIn(buckets, g) = buckets[k].nodes
      BY <1>1 DEF NodesIn
    <2> HIDE DEF k
    <2>3. buckets[k] \in Grouped(P, groupOf, max)
      BY <2>1
    <2>4. QED
      BY <2>1, <2>2, <2>3, GroupedFits, Zenon
  <1>2. CASE ~HasGroup(buckets, g)
    BY <1>2 DEF NodesIn
  <1>3. QED
    BY <1>1, <1>2

-----------------------------------------------------------------------------
(* The state of the loops of CropNodes, with buckets out of TE and TD.                             *)
States(TE, TD) ==
  [parallelism : Int, drain : Int, canOverflow : BOOLEAN, stopped : BOOLEAN,
   empty : Seq(TE), drainToDelete : Seq(TD)]

LEMMA StateUpdate ==
  ASSUME NEW TE, NEW TD, NEW s \in States(TE, TD), NEW p \in Int, NEW d \in Int,
         NEW es \in Seq(TE), NEW ds \in Seq(TD)
  PROVE  /\ [s EXCEPT !.stopped = TRUE] \in States(TE, TD)
         /\ [s EXCEPT !.drain = d, !.stopped = FALSE] \in States(TE, TD)
         /\ [s EXCEPT !.parallelism = p, !.drain = d, !.canOverflow = FALSE,
                      !.empty = es, !.drainToDelete = ds] \in States(TE, TD)
         /\ [s EXCEPT !.parallelism = p, !.drain = d, !.canOverflow = FALSE,
                      !.drainToDelete = ds] \in States(TE, TD)
  BY Zenon DEF States

LEMMA TakeEmptyAtomicType ==
  ASSUME NEW TE, NEW TD, NEW s \in States(TE, TD), NEW b, NEW drainNodes,
         NEW target \in Int, NEW current \in Int,
         Len(b.nodes) \in Nat, Len(drainNodes) \in Nat,
         \A batch \in {target, current} :
           /\ Bucket(b.group, b.nodes, batch) \in TE
           /\ drainNodes # <<>> => Bucket(b.group, drainNodes, batch) \in TD
  PROVE  TakeEmptyAtomic(s, b, drainNodes, target, current) \in States(TE, TD)
  <1> DEFINE t == TakeEmptyAtomic(s, b, drainNodes, target, current)
             batch == BatchSizeFor(b, target, current)
             p == s.parallelism - (Len(b.nodes) + Len(drainNodes))
             d == s.drain - Len(drainNodes)
             es == Append(s.empty, Bucket(b.group, b.nodes, batch))
             ds == IF drainNodes = <<>> THEN s.drainToDelete
                   ELSE Append(s.drainToDelete, Bucket(b.group, drainNodes, batch))
  <1>1. \/ t = [s EXCEPT !.stopped = TRUE]
        \/ t = s
        \/ t = [s EXCEPT !.parallelism = p, !.drain = d, !.canOverflow = FALSE,
                         !.empty = es, !.drainToDelete = ds]
    BY Zenon DEF TakeEmptyAtomic
  <1>2. batch \in {target, current}
    BY DEF BatchSizeFor
  <1>3. /\ s.parallelism \in Int /\ s.drain \in Int
        /\ s.empty \in Seq(TE) /\ s.drainToDelete \in Seq(TD)
    BY DEF States
  <1>4. p \in Int /\ d \in Int
    BY <1>3
  <1>5. es \in Seq(TE) /\ ds \in Seq(TD)
    <2> HIDE DEF batch
    <2>1. QED
      BY <1>2, <1>3
  <1> HIDE DEF t, p, d, es, ds
  <1>6. /\ [s EXCEPT !.stopped = TRUE] \in States(TE, TD)
        /\ [s EXCEPT !.parallelism = p, !.drain = d, !.canOverflow = FALSE,
                     !.empty = es, !.drainToDelete = ds] \in States(TE, TD)
    BY <1>4, <1>5, StateUpdate, Zenon
  <1>7. t \in States(TE, TD)
    BY <1>1, <1>6, Zenon
  <1>8. QED
    BY <1>7 DEF t

LEMMA TakeDrainAtomicType ==
  ASSUME NEW TE, NEW TD, NEW s \in States(TE, TD), NEW b,
         NEW target \in Int, NEW current \in Int, Len(b.nodes) \in Nat,
         \A batch \in {target, current} : Bucket(b.group, b.nodes, batch) \in TD
  PROVE  TakeDrainAtomic(s, b, target, current) \in States(TE, TD)
  <1> DEFINE t == TakeDrainAtomic(s, b, target, current)
             batch == BatchSizeFor(b, target, current)
             p == s.parallelism - Len(b.nodes)
             d == s.drain - Len(b.nodes)
             ds == Append(s.drainToDelete, Bucket(b.group, b.nodes, batch))
  <1>1. \/ t = [s EXCEPT !.stopped = TRUE]
        \/ t = s
        \/ t = [s EXCEPT !.parallelism = p, !.drain = d, !.canOverflow = FALSE, !.drainToDelete = ds]
    BY Zenon DEF TakeDrainAtomic
  <1>2. batch \in {target, current}
    BY DEF BatchSizeFor
  <1>3. /\ s.parallelism \in Int /\ s.drain \in Int /\ s.drainToDelete \in Seq(TD)
        /\ s.empty \in Seq(TE)
    BY DEF States
  <1>4. p \in Int /\ d \in Int
    BY <1>3
  <1>5. ds \in Seq(TD)
    <2> HIDE DEF batch
    <2>1. QED
      BY <1>2, <1>3
  <1> HIDE DEF t, p, d, ds
  <1>6. /\ [s EXCEPT !.stopped = TRUE] \in States(TE, TD)
        /\ [s EXCEPT !.parallelism = p, !.drain = d, !.canOverflow = FALSE,
                     !.drainToDelete = ds] \in States(TE, TD)
    BY <1>3, <1>4, <1>5, StateUpdate, Zenon
  <1>7. t \in States(TE, TD)
    BY <1>1, <1>6, Zenon
  <1>8. QED
    BY <1>7 DEF t

(* The two loops over atomic groups and the crop, whatever a single step keeps. *)
LEMMA EmptyAtomicLoopType ==
  ASSUME NEW Z, NEW budgets \in Z, NEW emptyAtomic, Len(emptyAtomic) \in Nat,
         NEW drainAtomic, NEW sizes, NEW current,
         \A k \in 1 .. Len(emptyAtomic) : \A s \in Z :
           TakeEmptyAtomic(s, emptyAtomic[k], NodesIn(drainAtomic, emptyAtomic[k].group),
                           sizes[emptyAtomic[k].group], current[emptyAtomic[k].group]) \in Z
  PROVE  EmptyAtomicLoop(budgets, emptyAtomic, drainAtomic, sizes, current) \in Z
  <1> DEFINE n == Len(emptyAtomic)
             X == [k \in 0 .. n |-> Z]
             step(s, k) == TakeEmptyAtomic(s, emptyAtomic[k], NodesIn(drainAtomic, emptyAtomic[k].group),
                             sizes[emptyAtomic[k].group], current[emptyAtomic[k].group])
             F == [k \in 1 .. n |-> [s \in X[k - 1] |-> step(s, k)]]
             walk(s) == s = [k \in 0 .. n |->
               IF k = 0 THEN budgets
               ELSE TakeEmptyAtomic(s[k - 1], emptyAtomic[k], NodesIn(drainAtomic, emptyAtomic[k].group),
                                    sizes[emptyAtomic[k].group], current[emptyAtomic[k].group])]
  <1>1. ASSUME NEW k \in 1 .. n, NEW s \in X[k - 1]
        PROVE  step(s, k) \in X[k]
    <2>1. k - 1 \in 0 .. n /\ k \in 0 .. n
      OBVIOUS
    <2>2. s \in Z
      BY <2>1
    <2>3. step(s, k) \in Z
      <3> HIDE DEF X, F, walk
      <3>1. QED
        BY <2>2
    <2>4. QED
      BY <2>1, <2>3
  <1>2. n \in Nat /\ budgets \in X[0]
    OBVIOUS
  <1> HIDE DEF n, X, step
  <1>3. \A k \in 1 .. n : F[k] \in [X[k - 1] -> X[k]]
    BY <1>1
  <1>4. PICK f : Walked(n, budgets, F, f) /\ \A k \in 0 .. n : f[k] \in X[k]
    BY <1>2, <1>3, WalkExists, Zenon
  <1>5. ASSUME NEW k \in 0 .. n
        PROVE  f[k] = IF k = 0 THEN budgets ELSE step(f[k - 1], k)
    <2>1. f[k] = IF k = 0 THEN budgets ELSE F[k][f[k - 1]]
      BY <1>4, Zenon DEF Walked
    <2>2. CASE k # 0
      <3>1. k \in 1 .. n /\ k - 1 \in 0 .. n
        BY <1>2, <2>2, TurnBefore, Zenon
      <3>2. F[k][f[k - 1]] = step(f[k - 1], k)
        BY <1>4, <3>1
      <3>3. QED
        BY <2>1, <2>2, <3>2
    <2>3. QED
      BY <2>1, <2>2
  <1>6. walk(f)
    <2>1. f = [k \in 0 .. n |-> f[k]]
      BY <1>4 DEF Walked
    <2>2. QED
      BY <1>5, <2>1 DEF step
  <1> DEFINE g == CHOOSE s : walk(s)
  <1>7. EmptyAtomicLoop(budgets, emptyAtomic, drainAtomic, sizes, current) = g[n]
    BY DEF EmptyAtomicLoop, n
  <1>8. walk(g)
    <2> HIDE DEF walk
    <2>1. QED
      BY <1>6
  <1> HIDE DEF g
  <1>9. g[0] = budgets /\ \A k \in 1 .. n : g[k] = step(g[k - 1], k)
    BY <1>2, <1>8 DEF step
  <1>10. \A k \in 0 .. n : g[k] \in X[k]
    BY <1>1, <1>2, <1>9, WalkStays, Zenon
  <1>11. QED
    BY <1>2, <1>7, <1>10 DEF X

LEMMA DrainAtomicLoopType ==
  ASSUME NEW Z, NEW budgets \in Z, NEW drainAtomic, Len(drainAtomic) \in Nat,
         NEW emptyAtomic, NEW sizes, NEW current,
         \A k \in 1 .. Len(drainAtomic) : \A s \in Z : (IF HasGroup(emptyAtomic, drainAtomic[k].group) THEN s
         ELSE TakeDrainAtomic(s, drainAtomic[k], sizes[drainAtomic[k].group],
                              current[drainAtomic[k].group])) \in Z
  PROVE  DrainAtomicLoop(budgets, emptyAtomic, drainAtomic, sizes, current) \in Z
  <1> DEFINE n == Len(drainAtomic)
             X == [k \in 0 .. n |-> Z]
             step(s, k) ==
               (IF HasGroup(emptyAtomic, drainAtomic[k].group) THEN s
                ELSE TakeDrainAtomic(s, drainAtomic[k], sizes[drainAtomic[k].group],
                                     current[drainAtomic[k].group]))
             F == [k \in 1 .. n |-> [s \in X[k - 1] |-> step(s, k)]]
             walk(s) == s = [k \in 0 .. n |->
               IF k = 0 THEN budgets
               ELSE (IF HasGroup(emptyAtomic, drainAtomic[k].group) THEN s[k - 1]
                     ELSE TakeDrainAtomic(s[k - 1], drainAtomic[k], sizes[drainAtomic[k].group],
                                          current[drainAtomic[k].group]))]
  <1>1. ASSUME NEW k \in 1 .. n, NEW s \in X[k - 1]
        PROVE  step(s, k) \in X[k]
    <2>1. k - 1 \in 0 .. n /\ k \in 0 .. n
      OBVIOUS
    <2>2. s \in Z
      BY <2>1
    <2>3. step(s, k) \in Z
      <3> HIDE DEF X, F, walk
      <3>1. QED
        BY <2>2
    <2>4. QED
      BY <2>1, <2>3
  <1>2. n \in Nat /\ budgets \in X[0]
    OBVIOUS
  <1> HIDE DEF n, X, step
  <1>3. \A k \in 1 .. n : F[k] \in [X[k - 1] -> X[k]]
    BY <1>1
  <1>4. PICK f : Walked(n, budgets, F, f) /\ \A k \in 0 .. n : f[k] \in X[k]
    BY <1>2, <1>3, WalkExists, Zenon
  <1>5. ASSUME NEW k \in 0 .. n
        PROVE  f[k] = IF k = 0 THEN budgets ELSE step(f[k - 1], k)
    <2>1. f[k] = IF k = 0 THEN budgets ELSE F[k][f[k - 1]]
      BY <1>4, Zenon DEF Walked
    <2>2. CASE k # 0
      <3>1. k \in 1 .. n /\ k - 1 \in 0 .. n
        BY <1>2, <2>2, TurnBefore, Zenon
      <3>2. F[k][f[k - 1]] = step(f[k - 1], k)
        BY <1>4, <3>1
      <3>3. QED
        BY <2>1, <2>2, <3>2
    <2>3. QED
      BY <2>1, <2>2
  <1>6. walk(f)
    <2>1. f = [k \in 0 .. n |-> f[k]]
      BY <1>4 DEF Walked
    <2>2. QED
      BY <1>5, <2>1, Zenon DEF step
  <1> DEFINE g == CHOOSE s : walk(s)
  <1>7. DrainAtomicLoop(budgets, emptyAtomic, drainAtomic, sizes, current) = g[n]
    BY DEF DrainAtomicLoop, n
  <1>8. walk(g)
    <2> HIDE DEF walk
    <2>1. QED
      BY <1>6, Zenon
  <1> HIDE DEF g
  <1>9. g[0] = budgets /\ \A k \in 1 .. n : g[k] = step(g[k - 1], k)
    BY <1>2, <1>8 DEF step
  <1>10. \A k \in 0 .. n : g[k] \in X[k]
    BY <1>1, <1>2, <1>9, WalkStays, Zenon
  <1>11. QED
    BY <1>2, <1>7, <1>10 DEF X

LEMMA CropIndividualType ==
  ASSUME NEW Z, NEW budget, [left |-> budget, taken |-> <<>>] \in Z,
         NEW buckets, Len(buckets) \in Nat,
         \A k \in 1 .. Len(buckets) : \A s \in Z : CropGroup(s, buckets[k]) \in Z
  PROVE  cropIndividualNodes(buckets, budget) \in Z
  <1> DEFINE n == Len(buckets)
             X == [k \in 0 .. n |-> Z]
             step(s, k) == CropGroup(s, buckets[k])
             F == [k \in 1 .. n |-> [s \in X[k - 1] |-> step(s, k)]]
             walk(s) == s = [k \in 0 .. n |->
               IF k = 0 THEN [left |-> budget, taken |-> <<>>] ELSE CropGroup(s[k - 1], buckets[k])]
  <1>1. ASSUME NEW k \in 1 .. n, NEW s \in X[k - 1]
        PROVE  step(s, k) \in X[k]
    <2>1. k - 1 \in 0 .. n /\ k \in 0 .. n
      OBVIOUS
    <2>2. s \in Z
      BY <2>1
    <2>3. step(s, k) \in Z
      <3> HIDE DEF X, F, walk
      <3>1. QED
        BY <2>2
    <2>4. QED
      BY <2>1, <2>3
  <1>2. n \in Nat /\ [left |-> budget, taken |-> <<>>] \in X[0]
    OBVIOUS
  <1> HIDE DEF n, X, step
  <1>3. \A k \in 1 .. n : F[k] \in [X[k - 1] -> X[k]]
    BY <1>1
  <1>4. PICK f : Walked(n, [left |-> budget, taken |-> <<>>], F, f) /\ \A k \in 0 .. n : f[k] \in X[k]
    BY <1>2, <1>3, WalkExists, Zenon
  <1>5. ASSUME NEW k \in 0 .. n
        PROVE  f[k] = IF k = 0 THEN [left |-> budget, taken |-> <<>>] ELSE step(f[k - 1], k)
    <2>1. f[k] = IF k = 0 THEN [left |-> budget, taken |-> <<>>] ELSE F[k][f[k - 1]]
      BY <1>4, Zenon DEF Walked
    <2>2. CASE k # 0
      <3>1. k \in 1 .. n /\ k - 1 \in 0 .. n
        BY <1>2, <2>2, TurnBefore, Zenon
      <3>2. F[k][f[k - 1]] = step(f[k - 1], k)
        BY <1>4, <3>1
      <3>3. QED
        BY <2>1, <2>2, <3>2
    <2>3. QED
      BY <2>1, <2>2
  <1>6. walk(f)
    <2>1. f = [k \in 0 .. n |-> f[k]]
      BY <1>4 DEF Walked
    <2>2. QED
      BY <1>5, <2>1, Zenon DEF step
  <1> DEFINE g == CHOOSE s : walk(s)
  <1>7. cropIndividualNodes(buckets, budget) = g[n]
    BY DEF cropIndividualNodes, n
  <1>8. walk(g)
    <2> HIDE DEF walk
    <2>1. QED
      BY <1>6
  <1> HIDE DEF g
  <1>9. g[0] = [left |-> budget, taken |-> <<>>] /\ \A k \in 1 .. n : g[k] = step(g[k - 1], k)
    BY <1>2, <1>8 DEF step
  <1>10. \A k \in 0 .. n : g[k] \in X[k]
    BY <1>1, <1>2, <1>9, WalkStays, Zenon
  <1>11. QED
    BY <1>2, <1>7, <1>10 DEF X

-----------------------------------------------------------------------------
(* A group cut down to the budget is still a bucket of its nodes.                                  *)
LEMMA CropGroupType ==
  ASSUME NEW S, NEW P \in SUBSET S, NEW groupOf, NEW max \in Nat, NEW batches,
         NEW s \in [left : Int, taken : Seq(Taken(S, groupOf, max, batches))],
         NEW b \in Grouped(P, groupOf, max), 0 \in batches[b.group]
  PROVE  CropGroup(s, b) \in [left : Int, taken : Seq(Taken(S, groupOf, max, batches))]
  <1> DEFINE Z == Taken(S, groupOf, max, batches)
             m == Smaller(s.left, Len(b.nodes))
             nodes == SubSeq(b.nodes, 1, m)
  <1>1. Fits(b.nodes, b.group, S, groupOf, max) /\ Len(b.nodes) \in Nat
    BY GroupedFits, Zenon
  <1>2. s.left \in Int /\ s.taken \in Seq(Z)
    OBVIOUS
  <1>3. CASE s.left < 1
    BY <1>3 DEF CropGroup
  <1>4. CASE ~(s.left < 1)
    <2>1. m \in 0 .. Len(b.nodes)
      BY <1>1, <1>2, <1>4 DEF Smaller
    <2>2. nodes \in Seq(S) /\ Len(nodes) = m /\ \A k \in 1 .. m : nodes[k] = b.nodes[k]
      <3> HIDE DEF m
      <3>1. b.nodes \in Seq(S)
        BY <1>1 DEF Fits
      <3>2. QED
        BY <1>1, <2>1, <3>1
    <2> HIDE DEF m, nodes
    <2>3. Fits(nodes, b.group, S, groupOf, max)
      <3>1. Len(nodes) <= max
        BY <1>1, <2>1, <2>2 DEF Fits
      <3>2. \A k \in 1 .. Len(nodes) : groupOf[nodes[k]] = b.group
        BY <1>1, <2>1, <2>2 DEF Fits
      <3>3. QED
        BY <1>1, <2>2, <3>1, <3>2 DEF Fits
    <2>4. [b EXCEPT !.nodes = nodes] = Bucket(b.group, nodes, 0)
      BY DEF Grouped, Bucket
    <2>5. [b EXCEPT !.nodes = nodes] \in Z
      <3>1. Bucket(b.group, nodes, 0) \in Z
        BY <2>3, BucketTaken
      <3>2. QED
        BY <2>4, <3>1, Zenon
    <2>6. CropGroup(s, b) =
            [left |-> s.left - Len(nodes), taken |-> Append(s.taken, [b EXCEPT !.nodes = nodes])]
      BY <1>4, Zenon DEF CropGroup, nodes, m
    <2> DEFINE cut == [b EXCEPT !.nodes = nodes]
    <2> HIDE DEF cut, Z
    <2>7. s.left - Len(nodes) \in Int /\ Append(s.taken, cut) \in Seq(Z)
      BY <1>2, <2>1, <2>2, <2>5 DEF cut
    <2>8. CropGroup(s, b) \in [left : Int, taken : Seq(Z)]
      BY <2>6, <2>7 DEF cut
    <2>9. QED
      BY <2>8 DEF Z
  <1>5. QED
    BY <1>3, <1>4

LEMMA CropType ==
  ASSUME NEW S, NEW P \in SUBSET S, NEW groupOf, NEW max \in Nat, NEW batches,
         NEW budget \in Int, NEW buckets \in Seq(Grouped(P, groupOf, max)),
         \A g \in {groupOf[n] : n \in P} : 0 \in batches[g]
  PROVE  cropIndividualNodes(buckets, budget)
           \in [left : Int, taken : Seq(Taken(S, groupOf, max, batches))]
  <1> DEFINE Z == [left : Int, taken : Seq(Taken(S, groupOf, max, batches))]
  <1>1. [left |-> budget, taken |-> <<>>] \in Z
    OBVIOUS
  <1>2. ASSUME NEW k \in 1 .. Len(buckets), NEW s \in Z
        PROVE  CropGroup(s, buckets[k]) \in Z
    <2>1. buckets[k] \in Grouped(P, groupOf, max)
      OBVIOUS
    <2>2. 0 \in batches[buckets[k].group]
      BY <2>1 DEF Grouped
    <2>3. QED
      BY <2>1, <2>2, CropGroupType
  <1>3. Len(buckets) \in Nat
    OBVIOUS
  <1> HIDE DEF Z
  <1>4. cropIndividualNodes(buckets, budget) \in Z
    BY <1>1, <1>2, <1>3, CropIndividualType
  <1>5. QED
    BY <1>4 DEF Z

-----------------------------------------------------------------------------
(* The nodes of a list of buckets, as it grows.                                                    *)
LEMMA NodesOfAppend ==
  ASSUME NEW T, NEW list \in Seq(T), NEW b
  PROVE  NodesOf(Append(list, b)) = NodesOf(list) \cup Range(b.nodes)
  <1> DEFINE n == Len(list)
             longer == Append(list, b)
  <1>1. /\ n \in Nat /\ DOMAIN list = 1 .. n /\ DOMAIN longer = 1 .. n + 1
        /\ longer[n + 1] = b /\ \A k \in 1 .. n : longer[k] = list[k]
    OBVIOUS
  <1>2. 1 .. n + 1 = (1 .. n) \cup {n + 1}
    BY <1>1
  <1> HIDE DEF n, longer
  <1>3. NodesOf(longer) = NodesOf(list) \cup Range(b.nodes)
    BY <1>1, <1>2, Zenon DEF NodesOf
  <1>4. QED
    BY <1>3 DEF longer

LEMMA NodesOfConcat ==
  ASSUME NEW T, NEW list \in Seq(T), NEW more \in Seq(T)
  PROVE  NodesOf(list \o more) = NodesOf(list) \cup NodesOf(more)
  <1> DEFINE n == Len(list)
             m == Len(more)
             both == list \o more
  <1>1. /\ n \in Nat /\ m \in Nat /\ DOMAIN list = 1 .. n /\ DOMAIN more = 1 .. m
        /\ DOMAIN both = 1 .. n + m
        /\ \A k \in 1 .. n : both[k] = list[k]
        /\ \A k \in 1 .. m : both[n + k] = more[k]
    OBVIOUS
  <1>2. /\ \A k \in 1 .. n + m : k \in 1 .. n \/ \E i \in 1 .. m : k = n + i
        /\ \A k \in 1 .. n : k \in 1 .. n + m
        /\ \A i \in 1 .. m : n + i \in 1 .. n + m
    <2> HIDE DEF n, m
    <2>1. ASSUME NEW k \in 1 .. n + m, k \notin 1 .. n
          PROVE  k - n \in 1 .. m /\ k = n + (k - n)
      BY <1>1, <2>1
    <2>2. QED
      BY <1>1, <2>1
  <1> HIDE DEF n, m, both
  <1>3. NodesOf(both) \subseteq NodesOf(list) \cup NodesOf(more)
    <2>1. ASSUME NEW k \in 1 .. n + m, NEW x \in Range(both[k].nodes)
          PROVE  x \in NodesOf(list) \cup NodesOf(more)
      <3>1. CASE k \in 1 .. n
        BY <1>1, <2>1, <3>1, Zenon DEF NodesOf
      <3>2. CASE \E i \in 1 .. m : k = n + i
        BY <1>1, <2>1, <3>2, Zenon DEF NodesOf
      <3>3. QED
        BY <1>2, <3>1, <3>2, Zenon
    <2>2. QED
      BY <1>1, <2>1, Zenon DEF NodesOf
  <1>4. NodesOf(list) \subseteq NodesOf(both)
    BY <1>1, <1>2, Zenon DEF NodesOf
  <1>5. NodesOf(more) \subseteq NodesOf(both)
    BY <1>1, <1>2, Zenon DEF NodesOf
  <1>6. QED
    BY <1>3, <1>4, <1>5, Zenon DEF both

LEMMA RangeSize ==
  ASSUME NEW S, NEW nodes \in Seq(S)
  PROVE  IsFiniteSet(Range(nodes)) /\ Cardinality(Range(nodes)) \in 0 .. Len(nodes)
  <1>1. Len(nodes) \in Nat /\ DOMAIN nodes = 1 .. Len(nodes) /\ nodes = [k \in 1 .. Len(nodes) |-> nodes[k]]
    OBVIOUS
  <1>2. nodes \in Surjection(1 .. Len(nodes), Range(nodes))
    BY <1>1, Zenon DEF Surjection, Range
  <1>3. IsFiniteSet(1 .. Len(nodes)) /\ Cardinality(1 .. Len(nodes)) = Len(nodes)
    BY <1>1, FS_Interval
  <1>4. IsFiniteSet(Range(nodes)) /\ Cardinality(Range(nodes)) <= Cardinality(1 .. Len(nodes))
    BY <1>2, <1>3, FS_Surjection, Zenon
  <1>5. Cardinality(Range(nodes)) \in Nat
    BY <1>4, FS_CardinalityType, Zenon
  <1>6. QED
    BY <1>1, <1>3, <1>4, <1>5

(* A set that grows by the nodes of a bucket grows by no more than they are.                       *)
LEMMA GrowsBy ==
  ASSUME NEW S, NEW nodes \in Seq(S), NEW A, IsFiniteSet(A), NEW bound \in Int, Cardinality(A) <= bound
  PROVE  /\ IsFiniteSet(A \cup Range(nodes))
         /\ Cardinality(A \cup Range(nodes)) <= bound + Len(nodes)
  <1>1. /\ IsFiniteSet(Range(nodes)) /\ Cardinality(Range(nodes)) \in 0 .. Len(nodes)
        /\ Len(nodes) \in Nat
    BY RangeSize
  <1>2. /\ IsFiniteSet(A \cup Range(nodes)) /\ Cardinality(A) \in Nat
        /\ Cardinality(A \cup Range(nodes)) =
             Cardinality(A) + Cardinality(Range(nodes)) - Cardinality(A \cap Range(nodes))
    BY <1>1, FS_Union, FS_CardinalityType, Zenon
  <1>3. Cardinality(A \cap Range(nodes)) \in Nat
    BY FS_Intersection, FS_CardinalityType, Zenon
  <1>4. QED
    BY <1>1, <1>2, <1>3

(* The nodes taken by the loops of CropNodes are what the budgets have lost, where e and d are the *)
(* numbers of deletions in progress.                                                               *)
Within(s, e, d) ==
  /\ IsFiniteSet(NodesOf(s.empty) \cup NodesOf(s.drainToDelete))
  /\ IsFiniteSet(NodesOf(s.drainToDelete))
  /\ Cardinality(NodesOf(s.empty) \cup NodesOf(s.drainToDelete))
       <= MaxScaleDownParallelism - e - d - s.parallelism
  /\ Cardinality(NodesOf(s.drainToDelete)) <= MaxDrainParallelism - d - s.drain

LEMMA WithinStays ==
  ASSUME NEW TE, NEW TD, NEW s \in States(TE, TD), NEW e \in Int, NEW d \in Int, Within(s, e, d),
         NEW lower \in Int, lower <= s.drain
  PROVE  /\ Within([s EXCEPT !.stopped = TRUE], e, d)
         /\ Within([s EXCEPT !.drain = lower, !.stopped = FALSE], e, d)
  <1> DEFINE t == [s EXCEPT !.stopped = TRUE]
             u == [s EXCEPT !.drain = lower, !.stopped = FALSE]
             drained == Cardinality(NodesOf(s.drainToDelete))
  <1>1. /\ t.empty = s.empty /\ t.drainToDelete = s.drainToDelete
        /\ t.parallelism = s.parallelism /\ t.drain = s.drain
        /\ u.empty = s.empty /\ u.drainToDelete = s.drainToDelete
        /\ u.parallelism = s.parallelism /\ u.drain = lower
    BY Zenon DEF States
  <1>2. s.drain \in Int /\ MaxDrainParallelism \in Nat
    BY BudgetAssumption DEF States
  <1>3. drained \in Nat
    BY FS_CardinalityType, Zenon DEF Within
  <1>4. drained <= MaxDrainParallelism - d - s.drain
    BY Zenon DEF Within
  <1> HIDE DEF t, u
  <1>5. drained <= MaxDrainParallelism - d - lower
    <2> HIDE DEF drained
    <2>1. QED
      BY <1>2, <1>3, <1>4
  <1>6. Within(t, e, d)
    BY <1>1, Zenon DEF Within
  <1>7. Within(u, e, d)
    BY <1>1, <1>5, Zenon DEF Within
  <1>8. QED
    BY <1>6, <1>7 DEF t, u

(* A bucket of nodes to drain, and one of empty nodes, at the cost of as much of the budgets.      *)
LEMMA WithinTaken ==
  ASSUME NEW TE, NEW TD, NEW s \in States(TE, TD), NEW e \in Int, NEW d \in Int, Within(s, e, d),
         NEW S, NEW nodes \in Seq(S), NEW drainNodes \in Seq(S), NEW t,
         t.parallelism = s.parallelism - (Len(nodes) + Len(drainNodes)),
         t.drain = s.drain - Len(drainNodes),
         NodesOf(t.empty) = NodesOf(s.empty) \cup Range(nodes),
         NodesOf(t.drainToDelete) = NodesOf(s.drainToDelete) \cup Range(drainNodes)
  PROVE  Within(t, e, d)
  <1> DEFINE D == NodesOf(s.drainToDelete)
             A == NodesOf(s.empty) \cup D
             x == Len(nodes)
             y == Len(drainNodes)
             roomAll == MaxScaleDownParallelism - e - d - s.parallelism
             roomDrain == MaxDrainParallelism - d - s.drain
  <1>1. /\ s.drain \in Int /\ s.parallelism \in Int /\ x \in Nat /\ y \in Nat
        /\ MaxDrainParallelism \in Nat /\ MaxScaleDownParallelism \in Nat
    BY BudgetAssumption DEF States
  <1>2. roomAll \in Int /\ roomDrain \in Int
    BY <1>1
  <1>3. /\ MaxScaleDownParallelism - e - d - t.parallelism = roomAll + x + y
        /\ MaxDrainParallelism - d - t.drain = roomDrain + y
    BY <1>1
  <1>4. /\ IsFiniteSet(A) /\ Cardinality(A) <= roomAll
        /\ IsFiniteSet(D) /\ Cardinality(D) <= roomDrain
    BY Zenon DEF Within
  <1> HIDE DEF A, D, roomAll, roomDrain
  <1>5. /\ IsFiniteSet(D \cup Range(drainNodes))
        /\ Cardinality(D \cup Range(drainNodes)) <= roomDrain + y
    BY <1>2, <1>4, GrowsBy, Zenon
  <1>6. IsFiniteSet(A \cup Range(nodes)) /\ Cardinality(A \cup Range(nodes)) <= roomAll + x
    BY <1>2, <1>4, GrowsBy, Zenon
  <1>7. roomAll + x \in Int
    BY <1>1, <1>2
  <1>8. /\ IsFiniteSet((A \cup Range(nodes)) \cup Range(drainNodes))
        /\ Cardinality((A \cup Range(nodes)) \cup Range(drainNodes)) <= roomAll + x + y
    BY <1>6, <1>7, GrowsBy, Zenon
  <1>9. NodesOf(t.empty) \cup NodesOf(t.drainToDelete) = (A \cup Range(nodes)) \cup Range(drainNodes)
    BY Zenon DEF A, D
  <1>10. NodesOf(t.drainToDelete) = D \cup Range(drainNodes)
    BY DEF D
  <1>11. QED
    BY <1>3, <1>5, <1>8, <1>9, <1>10, Zenon DEF Within

LEMMA EmptyRange == Range(<<>>) = {}
  BY DEF Range

LEMMA TakeEmptyAtomicWithin ==
  ASSUME NEW TE, NEW TD, NEW s \in States(TE, TD), NEW e \in Int, NEW d \in Int, Within(s, e, d),
         NEW S, NEW b, b.nodes \in Seq(S), NEW drainNodes \in Seq(S), NEW target, NEW current
  PROVE  Within(TakeEmptyAtomic(s, b, drainNodes, target, current), e, d)
  <1> DEFINE t == TakeEmptyAtomic(s, b, drainNodes, target, current)
             batch == BatchSizeFor(b, target, current)
             p == s.parallelism - (Len(b.nodes) + Len(drainNodes))
             q == s.drain - Len(drainNodes)
             es == Append(s.empty, Bucket(b.group, b.nodes, batch))
             ds == IF drainNodes = <<>> THEN s.drainToDelete
                   ELSE Append(s.drainToDelete, Bucket(b.group, drainNodes, batch))
             u == [s EXCEPT !.parallelism = p, !.drain = q, !.canOverflow = FALSE,
                            !.empty = es, !.drainToDelete = ds]
  <1>1. t = [s EXCEPT !.stopped = TRUE] \/ t = s \/ t = u
    BY Zenon DEF TakeEmptyAtomic
  <1>2. s.drain \in Int /\ s.empty \in Seq(TE) /\ s.drainToDelete \in Seq(TD)
    BY DEF States
  <1>3. NodesOf(es) = NodesOf(s.empty) \cup Range(b.nodes)
    <2>1. Bucket(b.group, b.nodes, batch).nodes = b.nodes
      BY Zenon DEF Bucket
    <2> HIDE DEF batch
    <2>2. QED
      BY <1>2, <2>1, NodesOfAppend, Zenon
  <1>4. NodesOf(ds) = NodesOf(s.drainToDelete) \cup Range(drainNodes)
    <2>1. Bucket(b.group, drainNodes, batch).nodes = drainNodes
      BY Zenon DEF Bucket
    <2> HIDE DEF batch
    <2>2. CASE drainNodes = <<>>
      BY <2>2, EmptyRange, Zenon
    <2>3. CASE drainNodes # <<>>
      BY <1>2, <2>1, <2>3, NodesOfAppend, Zenon
    <2>4. QED
      BY <2>2, <2>3
  <1> HIDE DEF es, ds, p, q
  <1>5. u.parallelism = p /\ u.drain = q /\ u.empty = es /\ u.drainToDelete = ds
    BY Zenon DEF States
  <1> HIDE DEF t, u
  <1>6. Within(u, e, d)
    BY <1>3, <1>4, <1>5, WithinTaken, Zenon DEF p, q
  <1>7. Within([s EXCEPT !.stopped = TRUE], e, d)
    <2>1. s.drain <= s.drain
      BY <1>2
    <2>2. QED
      BY <1>2, <2>1, WithinStays, Zenon
  <1>8. QED
    BY <1>1, <1>6, <1>7, Zenon DEF t

LEMMA TakeDrainAtomicWithin ==
  ASSUME NEW TE, NEW TD, NEW s \in States(TE, TD), NEW e \in Int, NEW d \in Int, Within(s, e, d),
         NEW S, NEW b, b.nodes \in Seq(S), NEW target, NEW current
  PROVE  Within(TakeDrainAtomic(s, b, target, current), e, d)
  <1> DEFINE t == TakeDrainAtomic(s, b, target, current)
             batch == BatchSizeFor(b, target, current)
             p == s.parallelism - Len(b.nodes)
             q == s.drain - Len(b.nodes)
             ds == Append(s.drainToDelete, Bucket(b.group, b.nodes, batch))
             u == [s EXCEPT !.parallelism = p, !.drain = q, !.canOverflow = FALSE, !.drainToDelete = ds]
  <1>1. t = [s EXCEPT !.stopped = TRUE] \/ t = s \/ t = u
    BY Zenon DEF TakeDrainAtomic
  <1>2. /\ s.drain \in Int /\ s.parallelism \in Int /\ s.drainToDelete \in Seq(TD)
        /\ Len(b.nodes) \in Nat /\ <<>> \in Seq(S) /\ Len(<<>>) = 0
    BY DEF States
  <1>3. NodesOf(ds) = NodesOf(s.drainToDelete) \cup Range(b.nodes)
    <2>1. Bucket(b.group, b.nodes, batch).nodes = b.nodes
      BY Zenon DEF Bucket
    <2> HIDE DEF batch
    <2>2. QED
      BY <1>2, <2>1, NodesOfAppend, Zenon
  <1>4. p = s.parallelism - (Len(<<>>) + Len(b.nodes))
    BY <1>2
  <1> HIDE DEF ds, p, q
  <1>5. u.parallelism = p /\ u.drain = q /\ u.empty = s.empty /\ u.drainToDelete = ds
    BY Zenon DEF States
  <1> HIDE DEF t, u
  <1>6. NodesOf(u.empty) = NodesOf(s.empty) \cup Range(<<>>)
    BY <1>5, EmptyRange, Zenon
  <1>7. Within(u, e, d)
    BY <1>2, <1>3, <1>4, <1>5, <1>6, WithinTaken, Zenon DEF q
  <1>8. Within([s EXCEPT !.stopped = TRUE], e, d)
    <2>1. s.drain <= s.drain
      BY <1>2
    <2>2. QED
      BY <1>2, <2>1, WithinStays, Zenon
  <1>9. QED
    BY <1>1, <1>7, <1>8, Zenon DEF t

(* What cropIndividualNodes has taken is what the budget has lost, and never more than it was.     *)
Cut(c, budget) ==
  /\ IsFiniteSet(NodesOf(c.taken))
  /\ Cardinality(NodesOf(c.taken)) <= budget - c.left
  /\ c.taken # <<>> => c.left >= 0

LEMMA CropGroupCut ==
  ASSUME NEW S, NEW groupOf, NEW max, NEW TT, NEW c \in [left : Int, taken : Seq(TT)],
         NEW b \in Grouped(S, groupOf, max), NEW budget \in Int, Cut(c, budget)
  PROVE  Cut(CropGroup(c, b), budget)
  <1> DEFINE m == Smaller(c.left, Len(b.nodes))
             nodes == SubSeq(b.nodes, 1, m)
             cut == [b EXCEPT !.nodes = nodes]
             new == [left |-> c.left - Len(nodes), taken |-> Append(c.taken, cut)]
  <1>1. c.left \in Int /\ c.taken \in Seq(TT)
    OBVIOUS
  <1>2. b.nodes \in Seq(S)
    BY DEF Grouped
  <1>3. Len(b.nodes) \in Nat
    BY <1>2
  <1>4. CASE c.left < 1
    <2>1. CropGroup(c, b) = c
      BY <1>4 DEF CropGroup
    <2>2. QED
      BY <2>1
  <1>5. CASE ~(c.left < 1)
    <2>1. m \in 0 .. Len(b.nodes) /\ m <= c.left
      BY <1>1, <1>3, <1>5 DEF Smaller
    <2>2. nodes \in Seq(S) /\ Len(nodes) = m
      <3> HIDE DEF m
      <3>1. QED
        BY <1>2, <1>3, <2>1
    <2>3. cut.nodes = nodes
      BY Zenon DEF Grouped
    <2>4. CropGroup(c, b) = new
      BY <1>5, Zenon DEF CropGroup
    <2>5. new.left = c.left - Len(nodes) /\ new.taken = Append(c.taken, cut)
      BY Zenon
    <2> HIDE DEF cut, nodes, m, new
    <2>6. NodesOf(new.taken) = NodesOf(c.taken) \cup Range(nodes)
      BY <1>1, <2>3, <2>5, NodesOfAppend, Zenon
    <2>7. /\ IsFiniteSet(NodesOf(c.taken)) /\ Cardinality(NodesOf(c.taken)) <= budget - c.left
          /\ budget - c.left \in Int
      BY <1>1 DEF Cut
    <2>8. /\ IsFiniteSet(NodesOf(new.taken))
          /\ Cardinality(NodesOf(new.taken)) <= budget - c.left + Len(nodes)
      BY <2>2, <2>6, <2>7, GrowsBy, Zenon
    <2>9. budget - c.left + Len(nodes) = budget - new.left /\ new.left >= 0
      BY <1>1, <1>3, <2>1, <2>2, <2>5
    <2>10. QED
      BY <2>4, <2>8, <2>9, Zenon DEF Cut
  <1>6. QED
    BY <1>4, <1>5

LEMMA CropCut ==
  ASSUME NEW P, NEW groupOf, NEW max \in Nat,
         NEW budget \in Int, NEW buckets \in Seq(Grouped(P, groupOf, max))
  PROVE  Cut(cropIndividualNodes(buckets, budget), budget)
  <1> DEFINE batches == [g \in {groupOf[n] : n \in P} |-> {0}]
             TT == Taken(P, groupOf, max, batches)
             Z == {c \in [left : Int, taken : Seq(TT)] : Cut(c, budget)}
             start == [left |-> budget, taken |-> <<>>]
  <1>1. start \in Z
    <2>1. start \in [left : Int, taken : Seq(TT)] /\ start.taken = <<>> /\ start.left = budget
      OBVIOUS
    <2>2. NodesOf(<<>>) = {}
      BY DEF NodesOf
    <2>3. IsFiniteSet({}) /\ Cardinality({}) = 0
      BY FS_EmptySet
    <2>4. 0 <= budget - budget
      OBVIOUS
    <2> HIDE DEF start, TT
    <2>5. Cut(start, budget)
      BY <2>1, <2>2, <2>3, <2>4, Zenon DEF Cut
    <2>6. QED
      BY <2>1, <2>5
  <1>2. ASSUME NEW k \in 1 .. Len(buckets), NEW c \in Z
        PROVE  CropGroup(c, buckets[k]) \in Z
    <2>1. buckets[k] \in Grouped(P, groupOf, max) /\ P \in SUBSET P
      OBVIOUS
    <2>2. 0 \in batches[buckets[k].group]
      BY <2>1 DEF Grouped
    <2> HIDE DEF batches
    <2>3. CropGroup(c, buckets[k]) \in [left : Int, taken : Seq(TT)]
      BY <2>1, <2>2, CropGroupType, Zenon
    <2> HIDE DEF TT
    <2>4. Cut(CropGroup(c, buckets[k]), budget)
      BY <2>1, CropGroupCut, Zenon
    <2>5. QED
      BY <2>3, <2>4, Zenon
  <1>3. Len(buckets) \in Nat
    OBVIOUS
  <1> HIDE DEF Z
  <1>4. cropIndividualNodes(buckets, budget) \in Z
    BY <1>1, <1>2, <1>3, CropIndividualType, Zenon
  <1>5. QED
    BY <1>4, Zenon DEF Z

(* Buckets hold nodes of the set they were taken from.                                             *)
LEMMA TakenNodes ==
  ASSUME NEW S, NEW groupOf, NEW max, NEW batches, NEW list \in Seq(Taken(S, groupOf, max, batches))
  PROVE  NodesOf(list) \subseteq S
  <1>1. ASSUME NEW k \in DOMAIN list
        PROVE  Range(list[k].nodes) \subseteq S
    <2>1. list[k] \in Taken(S, groupOf, max, batches)
      OBVIOUS
    <2>2. list[k].nodes \in Seq(S)
      BY <2>1 DEF Taken, Fits
    <2>3. QED
      BY <2>2 DEF Range
  <1>2. QED
    BY <1>1, Zenon DEF NodesOf

LEMMA TakenFromMore ==
  ASSUME NEW S, NEW P \in SUBSET S, NEW groupOf, NEW max, NEW batches,
         NEW list \in Seq(Taken(P, groupOf, max, batches))
  PROVE  list \in Seq(Taken(S, groupOf, max, batches))
  <1>1. ASSUME NEW b \in Taken(P, groupOf, max, batches)
        PROVE  b \in Taken(S, groupOf, max, batches)
    <2> DEFINE G(U) == {groupOf[n] : n \in U}
    <2>1. /\ b \in [group : G(P), nodes : Seq(P), BatchSize : Int]
          /\ Fits(b.nodes, b.group, P, groupOf, max) /\ b.BatchSize \in batches[b.group]
      BY DEF Taken
    <2>2. G(P) \subseteq G(S) /\ Seq(P) \subseteq Seq(S)
      OBVIOUS
    <2> HIDE DEF G
    <2>3. b \in [group : G(S), nodes : Seq(S), BatchSize : Int]
      BY <2>1, <2>2
    <2>4. Fits(b.nodes, b.group, S, groupOf, max)
      BY <2>1, <2>2, Zenon DEF Fits, G
    <2>5. QED
      BY <2>1, <2>3, <2>4, Zenon DEF Taken, G
  <1>2. QED
    BY <1>1

(* Nodes outside atomic groups are only taken within both budgets.                                 *)
KeepsBudgets(crop, e, d, groupOf, atomicGroups) ==
  LET drained == NodesOf(crop.drain)
      all == NodesOf(crop.empty) \cup drained
  IN  /\ (\E n \in all : groupOf[n] \notin atomicGroups)
           => e + d + Cardinality(all) <= MaxScaleDownParallelism
      /\ (\E n \in drained : groupOf[n] \notin atomicGroups)
           => d + Cardinality(drained) <= MaxDrainParallelism

(* What is left of two budgets.                                                                    *)
LEMMA SmallerOfBoth ==
  ASSUME NEW a \in Int, NEW b \in Int
  PROVE  Smaller(a, b) \in Int /\ Smaller(a, b) <= a /\ Smaller(a, b) <= b
  BY DEF Smaller

(* What the loops over atomic groups (a) and the two crops (x and y) have taken fits a budget if   *)
(* something is left of it, or nothing was needed, after the last of them.                         *)
LEMMA SumsFit ==
  ASSUME NEW max \in Int, NEW e \in Int, NEW d \in Int, NEW a \in Int, NEW x \in Int, NEW y \in Int,
         NEW p \in Int, NEW l \in Int, NEW m \in Int, NEW r \in Int,
         a <= max - e - d - p, x <= p - l, y <= m - r, m <= l,
         r >= 0 \/ (y = 0 /\ l >= 0)
  PROVE  e + d + (a + x + y) <= max
  OBVIOUS

LEMMA SumFits ==
  ASSUME NEW max \in Int, NEW d \in Int, NEW a \in Int, NEW y \in Int,
         NEW p \in Int, NEW m \in Int, NEW r \in Int,
         a <= max - d - p, y <= m - r, m <= p, r >= 0
  PROVE  d + (a + y) <= max
  OBVIOUS

LEMMA AtMostTwice ==
  ASSUME NEW a \in Nat, NEW x \in Nat, NEW y \in Nat, NEW b \in Nat, NEW c \in Nat,
         b <= a + x, c <= b + y
  PROVE  c <= a + x + y
  OBVIOUS

LEMMA UnionAtMost ==
  ASSUME NEW S, NEW T, IsFiniteSet(S), IsFiniteSet(T)
  PROVE  /\ IsFiniteSet(S \cup T) /\ Cardinality(S \cup T) \in Nat
         /\ Cardinality(S \cup T) <= Cardinality(S) + Cardinality(T)
  <1>1. /\ IsFiniteSet(S \cup T)
        /\ Cardinality(S \cup T) = Cardinality(S) + Cardinality(T) - Cardinality(S \cap T)
    BY FS_Union, Zenon
  <1>2. /\ Cardinality(S) \in Nat /\ Cardinality(T) \in Nat /\ Cardinality(S \cup T) \in Nat
        /\ Cardinality(S \cap T) \in Nat
    BY <1>1, FS_Intersection, FS_CardinalityType, Zenon
  <1>3. QED
    BY <1>1, <1>2

LEMMA FirstBudgets ==
  ASSUME NEW e \in Int, NEW d \in Int
  PROVE  /\ MaxScaleDownParallelism - e - d \in Int /\ MaxDrainParallelism - d \in Int
         /\ MaxScaleDownParallelism - e - d - (MaxScaleDownParallelism - e - d) = 0
         /\ MaxDrainParallelism - d - (MaxDrainParallelism - d) = 0
  BY BudgetAssumption

LEMMA EmptyList == \A T : <<>> \in Seq(T)
  OBVIOUS

LEMMA TwoLists ==
  ASSUME NEW c, NEW p, NEW q, c = [empty |-> p, drain |-> q]
  PROVE  c.empty = p /\ c.drain = q /\ c = [empty |-> c.empty, drain |-> c.drain]
  OBVIOUS

(* The budgets, from what the loops over atomic groups (s) and the two crops have taken.           *)
LEMMA BudgetsAdd ==
  ASSUME NEW TE, NEW TD, NEW s \in States(TE, TD), NEW e \in Int, NEW d \in Int, Within(s, e, d),
         NEW ce \in [left : Int, taken : Seq(TE)], Cut(ce, s.parallelism),
         NEW cd \in [left : Int, taken : Seq(TD)], Cut(cd, Smaller(ce.left, s.drain)),
         NEW groupOf, NEW atomicGroups,
         \A n \in NodesOf(s.empty) \cup NodesOf(s.drainToDelete) : groupOf[n] \in atomicGroups,
         NEW crop, crop.empty = s.empty \o ce.taken, crop.drain = s.drainToDelete \o cd.taken
  PROVE  KeepsBudgets(crop, e, d, groupOf, atomicGroups)
  <1> DEFINE E == NodesOf(ce.taken)
             D == NodesOf(cd.taken)
             A == NodesOf(s.empty) \cup NodesOf(s.drainToDelete)
             AD == NodesOf(s.drainToDelete)
  <1>1. /\ s.parallelism \in Int /\ s.drain \in Int /\ s.empty \in Seq(TE) /\ s.drainToDelete \in Seq(TD)
        /\ ce.left \in Int /\ ce.taken \in Seq(TE) /\ cd.left \in Int /\ cd.taken \in Seq(TD)
        /\ MaxScaleDownParallelism \in Nat /\ MaxDrainParallelism \in Nat
    BY BudgetAssumption DEF States
  <1>2. NodesOf(crop.empty) = NodesOf(s.empty) \cup E /\ NodesOf(crop.drain) = AD \cup D
    <2>0. /\ \A p, q \in Seq(TE) : NodesOf(p \o q) = NodesOf(p) \cup NodesOf(q)
          /\ \A p, q \in Seq(TD) : NodesOf(p \o q) = NodesOf(p) \cup NodesOf(q)
      BY NodesOfConcat, Zenon
    <2>1. NodesOf(s.empty \o ce.taken) = NodesOf(s.empty) \cup NodesOf(ce.taken)
      BY <1>1, <2>0, Zenon
    <2>2. NodesOf(s.drainToDelete \o cd.taken) = NodesOf(s.drainToDelete) \cup NodesOf(cd.taken)
      BY <1>1, <2>0, Zenon
    <2>3. QED
      BY <2>1, <2>2, Zenon
  <1>3. /\ IsFiniteSet(A) /\ Cardinality(A) <= MaxScaleDownParallelism - e - d - s.parallelism
        /\ IsFiniteSet(AD) /\ Cardinality(AD) <= MaxDrainParallelism - d - s.drain
    BY Zenon DEF Within
  <1>4. /\ IsFiniteSet(E) /\ Cardinality(E) <= s.parallelism - ce.left
        /\ ce.taken # <<>> => ce.left >= 0
    BY Zenon DEF Cut
  <1>5. /\ IsFiniteSet(D) /\ Cardinality(D) <= Smaller(ce.left, s.drain) - cd.left
        /\ cd.taken # <<>> => cd.left >= 0
    BY Zenon DEF Cut
  <1>6. /\ ce.taken = <<>> => E = {}
        /\ cd.taken = <<>> => D = {}
    BY DEF NodesOf
  <1>7. NodesOf(crop.empty) \cup NodesOf(crop.drain) = (A \cup E) \cup D
    BY <1>2, Zenon
  <1>8. \A n \in A : groupOf[n] \in atomicGroups
    BY Zenon
  <1>9. AD \subseteq A
    OBVIOUS
  <1> HIDE DEF A, AD, E, D
  <1> DEFINE a == Cardinality(A)
             ad == Cardinality(AD)
             x == Cardinality(E)
             y == Cardinality(D)
  <1>10. a \in Nat /\ ad \in Nat /\ x \in Nat /\ y \in Nat
    BY <1>3, <1>4, <1>5, FS_CardinalityType, Zenon
  <1>11. /\ Cardinality((A \cup E) \cup D) \in Nat /\ Cardinality((A \cup E) \cup D) <= a + x + y
         /\ Cardinality(AD \cup D) \in Nat /\ Cardinality(AD \cup D) <= ad + y
    <2>1. /\ IsFiniteSet(A \cup E) /\ Cardinality(A \cup E) \in Nat
          /\ Cardinality(A \cup E) <= a + x
      BY <1>3, <1>4, UnionAtMost, Zenon
    <2>2. /\ Cardinality((A \cup E) \cup D) \in Nat
          /\ Cardinality((A \cup E) \cup D) <= Cardinality(A \cup E) + y
      BY <1>5, <2>1, UnionAtMost, Zenon
    <2>3. Cardinality(AD \cup D) \in Nat /\ Cardinality(AD \cup D) <= ad + y
      BY <1>3, <1>5, UnionAtMost, Zenon
    <2> DEFINE ae == Cardinality(A \cup E)
               all == Cardinality((A \cup E) \cup D)
    <2>4. ae \in Nat /\ all \in Nat /\ ae <= a + x /\ all <= ae + y
      BY <2>1, <2>2, Zenon
    <2> HIDE DEF a, ad, x, y, ae, all
    <2>5. all <= a + x + y
      BY <1>10, <2>4, AtMostTwice, Zenon
    <2>6. QED
      BY <2>2, <2>3, <2>5, Zenon DEF all
  <1>12. /\ Smaller(ce.left, s.drain) \in Int
         /\ Smaller(ce.left, s.drain) <= ce.left /\ Smaller(ce.left, s.drain) <= s.drain
    BY <1>1, SmallerOfBoth, Zenon
  <1>13. (E = {} => x = 0) /\ (D = {} => y = 0)
    BY FS_EmptySet, Zenon
  <1> DEFINE m == Smaller(ce.left, s.drain)
  <1>bounds. /\ a <= MaxScaleDownParallelism - e - d - s.parallelism /\ x <= s.parallelism - ce.left
             /\ ad <= MaxDrainParallelism - d - s.drain
             /\ y <= m - cd.left /\ m <= ce.left /\ m <= s.drain /\ m \in Int
    BY <1>3, <1>4, <1>5, <1>12, Zenon
  <1> HIDE DEF a, ad, x, y, m
  <1>ints. /\ a \in Int /\ ad \in Int /\ x \in Int /\ y \in Int
           /\ MaxScaleDownParallelism \in Int /\ MaxDrainParallelism \in Int
    BY <1>1, <1>10
  <1>14. ASSUME ce.taken # <<>> \/ cd.taken # <<>>
         PROVE  e + d + (a + x + y) <= MaxScaleDownParallelism
    <2>1. cd.left >= 0 \/ (y = 0 /\ ce.left >= 0)
      BY <1>4, <1>5, <1>6, <1>13, <1>14, Zenon
    <2>2. QED
      BY <1>1, <1>bounds, <1>ints, <2>1, SumsFit, Zenon
  <1>15. ASSUME cd.taken # <<>>
         PROVE  d + (ad + y) <= MaxDrainParallelism
    <2>1. cd.left >= 0
      BY <1>5, <1>15, Zenon
    <2>2. QED
      BY <1>1, <1>bounds, <1>ints, <2>1, SumFits, Zenon
  <1>16. ASSUME NEW n \in (A \cup E) \cup D, groupOf[n] \notin atomicGroups
         PROVE  e + d + Cardinality((A \cup E) \cup D) <= MaxScaleDownParallelism
    <2>1. ce.taken # <<>> \/ cd.taken # <<>>
      BY <1>6, <1>8, <1>16, Zenon
    <2>2. e + d + (a + x + y) <= MaxScaleDownParallelism
      BY <1>14, <2>1, Zenon
    <2>3. QED
      BY <1>1, <1>10, <1>11, <2>2
  <1>17. ASSUME NEW n \in AD \cup D, groupOf[n] \notin atomicGroups
         PROVE  d + Cardinality(AD \cup D) <= MaxDrainParallelism
    <2>1. cd.taken # <<>>
      BY <1>6, <1>8, <1>9, <1>17, Zenon
    <2>2. d + (ad + y) <= MaxDrainParallelism
      BY <1>15, <2>1
    <2>3. QED
      BY <1>1, <1>10, <1>11, <2>2
  <1>18. QED
    BY <1>2, <1>7, <1>16, <1>17, Zenon DEF KeepsBudgets

LEMMA EntryOf ==
  ASSUME NEW S, NEW s \in Seq(S), NEW k \in 1 .. Len(s)
  PROVE  s[k] \in S
  OBVIOUS

LEMMA SeqsWiden ==
  ASSUME NEW P, NEW Q
  PROVE  /\ Seq(P) \subseteq Seq(P \cup Q) /\ Seq(Q) \subseteq Seq(P \cup Q)
         /\ <<>> \in Seq(P \cup Q)
  OBVIOUS

(* What CropNodes returns: buckets of the nodes it was offered, whose batch sizes are out of       *)
(* batches[g] if the sizes of atomic groups are, and 0 for the others, within the budgets.         *)
LEMMA CropNodesTakes ==
  ASSUME NEW T, NEW order \in Seq(T), NEW empty, NEW drain, NEW groupOf, NEW atomicGroups,
         NEW sizes, NEW current, NEW batches, NEW e \in Int, NEW d \in Int,
         \A g \in {groupOf[n] : n \in empty \cup drain} :
           /\ g \in atomicGroups => /\ sizes[g] \in Int /\ sizes[g] \in batches[g]
                                    /\ current[g] \in Int /\ current[g] \in batches[g]
           /\ g \notin atomicGroups => 0 \in batches[g],
         NEW crop, crop = CropNodes(e, d, order, empty, drain, groupOf, atomicGroups, sizes, current)
  PROVE  /\ crop = [empty |-> crop.empty, drain |-> crop.drain]
         /\ crop.empty \in Seq(Taken(empty, groupOf, Len(order), batches))
         /\ crop.drain \in Seq(Taken(drain, groupOf, Len(order), batches))
         /\ KeepsBudgets(crop, e, d, groupOf, atomicGroups)
  <1> DEFINE max == Len(order)
             part(S, isAtomic) == categorize(S, groupOf, atomicGroups, isAtomic)
             buckets(S, isAtomic) == group(order, part(S, isAtomic), groupOf)
             EA == buckets(empty, TRUE)
             DA == buckets(drain, TRUE)
             PE == part(empty, TRUE)
             PD == part(drain, TRUE)
             TE == Taken(PE, groupOf, max, batches)
             TD == Taken(PD, groupOf, max, batches)
             Z == {s \in States(TE, TD) : Within(s, e, d)}
             s1 == EmptyAtomicLoop(Budgets(e, d), EA, DA, sizes, current)
             mid == [s1 EXCEPT !.drain = Smaller(s1.parallelism, s1.drain), !.stopped = FALSE]
             s2 == DrainAtomicLoop(mid, EA, DA, sizes, current)
             ce == cropIndividualNodes(buckets(empty, FALSE), s2.parallelism)
             cd == cropIndividualNodes(buckets(drain, FALSE), Smaller(ce.left, s2.drain))
  <1>1. crop = [empty |-> s2.empty \o ce.taken, drain |-> s2.drainToDelete \o cd.taken]
    BY Zenon DEF CropNodes
  <1>2. max \in Nat
    OBVIOUS
  <1>3. ASSUME NEW S, NEW isAtomic
        PROVE  /\ part(S, isAtomic) \in SUBSET S
               /\ buckets(S, isAtomic) \in Seq(Grouped(part(S, isAtomic), groupOf, max))
    <2>1. part(S, isAtomic) \in SUBSET S
      BY Zenon DEF categorize
    <2> HIDE DEF part
    <2>2. QED
      BY <2>1, GroupType, Zenon
  <1>4. /\ \A n \in PE : n \in empty /\ groupOf[n] \in atomicGroups
        /\ \A n \in PD : n \in drain /\ groupOf[n] \in atomicGroups
        /\ \A n \in part(empty, FALSE) : n \in empty /\ groupOf[n] \notin atomicGroups
        /\ \A n \in part(drain, FALSE) : n \in drain /\ groupOf[n] \notin atomicGroups
    BY DEF categorize
  <1>5. /\ EA \in Seq(Grouped(PE, groupOf, max)) /\ PE \in SUBSET empty
        /\ DA \in Seq(Grouped(PD, groupOf, max)) /\ PD \in SUBSET drain
    BY <1>3, Zenon
  <1>6. /\ buckets(empty, FALSE) \in Seq(Grouped(part(empty, FALSE), groupOf, max))
        /\ buckets(drain, FALSE) \in Seq(Grouped(part(drain, FALSE), groupOf, max))
        /\ part(empty, FALSE) \in SUBSET empty /\ part(drain, FALSE) \in SUBSET drain
    BY <1>3, Zenon
  <1>7. /\ \A g \in {groupOf[n] : n \in PE} \cup {groupOf[n] : n \in PD} :
             /\ sizes[g] \in Int /\ sizes[g] \in batches[g]
             /\ current[g] \in Int /\ current[g] \in batches[g]
        /\ \A g \in {groupOf[n] : n \in part(empty, FALSE)} \cup {groupOf[n] : n \in part(drain, FALSE)} :
             0 \in batches[g]
    <2> HIDE DEF part, PE, PD
    <2>1. QED
      BY <1>4, Zenon
  <1> HIDE DEF EA, DA, PE, PD, max
  <1>8. Budgets(e, d) \in Z
    <2> DEFINE s0 == Budgets(e, d)
    <2>1. /\ MaxScaleDownParallelism - e - d \in Int /\ MaxDrainParallelism - d \in Int
          /\ <<>> \in Seq(TE) /\ <<>> \in Seq(TD)
      BY FirstBudgets, EmptyList, Zenon
    <2>2. /\ MaxScaleDownParallelism - e - d - (MaxScaleDownParallelism - e - d) = 0
          /\ MaxDrainParallelism - d - (MaxDrainParallelism - d) = 0
      BY FirstBudgets, Zenon
    <2> HIDE DEF TE, TD
    <2>3. s0 \in States(TE, TD)
      BY <2>1, Zenon DEF Budgets, States
    <2>4. /\ s0.empty = <<>> /\ s0.drainToDelete = <<>>
          /\ s0.parallelism = MaxScaleDownParallelism - e - d /\ s0.drain = MaxDrainParallelism - d
      BY Zenon DEF Budgets
    <2>5. NodesOf(<<>>) = {} /\ NodesOf(<<>>) \cup NodesOf(<<>>) = {}
      BY DEF NodesOf
    <2>6. IsFiniteSet({}) /\ Cardinality({}) = 0 /\ 0 <= 0
      <3>1. IsFiniteSet({}) /\ Cardinality({}) = 0
        BY FS_EmptySet, Zenon
      <3>2. 0 <= 0
        OBVIOUS
      <3>3. QED
        BY <3>1, <3>2, Zenon
    <2> HIDE DEF s0
    <2>7. Within(s0, e, d)
      BY <2>2, <2>4, <2>5, <2>6, Zenon DEF Within
    <2>8. QED
      BY <2>3, <2>7, Zenon DEF s0
  <1>9. ASSUME NEW k \in 1 .. Len(EA), NEW s \in Z
        PROVE  TakeEmptyAtomic(s, EA[k], NodesIn(DA, EA[k].group), sizes[EA[k].group],
                               current[EA[k].group]) \in Z
    <2> DEFINE b == EA[k]
               nodes == NodesIn(DA, b.group)
    <2>1. b \in Grouped(PE, groupOf, max)
      BY <1>5, EntryOf, Zenon
    <2>2. PE \in SUBSET PE /\ PD \in SUBSET PD
      BY Zenon
    <2>3. Fits(b.nodes, b.group, PE, groupOf, max) /\ Len(b.nodes) \in Nat
      BY <2>1, <2>2, GroupedFits, Zenon
    <2>4. Len(nodes) \in Nat /\ (nodes # <<>> => Fits(nodes, b.group, PD, groupOf, max))
      BY <1>5, <2>2, NodesInFits, Zenon
    <2>5. /\ sizes[b.group] \in Int /\ sizes[b.group] \in batches[b.group]
          /\ current[b.group] \in Int /\ current[b.group] \in batches[b.group]
      BY <1>7, <2>1, Zenon DEF Grouped
    <2> HIDE DEF b, nodes
    <2>6. \A batch \in {sizes[b.group], current[b.group]} :
            /\ Bucket(b.group, b.nodes, batch) \in TE
            /\ nodes # <<>> => Bucket(b.group, nodes, batch) \in TD
      BY <2>3, <2>4, <2>5, BucketTaken, Zenon
    <2>7. b.nodes \in Seq(PE \cup PD) /\ nodes \in Seq(PE \cup PD)
      <3>1. b.nodes \in Seq(PE) /\ (nodes = <<>> \/ nodes \in Seq(PD))
        BY <2>3, <2>4, Zenon DEF Fits
      <3>2. /\ Seq(PE) \subseteq Seq(PE \cup PD) /\ Seq(PD) \subseteq Seq(PE \cup PD)
            /\ <<>> \in Seq(PE \cup PD)
        BY SeqsWiden, Zenon
      <3>3. QED
        BY <3>1, <3>2, Zenon
    <2> HIDE DEF TE, TD
    <2>8. s \in States(TE, TD) /\ Within(s, e, d)
      BY Zenon
    <2>9. TakeEmptyAtomic(s, b, nodes, sizes[b.group], current[b.group]) \in States(TE, TD)
      BY <2>3, <2>4, <2>5, <2>6, <2>8, TakeEmptyAtomicType, Zenon
    <2>10. Within(TakeEmptyAtomic(s, b, nodes, sizes[b.group], current[b.group]), e, d)
      BY <2>7, <2>8, TakeEmptyAtomicWithin, Zenon
    <2>11. QED
      BY <2>9, <2>10, Zenon DEF b, nodes
  <1>10. s1 \in Z
    <2>1. Len(EA) \in Nat
      BY <1>5
    <2> HIDE DEF Z
    <2>2. QED
      BY <1>8, <1>9, <2>1, EmptyAtomicLoopType, Zenon
  <1> HIDE DEF s1
  <1>11. mid \in Z
    <2> HIDE DEF TE, TD
    <2>1. s1 \in States(TE, TD) /\ Within(s1, e, d)
      BY <1>10, Zenon
    <2>2. s1.parallelism \in Int /\ s1.drain \in Int /\ s1.empty \in Seq(TE) /\ s1.drainToDelete \in Seq(TD)
      BY <2>1, Zenon DEF States
    <2>3. Smaller(s1.parallelism, s1.drain) \in Int /\ Smaller(s1.parallelism, s1.drain) <= s1.drain
      BY <2>2 DEF Smaller
    <2>4. mid \in States(TE, TD)
      BY <2>1, <2>2, <2>3, StateUpdate, Zenon
    <2>5. Within(mid, e, d)
      BY <2>1, <2>3, WithinStays, Zenon
    <2>6. QED
      BY <2>4, <2>5, Zenon
  <1> HIDE DEF mid
  <1>12. ASSUME NEW k \in 1 .. Len(DA), NEW s \in Z
         PROVE  (IF HasGroup(EA, DA[k].group) THEN s
                 ELSE TakeDrainAtomic(s, DA[k], sizes[DA[k].group], current[DA[k].group])) \in Z
    <2> DEFINE b == DA[k]
    <2>1. b \in Grouped(PD, groupOf, max) /\ PD \in SUBSET PD
      BY <1>5, EntryOf, Zenon
    <2>2. Fits(b.nodes, b.group, PD, groupOf, max) /\ Len(b.nodes) \in Nat
      BY <2>1, GroupedFits, Zenon
    <2>3. /\ sizes[b.group] \in Int /\ sizes[b.group] \in batches[b.group]
          /\ current[b.group] \in Int /\ current[b.group] \in batches[b.group]
      BY <1>7, <2>1, Zenon DEF Grouped
    <2> HIDE DEF b
    <2>4. \A batch \in {sizes[b.group], current[b.group]} : Bucket(b.group, b.nodes, batch) \in TD
      BY <2>2, <2>3, BucketTaken, Zenon
    <2>5. b.nodes \in Seq(PD)
      BY <2>2, Zenon DEF Fits
    <2> HIDE DEF TE, TD
    <2>6. s \in States(TE, TD) /\ Within(s, e, d)
      BY Zenon
    <2>7. TakeDrainAtomic(s, b, sizes[b.group], current[b.group]) \in States(TE, TD)
      BY <2>2, <2>3, <2>4, <2>6, TakeDrainAtomicType, Zenon
    <2>8. Within(TakeDrainAtomic(s, b, sizes[b.group], current[b.group]), e, d)
      BY <2>5, <2>6, TakeDrainAtomicWithin, Zenon
    <2>9. TakeDrainAtomic(s, b, sizes[b.group], current[b.group]) \in Z
      BY <2>7, <2>8, Zenon
    <2> HIDE DEF Z
    <2>10. QED
      BY <2>9, Zenon DEF b
  <1>13. s2 \in Z
    <2>1. Len(DA) \in Nat
      BY <1>5
    <2> HIDE DEF Z
    <2>2. QED
      BY <1>11, <1>12, <2>1, DrainAtomicLoopType, Zenon
  <1> HIDE DEF s2
  <1>14. /\ s2 \in States(TE, TD) /\ Within(s2, e, d)
         /\ s2.parallelism \in Int /\ s2.drain \in Int
         /\ s2.empty \in Seq(TE) /\ s2.drainToDelete \in Seq(TD)
    <2> HIDE DEF TE, TD
    <2>1. s2 \in States(TE, TD) /\ Within(s2, e, d)
      BY <1>13, Zenon
    <2>2. QED
      BY <2>1 DEF States
  <1> DEFINE ET == Taken(empty, groupOf, max, batches)
             DT == Taken(drain, groupOf, max, batches)
  <1>15. ce \in [left : Int, taken : Seq(ET)] /\ Cut(ce, s2.parallelism)
    <2> DEFINE B == buckets(empty, FALSE)
               P == part(empty, FALSE)
    <2>1. /\ B \in Seq(Grouped(P, groupOf, max)) /\ P \in SUBSET empty /\ max \in Nat
          /\ s2.parallelism \in Int /\ \A g \in {groupOf[n] : n \in P} : 0 \in batches[g]
      BY <1>2, <1>6, <1>7, <1>14, Zenon DEF max
    <2> HIDE DEF B, P
    <2>2. cropIndividualNodes(B, s2.parallelism) \in [left : Int, taken : Seq(ET)]
      BY <2>1, CropType, Zenon
    <2>3. Cut(cropIndividualNodes(B, s2.parallelism), s2.parallelism)
      BY <2>1, CropCut, Zenon
    <2>4. QED
      BY <2>2, <2>3, Zenon DEF B
  <1> HIDE DEF ce
  <1>16. cd \in [left : Int, taken : Seq(DT)] /\ Cut(cd, Smaller(ce.left, s2.drain))
    <2>1. Smaller(ce.left, s2.drain) \in Int
      <3>1. ce.left \in Int
        BY <1>15
      <3>2. QED
        BY <1>14, <3>1, Zenon DEF Smaller
    <2> DEFINE B == buckets(drain, FALSE)
               P == part(drain, FALSE)
               budget == Smaller(ce.left, s2.drain)
    <2>2. /\ B \in Seq(Grouped(P, groupOf, max)) /\ P \in SUBSET drain /\ max \in Nat
          /\ budget \in Int /\ \A g \in {groupOf[n] : n \in P} : 0 \in batches[g]
      BY <1>2, <1>6, <1>7, <2>1, Zenon DEF max
    <2> HIDE DEF B, P, budget
    <2>3. cropIndividualNodes(B, budget) \in [left : Int, taken : Seq(DT)]
      BY <2>2, CropType, Zenon
    <2>4. Cut(cropIndividualNodes(B, budget), budget)
      BY <2>2, CropCut, Zenon
    <2>5. QED
      BY <2>3, <2>4, Zenon DEF B, budget
  <1> HIDE DEF cd
  <1>17. s2.empty \in Seq(ET) /\ s2.drainToDelete \in Seq(DT)
    BY <1>5, <1>14, TakenFromMore, Zenon
  <1>18. \A n \in NodesOf(s2.empty) \cup NodesOf(s2.drainToDelete) : groupOf[n] \in atomicGroups
    <2>1. NodesOf(s2.empty) \subseteq PE /\ NodesOf(s2.drainToDelete) \subseteq PD
      BY <1>14, TakenNodes, Zenon
    <2>2. QED
      BY <1>4, <2>1, Zenon
  <1> HIDE DEF ET, DT, TE, TD
  <1>19. /\ crop.empty = s2.empty \o ce.taken /\ crop.drain = s2.drainToDelete \o cd.taken
         /\ crop = [empty |-> crop.empty, drain |-> crop.drain]
    <2> DEFINE newEmpty == s2.empty \o ce.taken
               newDrain == s2.drainToDelete \o cd.taken
    <2>1. crop = [empty |-> newEmpty, drain |-> newDrain]
      BY <1>1, Zenon
    <2> HIDE DEF newEmpty, newDrain
    <2>2. /\ crop.empty = newEmpty /\ crop.drain = newDrain
          /\ crop = [empty |-> crop.empty, drain |-> crop.drain]
      BY <2>1, TwoLists, Zenon
    <2>3. QED
      BY <2>2, Zenon DEF newEmpty, newDrain
  <1>20. s2 \in States(ET, DT)
    <2>1. s2 \in [parallelism : Int, drain : Int, canOverflow : BOOLEAN, stopped : BOOLEAN,
                  empty : Seq(TE), drainToDelete : Seq(TD)]
      BY <1>14, Zenon DEF States
    <2>2. QED
      BY <1>17, <2>1 DEF States
  <1>21. KeepsBudgets(crop, e, d, groupOf, atomicGroups)
    BY <1>14, <1>15, <1>16, <1>18, <1>19, <1>20, BudgetsAdd, Zenon
  <1>22. s2.empty \o ce.taken \in Seq(ET) /\ s2.drainToDelete \o cd.taken \in Seq(DT)
    BY <1>15, <1>16, <1>17
  <1>23. QED
    BY <1>19, <1>21, <1>22, Zenon DEF ET, DT, max

(* The same without the budgets.                                                                   *)
LEMMA CropNodesType ==
  ASSUME NEW T, NEW order \in Seq(T), NEW empty, NEW drain, NEW groupOf, NEW atomicGroups,
         NEW sizes, NEW current, NEW batches, NEW e \in Int, NEW d \in Int,
         \A g \in {groupOf[n] : n \in empty \cup drain} :
           /\ g \in atomicGroups => /\ sizes[g] \in Int /\ sizes[g] \in batches[g]
                                    /\ current[g] \in Int /\ current[g] \in batches[g]
           /\ g \notin atomicGroups => 0 \in batches[g],
         NEW crop, crop = CropNodes(e, d, order, empty, drain, groupOf, atomicGroups, sizes, current)
  PROVE  /\ crop = [empty |-> crop.empty, drain |-> crop.drain]
         /\ crop.empty \in Seq(Taken(empty, groupOf, Len(order), batches))
         /\ crop.drain \in Seq(Taken(drain, groupOf, Len(order), batches))
  <1> DEFINE c == CropNodes(e, d, order, empty, drain, groupOf, atomicGroups, sizes, current)
  <1>1. /\ c = [empty |-> c.empty, drain |-> c.drain]
        /\ c.empty \in Seq(Taken(empty, groupOf, Len(order), batches))
        /\ c.drain \in Seq(Taken(drain, groupOf, Len(order), batches))
        /\ KeepsBudgets(c, e, d, groupOf, atomicGroups)
    BY CropNodesTakes, Zenon
  <1>2. crop = c
    OBVIOUS
  <1> HIDE DEF c
  <1>3. QED
    BY <1>1, <1>2, Zenon

(* CropNodes keeps to both budgets, whatever is offered and however many deletions are in          *)
(* progress: if it takes a node outside the atomic groups, then all nodes it takes fit             *)
(* MaxScaleDownParallelism together with the deletions in progress, although one atomic group may  *)
(* overflow the budgets; and if it takes such a node to drain it, those to drain fit               *)
(* MaxDrainParallelism.                                                                            *)
THEOREM CropKeepsBudgets ==
  ASSUME NEW T, NEW order \in Seq(T), NEW empty, NEW drain, NEW groupOf, NEW atomicGroups,
         NEW sizes, NEW current, NEW e \in Nat, NEW d \in Nat,
         \A g \in {groupOf[n] : n \in empty \cup drain} : sizes[g] \in Int /\ current[g] \in Int
  PROVE  KeepsBudgets(CropNodes(e, d, order, empty, drain, groupOf, atomicGroups, sizes, current),
                      e, d, groupOf, atomicGroups)
  <1> DEFINE batches == [g \in {groupOf[n] : n \in empty \cup drain} |-> Int]
             crop == CropNodes(e, d, order, empty, drain, groupOf, atomicGroups, sizes, current)
  <1>1. \A g \in {groupOf[n] : n \in empty \cup drain} :
          /\ g \in atomicGroups => /\ sizes[g] \in Int /\ sizes[g] \in batches[g]
                                   /\ current[g] \in Int /\ current[g] \in batches[g]
          /\ g \notin atomicGroups => 0 \in batches[g]
    OBVIOUS
  <1>2. e \in Int /\ d \in Int
    OBVIOUS
  <1> HIDE DEF batches
  <1>3. /\ crop = [empty |-> crop.empty, drain |-> crop.drain]
        /\ crop.empty \in Seq(Taken(empty, groupOf, Len(order), batches))
        /\ crop.drain \in Seq(Taken(drain, groupOf, Len(order), batches))
        /\ KeepsBudgets(crop, e, d, groupOf, atomicGroups)
    BY <1>1, <1>2, CropNodesTakes, Zenon
  <1>4. QED
    BY <1>3, Zenon
=============================================================================
