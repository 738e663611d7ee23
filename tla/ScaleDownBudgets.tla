--------------------------- MODULE ScaleDownBudgets ---------------------------
(***************************************************************************)
(* pkg/core/scaledown/budgets/budgets.go: which of the nodes the planner   *)
(* offers may be deleted now.  A bucket is a node group with the nodes     *)
(* offered from it; groups are taken in list order.  Only a group's number *)
(* of nodes matters to the budgets, so the nodes of a bucket are a list    *)
(* that is cut off where the code cuts it off.                             *)
(***************************************************************************)
EXTENDS Integers, Sequences, Functions

CONSTANTS MaxScaleDownParallelism, MaxDrainParallelism

ASSUME BudgetAssumption == {MaxScaleDownParallelism, MaxDrainParallelism} \subseteq Nat

Bucket(g, nodes, batch) == [group |-> g, nodes |-> nodes, BatchSize |-> batch]
NodesOf(buckets) == UNION {Range(buckets[k].nodes) : k \in DOMAIN buckets}
Smaller(a, b) == IF a < b THEN a ELSE b

HasGroup(buckets, g) == \E k \in DOMAIN buckets : buckets[k].group = g

\* groupBuckets: the nodes of the other list in the same group.
NodesIn(buckets, g) ==
  IF HasGroup(buckets, g)
  THEN buckets[CHOOSE k \in DOMAIN buckets : buckets[k].group = g].nodes ELSE <<>>

AddToGroup(buckets, n, g) ==
  IF HasGroup(buckets, g)
  THEN [k \in DOMAIN buckets |-> IF buckets[k].group = g
          THEN [buckets[k] EXCEPT !.nodes = Append(@, n)] ELSE buckets[k]]
  ELSE Append(buckets, Bucket(g, <<n>>, 0))

\* group: the nodes of S as buckets, in the order in which list has them.
group(list, S, groupOf) ==
  LET grouped[k \in 0 .. Len(list)] ==
        IF k = 0 THEN <<>>
        ELSE IF list[k] \in S THEN AddToGroup(grouped[k - 1], list[k], groupOf[list[k]])
        ELSE grouped[k - 1]
  IN  grouped[Len(list)]

\* categorize: the nodes of atomic groups, or the others.
categorize(S, groupOf, atomicGroups, isAtomic) ==
  {n \in S : (groupOf[n] \in atomicGroups) = isAtomic}

\* The number of queued nodes that triggers the deletion of an atomic group.
BatchSizeFor(b, targetSize, currentSize) ==
  IF Len(b.nodes) = currentSize THEN currentSize ELSE targetSize

\* What is left over while the lists are walked.
Budgets(inProgress, drainInProgress) ==
  [parallelism |-> MaxScaleDownParallelism - inProgress - drainInProgress,
   drain |-> MaxDrainParallelism - drainInProgress,
   canOverflow |-> TRUE, stopped |-> FALSE,
   empty |-> <<>>, drainToDelete |-> <<>>]

\* An atomic group with empty nodes, and those of its nodes that need a drain.
TakeEmptyAtomic(s, b, drainNodes, targetSize, currentSize) ==
  LET wanted == Len(b.nodes) + Len(drainNodes)
      tooMany == s.parallelism < wanted \/ s.drain < Len(drainNodes)
      noOverflow == s.parallelism = 0 \/ (drainNodes # <<>> /\ s.drain = 0) \/ ~s.canOverflow
      batch == BatchSizeFor(b, targetSize, currentSize)
  IN  IF s.stopped \/ (tooMany /\ noOverflow) THEN [s EXCEPT !.stopped = TRUE]
      ELSE IF wanted \notin {targetSize, currentSize} THEN s
      ELSE [s EXCEPT !.parallelism = @ - wanted, !.drain = @ - Len(drainNodes),
                     !.canOverflow = FALSE,
                     !.empty = Append(@, Bucket(b.group, b.nodes, batch)),
                     !.drainToDelete = IF drainNodes = <<>> THEN @
                                       ELSE Append(@, Bucket(b.group, drainNodes, batch))]

\* The first loop of CropNodes, over the atomic groups with empty nodes.
EmptyAtomicLoop(budgets, emptyAtomic, drainAtomic, sizes, registered) ==
  LET s[k \in 0 .. Len(emptyAtomic)] ==
        IF k = 0 THEN budgets
        ELSE TakeEmptyAtomic(s[k - 1], emptyAtomic[k], NodesIn(drainAtomic, emptyAtomic[k].group),
                             sizes[emptyAtomic[k].group], registered[emptyAtomic[k].group])
  IN  s[Len(emptyAtomic)]

\* An atomic group in which every node needs a drain.
TakeDrainAtomic(s, b, targetSize, currentSize) ==
  LET wanted == Len(b.nodes)
  IN  IF s.stopped \/ (s.drain < wanted /\ (s.drain = 0 \/ ~s.canOverflow))
      THEN [s EXCEPT !.stopped = TRUE]
      ELSE IF wanted \notin {targetSize, currentSize} THEN s
      ELSE [s EXCEPT !.parallelism = @ - wanted, !.drain = @ - wanted, !.canOverflow = FALSE,
                     !.drainToDelete = Append(@, Bucket(b.group, b.nodes,
                                                        BatchSizeFor(b, targetSize, currentSize)))]

\* The second loop, over the atomic groups without empty nodes.
DrainAtomicLoop(budgets, emptyAtomic, drainAtomic, sizes, registered) ==
  LET s[k \in 0 .. Len(drainAtomic)] ==
        IF k = 0 THEN budgets
        ELSE IF HasGroup(emptyAtomic, drainAtomic[k].group) THEN s[k - 1]
        ELSE TakeDrainAtomic(s[k - 1], drainAtomic[k], sizes[drainAtomic[k].group],
                             registered[drainAtomic[k].group])
  IN  s[Len(drainAtomic)]

\* a bug the properties must catch: the last group is taken whole instead of cut to the budget
TakeWholeGroup(s, b) ==
  IF s.left < 1 THEN s ELSE [left |-> s.left - Len(b.nodes), taken |-> Append(s.taken, b)]

\* A group is cut down to what is left of the budget.
CropGroup(s, b) ==
  IF s.left < 1 THEN s
  ELSE LET nodes == SubSeq(b.nodes, 1, Smaller(s.left, Len(b.nodes)))
       IN  [left |-> s.left - Len(nodes), taken |-> Append(s.taken, [b EXCEPT !.nodes = nodes])]

cropIndividualNodes(buckets, budget) ==
  LET s[k \in 0 .. Len(buckets)] ==
        IF k = 0 THEN [left |-> budget, taken |-> <<>>] ELSE CropGroup(s[k - 1], buckets[k])
  IN  s[Len(buckets)]

\* CropNodes, of the sets empty and drain, listed in the given order.  sizes[g] is the target size
\* of g, registered[g] the number of its instances that are registered as nodes.
CropNodes(inProgress, drainInProgress, order, empty, drain, groupOf, atomicGroups, sizes, registered) ==
  LET buckets(S, isAtomic) == group(order, categorize(S, groupOf, atomicGroups, isAtomic), groupOf)
      emptyAtomic == buckets(empty, TRUE)
      drainAtomic == buckets(drain, TRUE)
      s1 == EmptyAtomicLoop(Budgets(inProgress, drainInProgress), emptyAtomic, drainAtomic,
                            sizes, registered)
      s2 == DrainAtomicLoop([s1 EXCEPT !.drain = Smaller(s1.parallelism, s1.drain), !.stopped = FALSE],
                            emptyAtomic, drainAtomic, sizes, registered)
      e == cropIndividualNodes(buckets(empty, FALSE), s2.parallelism)
      d == cropIndividualNodes(buckets(drain, FALSE), Smaller(e.left, s2.drain))
  IN  [empty |-> s2.empty \o e.taken, drain |-> s2.drainToDelete \o d.taken]
=============================================================================
