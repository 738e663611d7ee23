--------------------------- MODULE BalanceScaleUp ---------------------------
(***************************************************************************)
(* BalancingNodeGroupSetProcessor.BalanceScaleUpBetweenGroups              *)
(* (processors/nodegroupset/balancing_processor.go): the loop that walks   *)
(* two indices over the list of node groups, sorted by size once, adds a   *)
(* node to the group at the current index, and takes a full group out of   *)
(* play by swapping it to the front.  A ScaleUpInfo is identified by its   *)
(* group, so the slice is the sequence `infos' of groups and the sizes are *)
(* functions of the group.  newSize and newNodes are those of the contract *)
(* that comes first, which the loop implements.                            *)
(***************************************************************************)
EXTENDS Integers, FiniteSets

CONSTANTS
    Groups,     \* the node groups
    MaxSize,    \* MaxSize[g]: the maximal size of g
    MaxMaxSize  \* no group's maximal size is above it

ASSUME GroupsAssumption ==
    /\ IsFiniteSet(Groups)
    /\ MaxMaxSize \in Nat
    /\ MaxSize \in [Groups -> 0..MaxMaxSize]

\* No group that grew from size to new is more than one node ahead of a group of
\* the same scale-up that still had room.
EvenlySpread(groups, size, new) ==
    \A g, h \in groups : new[g] > size[g] /\ new[h] < MaxSize[h] => new[g] <= new[h] + 1

-----------------------------------------------------------------------------
(***************************************************************************)
(* What balancing a scale-up promises: new nodes are handed out one at a   *)
(* time, each of them to a smallest node group that is not yet at its      *)
(* maximal size, until none is left to hand out.  This is the contract of  *)
(* BalanceScaleUpBetweenGroups as its doc comment words it ("The nodes are *)
(* added to smallest group first", "MaxSize of each group will be          *)
(* respected"); the algorithm follows it.                                  *)
(***************************************************************************)
VARIABLES
    newSize,    \* newSize[g]: the size planned for g
    newNodes    \* nodes still to hand out

Full(g) == newSize[g] >= MaxSize[g]

Smallest(g) == \A h \in Groups : ~Full(h) => newSize[g] <= newSize[h]

\* The places still free, one pair for each node a group may still be given.
FreePlaces(size) ==
    {place \in Groups \X (0..MaxMaxSize) :
        size[place[1]] <= place[2] /\ place[2] < MaxSize[place[1]]}

BalancedInit ==
    /\ newSize \in [Groups -> Nat]
    /\ newNodes \in Nat
    /\ newNodes <= Cardinality(FreePlaces(newSize))

AddNode(g) ==
    /\ newNodes > 0
    /\ ~Full(g)
    /\ Smallest(g)
    /\ newSize' = [newSize EXCEPT ![g] = @ + 1]
    /\ newNodes' = newNodes - 1

BalancedNext == \E g \in Groups : AddNode(g)

BalancedSpec == BalancedInit /\ [][BalancedNext]_<<newSize, newNodes>>

-----------------------------------------------------------------------------
VARIABLES
    currentSize,    \* the sizes the cloud provider reported
    infos,          \* scaleUpInfos, as a function from 1..length to the groups
    length,            \* its length
    startIndex,     \* entries before it are out of play
    currentIndex    \* the entry to look at next

vars == <<newSize, newNodes, currentSize, infos, length, startIndex, currentIndex>>

\* The groups that have a ScaleUpInfo: all but those exactly at their maximum.
Resizable(size) == {g \in Groups : size[g] # MaxSize[g]}

\* infos lists the resizable groups once each, smallest first.
Sorted(list, n, size) ==
    /\ n = Cardinality(Resizable(size))
    /\ list \in [1..n -> Resizable(size)]
    /\ \A i, j \in 1..n : i < j => list[i] # list[j] /\ size[list[i]] <= size[list[j]]
    /\ \A g \in Resizable(size) : \E i \in 1..n : list[i] = g

\* The requested number of nodes is capped to the capacity of the groups.
Init ==
    /\ BalancedInit
    /\ currentSize = newSize
    /\ length = Cardinality(Resizable(currentSize))
    /\ infos \in [1..length -> Resizable(currentSize)]
    /\ Sorted(infos, length, currentSize)
    /\ startIndex = 1
    /\ currentIndex = 1

\* Indexing the slice out of its range would end the program.
InRange == startIndex \in 1..length /\ currentIndex \in 1..length

\* What dropping the comparison with the next group would do.
NextIndexWalksOn(list, size, start) ==
    IF currentIndex < length THEN currentIndex + 1 ELSE start

\* Where the walk goes after the entry at the current index: to the next entry
\* if that is now smaller, and otherwise back to the first entry in play.
NextIndex(list, size, start) ==
    IF currentIndex < length /\ size[list[currentIndex]] > size[list[currentIndex + 1]]
    THEN currentIndex + 1
    ELSE start

\* The group at the current index gets a node.
GiveNode ==
    LET g == infos[currentIndex] IN
    /\ newNodes > 0
    /\ InRange
    /\ newSize[g] < MaxSize[g]
    /\ newSize' = [newSize EXCEPT ![g] = @ + 1]
    /\ newNodes' = newNodes - 1
    /\ currentIndex' = NextIndex(infos, newSize', startIndex)
    /\ UNCHANGED <<currentSize, infos, length, startIndex>>

\* What forgetting to move the start would do: the full group stays in play.
RemoveFullStays ==
    LET g == infos[currentIndex] IN
    /\ newNodes > 0
    /\ InRange
    /\ newSize[g] >= MaxSize[g]
    /\ infos' = [infos EXCEPT ![startIndex] = g, ![currentIndex] = infos[startIndex]]
    /\ currentIndex' = NextIndex(infos', newSize, startIndex)
    /\ UNCHANGED <<newSize, newNodes, currentSize, length, startIndex>>

\* The group at the current index is full: it is swapped with the first one in
\* play and the start moves past it.  currentInfo points into the slice, so the
\* comparison that follows sees the group swapped in.
RemoveFull ==
    LET g == infos[currentIndex] IN
    /\ newNodes > 0
    /\ InRange
    /\ newSize[g] >= MaxSize[g]
    /\ infos' = [infos EXCEPT ![startIndex] = g, ![currentIndex] = infos[startIndex]]
    /\ startIndex' = startIndex + 1
    /\ currentIndex' = NextIndex(infos', newSize, startIndex')
    /\ UNCHANGED <<newSize, newNodes, currentSize, length>>

Done == newNodes = 0 /\ UNCHANGED vars

Next == GiveNode \/ RemoveFull \/ Done

Spec == Init /\ [][Next]_vars

FairSpec == Spec /\ WF_vars(GiveNode \/ RemoveFull)

-----------------------------------------------------------------------------

\* Types: the indices stay in the slice (1..length+1 once the loop is over), sizes
\* are natural numbers and every group is listed at most once.
TypeOK ==
    /\ newSize \in [Groups -> Nat]
    /\ currentSize \in [Groups -> Nat]
    /\ newNodes \in Nat
    /\ length \in Nat
    /\ infos \in [1..length -> Groups]
    /\ startIndex \in 1..(length + 1)
    /\ currentIndex \in 1..(length + 1)

\* While there are nodes to hand out the current index points at an entry in
\* play, so the slice is never indexed out of range: loop invariant 3.
IndexInPlay == newNodes > 0 => startIndex <= currentIndex /\ currentIndex <= length

\* The loop invariants 1, 4, 5 and 6 the code lists, of the planned sizes:
\* entries before the start are full, those from the current index on are sorted,
\* and those in between are level, one node above the current one.
LevelBehindCurrent ==
    newNodes > 0 =>
        /\ \A i \in 1..length : i < startIndex => Full(infos[i])
        /\ \A i, j \in 1..length : currentIndex <= i /\ i < j
                                => newSize[infos[i]] <= newSize[infos[j]]
        /\ \A i \in 1..length : startIndex <= i /\ i < currentIndex
                             => newSize[infos[i]] = newSize[infos[currentIndex]] + 1

\* Every group that is not full has one entry in the slice, and there is room for
\* the nodes still to hand out: the walk cannot run out of groups.
RoomListed ==
    /\ \A i, j \in 1..length : i # j => infos[i] # infos[j]
    /\ \A g \in Groups : ~Full(g) => \E i \in 1..length : infos[i] = g
    /\ newNodes <= Cardinality(FreePlaces(newSize))

\* The groups stay level: a group that was given nodes is at most one node ahead
\* of any group that still has room, and no group is taken beyond its maximum.
\* ScaleUpOrchestrator.tla uses this as what a balanced scale-up looks like.
StaysLevel ==
    /\ EvenlySpread(Groups, currentSize, newSize)
    /\ \A g \in Groups : /\ newSize[g] >= currentSize[g]
                         /\ newSize[g] > currentSize[g] => newSize[g] <= MaxSize[g]

\* Every node goes to a smallest group with room, no group outgrows its maximum,
\* and a swap hands out nothing: the loop implements the contract in the doc
\* comment of BalanceScaleUpBetweenGroups.
ImplementsBalanced == BalancedSpec

==============================================================================
