------------------------ MODULE BalanceScaleUpProofs ------------------------
(***************************************************************************)
(* The balancing loop never indexes its slice out of range and implements  *)
(* BalancedSpec, for every set of groups, every maximal size and every      *)
(* number of nodes.                                                        *)
(***************************************************************************)
EXTENDS BalanceScaleUp, FiniteSetTheorems, TLAPS

\* The inductive invariant of the loop: the code's loop invariants, and that the
\* groups with room are listed and have room for what is left.
IInv == TypeOK /\ IndexInPlay /\ LevelBehindCurrent /\ RoomListed

\* The set of free places is finite.
LEMMA PlacesFinite ==
    ASSUME NEW size \in [Groups -> Nat]
    PROVE  IsFiniteSet(FreePlaces(size))
  <1>1. IsFiniteSet(0..MaxMaxSize)
    BY GroupsAssumption, FS_Interval
  <1>2. IsFiniteSet(Groups \X (0..MaxMaxSize))
    BY <1>1, GroupsAssumption, FS_Product
  <1> QED
    BY <1>2, FS_Subset DEF FreePlaces

\* A node given to a group that is not full takes one free place.
LEMMA OnePlaceTaken ==
    ASSUME NEW size \in [Groups -> Nat], NEW g \in Groups, size[g] < MaxSize[g]
    PROVE  Cardinality(FreePlaces([size EXCEPT ![g] = @ + 1]))
           = Cardinality(FreePlaces(size)) - 1
  <1> DEFINE place == <<g, size[g]>>
  <1>1. place \in FreePlaces(size)
    BY GroupsAssumption DEF FreePlaces
  <1>2. FreePlaces([size EXCEPT ![g] = @ + 1]) = FreePlaces(size) \ {place}
    BY GroupsAssumption DEF FreePlaces
  <1> QED
    BY <1>1, <1>2, PlacesFinite, FS_RemoveElement

\* When every group is full there is no free place.
LEMMA NoPlaceWhenFull ==
    ASSUME NEW size \in [Groups -> Nat], \A g \in Groups : size[g] >= MaxSize[g]
    PROVE  Cardinality(FreePlaces(size)) = 0
  <1>1. FreePlaces(size) = {}
    BY GroupsAssumption DEF FreePlaces
  <1> QED
    BY <1>1, FS_EmptySet
\* The code starts the loop in a state of the invariant.
LEMMA InitInv == Init => IInv
  <1> SUFFICES ASSUME Init PROVE IInv
    OBVIOUS
  <1> USE DEF Init, BalancedInit
  <1>1. newSize \in [Groups -> Nat] /\ currentSize = newSize /\ newNodes \in Nat
    OBVIOUS
  <1>2. IsFiniteSet(Resizable(currentSize))
    BY GroupsAssumption, FS_Subset DEF Resizable
  <1>3. length \in Nat
    BY <1>2, FS_CardinalityType
  <1>4. infos \in [1..length -> Groups]
    BY DEF Resizable
  <1>5. TypeOK
    BY <1>1, <1>3, <1>4 DEF TypeOK
  <1>6. \A g \in Groups : ~Full(g) => \E i \in 1..length : infos[i] = g
    <2> SUFFICES ASSUME NEW g \in Groups, ~Full(g)
                 PROVE  \E i \in 1..length : infos[i] = g
      OBVIOUS
    <2>1. g \in Resizable(currentSize)
      BY <1>1, GroupsAssumption DEF Resizable, Full
    <2> QED
      BY <2>1 DEF Sorted
  <1>7. RoomListed
    BY <1>3, <1>6 DEF RoomListed, Sorted
  <1>8. length = 0 => newNodes = 0
    <2> SUFFICES ASSUME length = 0 PROVE newNodes = 0
      OBVIOUS
    <2>1. \A g \in Groups : newSize[g] >= MaxSize[g]
      BY <1>6 DEF Full
    <2>2. Cardinality(FreePlaces(newSize)) = 0
      BY <2>1, <1>1, NoPlaceWhenFull
    <2> QED
      BY <2>2, <1>1
  <1>9. IndexInPlay
    BY <1>3, <1>8 DEF IndexInPlay
  <1>10. LevelBehindCurrent
    BY <1>1, <1>3 DEF LevelBehindCurrent, Sorted
  <1> QED
    BY <1>5, <1>7, <1>9, <1>10 DEF IInv

\* Giving a node keeps the invariant.
LEMMA GiveNodeInv == IInv /\ GiveNode => IInv'
  <1> SUFFICES ASSUME IInv, GiveNode PROVE IInv'
    OBVIOUS
  <1> DEFINE g == infos[currentIndex]
  <1> USE DEF IInv
  <1>0. /\ newNodes > 0 /\ InRange /\ newSize[g] < MaxSize[g]
        /\ newSize' = [newSize EXCEPT ![g] = @ + 1]
        /\ newNodes' = newNodes - 1
        /\ currentIndex' = NextIndex(infos, newSize', startIndex)
        /\ UNCHANGED <<currentSize, infos, length, startIndex>>
    BY DEF GiveNode
  <1>1. g \in Groups /\ newSize[g] \in Nat /\ MaxSize[g] \in Nat
    <2>1. g \in Groups
      BY <1>0 DEF TypeOK, InRange
    <2> QED
      BY <2>1, GroupsAssumption DEF TypeOK
  <1>2. \A i \in 1..length : newSize'[infos[i]] = IF i = currentIndex THEN newSize[g] + 1
                                                  ELSE newSize[infos[i]]
    BY <1>0, <1>1 DEF TypeOK, RoomListed, InRange
  <1>3. TypeOK'
    BY <1>0, <1>1 DEF TypeOK, InRange, NextIndex
  <1>4. RoomListed'
    <2>1. \A h \in Groups : ~Full(h)' => ~Full(h)
      <3> SUFFICES ASSUME NEW h \in Groups, newSize'[h] < MaxSize[h]
                   PROVE  newSize[h] < MaxSize[h]
        <4>1. newSize \in [Groups -> Nat] /\ newSize' \in [Groups -> Nat]
          BY <1>3 DEF TypeOK
        <4>2. \A h \in Groups : newSize[h] \in Nat /\ newSize'[h] \in Nat /\ MaxSize[h] \in Nat
          BY <4>1, GroupsAssumption
        <4> QED
          BY <4>2 DEF Full
      <3>1. newSize[h] \in Nat /\ MaxSize[h] \in Nat
        BY GroupsAssumption DEF TypeOK
      <3>2. newSize'[h] = IF h = g THEN newSize[h] + 1 ELSE newSize[h]
        BY <1>0 DEF TypeOK
      <3> QED
        BY <3>1, <3>2
    <2>2. Cardinality(FreePlaces(newSize')) = Cardinality(FreePlaces(newSize)) - 1
      BY <1>0, <1>1, OnePlaceTaken DEF TypeOK
    <2>3. IsFiniteSet(FreePlaces(newSize))
      BY PlacesFinite DEF TypeOK
    <2>4. Cardinality(FreePlaces(newSize)) \in Nat
      BY <2>3, FS_CardinalityType
    <2> QED
      BY <1>0, <2>1, <2>2, <2>4 DEF RoomListed, TypeOK
  <1>5. IndexInPlay'
    BY <1>0 DEF IndexInPlay, InRange, NextIndex, TypeOK
  <1>6. LevelBehindCurrent'
    <2> SUFFICES ASSUME newNodes' > 0 PROVE LevelBehindCurrent'
      BY DEF LevelBehindCurrent
    <2>1. /\ \A i \in 1..length : i < startIndex => Full(infos[i])
          /\ \A i, j \in 1..length : currentIndex <= i /\ i < j
                                    => newSize[infos[i]] <= newSize[infos[j]]
          /\ \A i \in 1..length : startIndex <= i /\ i < currentIndex
                                 => newSize[infos[i]] = newSize[g] + 1
          /\ startIndex <= currentIndex
      BY <1>0 DEF LevelBehindCurrent, IndexInPlay
    <2>2. /\ \A i \in 1..length : newSize[infos[i]] \in Nat /\ newSize'[infos[i]] \in Nat
          /\ length \in Nat /\ startIndex \in 1..length /\ currentIndex \in 1..length
      BY <1>0, <1>2 DEF TypeOK, InRange
    <2>3. \A i \in 1..length : i < startIndex => Full(infos[i])'
      BY <1>0, <1>2, <2>1, <2>2 DEF Full
    <2>4. \A i \in 1..length : startIndex <= i /\ i <= currentIndex
                               => newSize'[infos[i]] = newSize[g] + 1
      BY <1>2, <2>1, <2>2
    <2>5. CASE currentIndex < length /\ newSize'[infos[currentIndex]] > newSize'[infos[currentIndex + 1]]
      <3>1. currentIndex' = currentIndex + 1 /\ currentIndex + 1 \in 1..length
        BY <1>0, <2>2, <2>5 DEF NextIndex
      <3>2. newSize'[infos[currentIndex + 1]] = newSize[g]
        BY <3>1, <1>2, <2>1, <2>2, <2>5
      <3>3. \A i, j \in 1..length : currentIndex + 1 <= i /\ i < j
                                    => newSize'[infos[i]] <= newSize'[infos[j]]
        BY <1>2, <2>1, <2>2
      <3>4. \A i \in 1..length : startIndex <= i /\ i < currentIndex + 1
                                 => newSize'[infos[i]] = newSize'[infos[currentIndex + 1]] + 1
        BY <2>4, <2>2, <3>2
      <3> QED
        BY <1>0, <2>3, <3>1, <3>3, <3>4 DEF LevelBehindCurrent
    <2>6. CASE ~(currentIndex < length /\ newSize'[infos[currentIndex]] > newSize'[infos[currentIndex + 1]])
      <3>1. currentIndex' = startIndex
        BY <1>0, <2>6 DEF NextIndex
      <3>2. \A j \in 1..length : currentIndex < j => newSize'[infos[j]] >= newSize[g] + 1
        <4> SUFFICES ASSUME NEW j \in 1..length, currentIndex < j
                     PROVE  newSize'[infos[j]] >= newSize[g] + 1
          OBVIOUS
        <4>1. currentIndex < length /\ currentIndex + 1 \in 1..length
          BY <2>2
        <4>2. newSize'[infos[currentIndex + 1]] >= newSize[g] + 1
          BY <4>1, <2>6, <2>2, <2>4, <2>1
        <4>3. newSize[infos[j]] >= newSize[infos[currentIndex + 1]]
          BY <4>1, <2>1, <2>2
        <4> QED
          BY <4>1, <4>2, <4>3, <1>2, <2>2
      <3>3. \A i, j \in 1..length : startIndex <= i /\ i < j
                                    => newSize'[infos[i]] <= newSize'[infos[j]]
        <4> SUFFICES ASSUME NEW i \in 1..length, NEW j \in 1..length, startIndex <= i, i < j
                     PROVE  newSize'[infos[i]] <= newSize'[infos[j]]
          OBVIOUS
        <4>1. CASE j <= currentIndex
          BY <4>1, <2>4, <2>2
        <4>2. CASE i <= currentIndex /\ currentIndex < j
          BY <4>2, <2>4, <3>2, <2>2
        <4>3. CASE currentIndex < i
          BY <4>3, <1>2, <2>1, <2>2
        <4> QED
          BY <4>1, <4>2, <4>3, <2>2
      <3>4. \A i \in 1..length : ~(startIndex <= i /\ i < startIndex)
        BY <2>2
      <3> QED
        BY <1>0, <2>3, <3>1, <3>3, <3>4 DEF LevelBehindCurrent
    <2> QED
      BY <2>5, <2>6
  <1> QED
    BY <1>3, <1>4, <1>5, <1>6

\* Taking a full group out of play keeps the invariant.
LEMMA RemoveFullInv == IInv /\ RemoveFull => IInv'
  <1> SUFFICES ASSUME IInv, RemoveFull PROVE IInv'
    OBVIOUS
  <1> DEFINE g == infos[currentIndex]
             f == infos[startIndex]
             size(i) == newSize[infos[i]]
             after(i) == newSize[infos'[i]]
  <1> USE DEF IInv
  <1>0. /\ newNodes > 0 /\ newSize[g] >= MaxSize[g]
        /\ infos' = [infos EXCEPT ![startIndex] = g, ![currentIndex] = f]
        /\ startIndex' = startIndex + 1
        /\ currentIndex' = NextIndex(infos', newSize, startIndex + 1)
        /\ UNCHANGED <<newSize, newNodes, currentSize, length>>
    BY DEF RemoveFull
  <1>1. /\ length \in Nat /\ startIndex \in 1..length /\ currentIndex \in 1..length
        /\ startIndex <= currentIndex
        /\ infos \in [1..length -> Groups]
        /\ newSize \in [Groups -> Nat]
    BY DEF RemoveFull, InRange, TypeOK, IndexInPlay
  <1>2. g \in Groups /\ f \in Groups
    BY <1>1
  <1>3. \A i \in 1..length : infos'[i] = IF i = currentIndex THEN f
                                         ELSE IF i = startIndex THEN g ELSE infos[i]
    BY <1>0, <1>1
  <1>4. \A i \in 1..length : after(i) = IF i = currentIndex THEN newSize[f]
                                        ELSE IF i = startIndex THEN newSize[g] ELSE size(i)
    BY <1>3
  <1>5. /\ \A i \in 1..length : i < startIndex => Full(infos[i])
        /\ \A i, j \in 1..length : currentIndex <= i /\ i < j => size(i) <= size(j)
        /\ \A i \in 1..length : startIndex <= i /\ i < currentIndex => size(i) = newSize[g] + 1
    BY <1>0 DEF LevelBehindCurrent
  <1>6. \A i \in 1..length : size(i) \in Nat /\ after(i) \in Nat
    BY <1>1, <1>2, <1>3
  <1>7. infos' \in [1..length -> Groups]
    BY <1>0, <1>1, <1>2
  <1>8. \A i \in 1..length : i < startIndex + 1 => Full(infos'[i])
    <2> SUFFICES ASSUME NEW i \in 1..length, i < startIndex + 1 PROVE Full(infos'[i])
      OBVIOUS
    <2>1. CASE i = startIndex
      <3>1. infos'[i] = g
        BY <1>1, <1>3, <2>1
      <3> QED
        BY <1>0, <3>1 DEF Full
    <2>2. CASE i < startIndex
      <3>1. infos'[i] = infos[i]
        BY <1>1, <1>3, <2>2
      <3> QED
        BY <1>5, <2>2, <3>1
    <2> QED
      BY <1>1, <2>1, <2>2
  <1>9. RoomListed'
    <2>0. /\ \A i, j \in 1..length : i # j => infos[i] # infos[j]
          /\ \A h \in Groups : ~Full(h) => \E i \in 1..length : infos[i] = h
      BY DEF RoomListed
    <2> DEFINE from(i) == IF i = currentIndex THEN startIndex
                          ELSE IF i = startIndex THEN currentIndex ELSE i
    <2>a. \A i \in 1..length : from(i) \in 1..length /\ infos'[i] = infos[from(i)]
                               /\ from(from(i)) = i
      BY <1>1, <1>3
    <2>b. \A i, j \in 1..length : i # j => from(i) # from(j)
      BY <2>a
    <2> HIDE DEF from
    <2>1. \A i, j \in 1..length : i # j => infos'[i] # infos'[j]
      BY <2>0, <2>a, <2>b
    <2>2. \A h \in Groups : ~Full(h) => \E i \in 1..length : infos'[i] = h
      BY <2>0, <2>a
    <2> QED
      BY <1>0, <2>1, <2>2 DEF RoomListed, Full
  <1>10. startIndex + 1 <= length
    <2> SUFFICES ASSUME startIndex = length PROVE FALSE
      BY <1>1
    <2>1. \A h \in Groups : newSize[h] >= MaxSize[h]
      <3> SUFFICES ASSUME NEW h \in Groups, ~Full(h) PROVE FALSE
        BY <1>1, GroupsAssumption DEF Full
      <3>1. PICK i \in 1..length : infos'[i] = h
        BY <1>0, <1>9 DEF RoomListed, Full
      <3> QED
        BY <3>1, <1>1, <1>8
    <2>2. Cardinality(FreePlaces(newSize)) = 0
      BY <1>1, <2>1, NoPlaceWhenFull
    <2> QED
      BY <1>0, <2>2 DEF RoomListed, TypeOK
  <1>11. currentIndex' \in (startIndex + 1)..length
    BY <1>0, <1>1, <1>10 DEF NextIndex
  <1>12. TypeOK' /\ IndexInPlay'
    <2>1. startIndex' \in 1..(length + 1) /\ currentIndex' \in 1..(length + 1)
      BY <1>0, <1>1, <1>11
    <2>2. startIndex' <= currentIndex' /\ currentIndex' <= length
      BY <1>0, <1>1, <1>11
    <2>3. TypeOK'
      BY <1>0, <1>7, <2>1 DEF TypeOK
    <2> QED
      BY <1>0, <2>2, <2>3 DEF IndexInPlay
  <1> HIDE DEF g, f, size, after
  <1>13. LevelBehindCurrent'
    <2>1. \A i \in 1..length : startIndex < i /\ i < currentIndex => after(i) = newSize[g] + 1
      BY <1>1, <1>4, <1>5 DEF size
    <2>2. \A i \in 1..length : currentIndex < i => after(i) = size(i) /\ size(i) >= newSize[g]
      BY <1>1, <1>4, <1>5 DEF size, g
    <2>3. startIndex < currentIndex => after(currentIndex) = newSize[g] + 1
      BY <1>1, <1>4, <1>5 DEF size, f
    <2>4. \A i, j \in 1..length : currentIndex < i /\ i < j => after(i) <= after(j)
      BY <1>1, <1>5, <2>2
    <2>5. \A i \in 1..length : after(i) \in Nat
      BY <1>6
    <2>6. newSize[g] \in Nat
      BY <1>1, <1>2
    <2>7. CASE currentIndex < length /\ after(currentIndex) > after(currentIndex + 1)
      <3>1. currentIndex' = currentIndex + 1 /\ currentIndex + 1 \in 1..length
        BY <1>0, <1>1, <2>7 DEF NextIndex, after
      <3>2. \A i, j \in 1..length : currentIndex' <= i /\ i < j => after(i) <= after(j)
        BY <1>1, <2>4, <3>1
      <3>3. \A i \in 1..length : startIndex + 1 <= i /\ i < currentIndex'
                                 => after(i) = after(currentIndex') + 1
        <4> SUFFICES ASSUME NEW i \in 1..length, startIndex + 1 <= i, i < currentIndex + 1
                     PROVE  after(i) = after(currentIndex + 1) + 1
          BY <3>1
        <4>1. startIndex < currentIndex
          BY <1>1
        <4>2. after(currentIndex) = newSize[g] + 1
          BY <4>1, <2>3
        <4>3. after(currentIndex + 1) >= newSize[g]
          BY <1>1, <2>2, <3>1
        <4>4. after(currentIndex + 1) = newSize[g]
          BY <1>1, <2>5, <2>6, <2>7, <3>1, <4>2, <4>3
        <4>5. after(i) = newSize[g] + 1
          BY <1>1, <2>1, <4>2
        <4> QED
          BY <4>4, <4>5
      <3> QED
        BY <1>0, <1>8, <3>2, <3>3 DEF LevelBehindCurrent, after, Full
    <2>8. CASE ~(currentIndex < length /\ after(currentIndex) > after(currentIndex + 1))
      <3>1. currentIndex' = startIndex + 1
        BY <1>0, <1>1, <2>8 DEF NextIndex, after
      <3>2. \A i, j \in 1..length : startIndex + 1 <= i /\ i < j => after(i) <= after(j)
        <4> SUFFICES ASSUME NEW i \in 1..length, NEW j \in 1..length,
                            startIndex + 1 <= i, i < j
                     PROVE  after(i) <= after(j)
          OBVIOUS
        <4>1. CASE currentIndex < i
          BY <4>1, <2>4
        <4>2. CASE i <= currentIndex
          <5>1. startIndex < currentIndex /\ after(currentIndex) = newSize[g] + 1
            BY <4>2, <1>1, <2>3
          <5>2. after(i) = newSize[g] + 1
            BY <4>2, <5>1, <1>1, <2>1
          <5>3. CASE j <= currentIndex
            <6>1. after(j) = newSize[g] + 1
              BY <5>1, <5>3, <1>1, <2>1
            <6> QED
              BY <5>2, <6>1, <2>6
          <5>4. CASE currentIndex < j
            <6>1. currentIndex + 1 \in 1..length /\ currentIndex < length
              BY <5>4, <1>1
            <6>2. after(currentIndex + 1) >= newSize[g] + 1
              BY <6>1, <5>1, <2>8, <2>5, <2>6
            <6>3. after(currentIndex + 1) <= after(j)
              <7>1. CASE j = currentIndex + 1
                BY <7>1, <6>1, <2>5
              <7>2. CASE currentIndex + 1 < j
                BY <7>2, <6>1, <1>1, <2>4
              <7> QED
                BY <7>1, <7>2, <5>4, <1>1
            <6> QED
              BY <6>1, <6>2, <6>3, <5>2, <2>5, <2>6
          <5> QED
            BY <5>3, <5>4, <1>1
        <4> QED
          BY <4>1, <4>2, <1>1
      <3>3. \A i \in 1..length : ~(startIndex + 1 <= i /\ i < startIndex + 1)
        BY <1>1
      <3>4. /\ newSize' = newSize /\ startIndex' = startIndex + 1 /\ length' = length
            /\ \A i \in 1..length : i < startIndex + 1
                                   => newSize'[infos'[i]] >= MaxSize[infos'[i]]
            /\ \A i, j \in 1..length : startIndex + 1 <= i /\ i < j
                                      => newSize'[infos'[i]] <= newSize'[infos'[j]]
        BY <1>0, <1>8, <3>2 DEF after, Full
      <3> QED
        BY <3>1, <3>3, <3>4 DEF LevelBehindCurrent, Full
    <2> QED
      BY <2>7, <2>8
  <1> QED
    BY <1>9, <1>12, <1>13

\* The invariant holds throughout the loop of BalanceScaleUpBetweenGroups.
THEOREM Invariance == Spec => []IInv
  <1>1. IInv /\ [Next]_vars => IInv'
    <2> SUFFICES ASSUME IInv, [Next]_vars PROVE IInv'
      OBVIOUS
    <2>1. CASE GiveNode
      BY <2>1, GiveNodeInv
    <2>2. CASE RemoveFull
      BY <2>2, RemoveFullInv
    <2>3. CASE Done \/ UNCHANGED vars
      <3>1. UNCHANGED vars
        BY <2>3 DEF Done
      <3>2. TypeOK' /\ IndexInPlay'
        BY <3>1 DEF IInv, vars, TypeOK, IndexInPlay
      <3>3. LevelBehindCurrent'
        BY <3>1 DEF IInv, vars, LevelBehindCurrent, Full
      <3>4. RoomListed'
        BY <3>1 DEF IInv, vars, RoomListed, Full
      <3> QED
        BY <3>2, <3>3, <3>4 DEF IInv
    <2> QED
      BY <2>1, <2>2, <2>3 DEF Next
  <1> QED
    BY <1>1, InitInv, PTL DEF Spec

\* The slice is never indexed out of range (loop invariant 3 of the code).
THEOREM NoIndexOutOfRange == Spec => []IndexInPlay
  BY Invariance, PTL DEF IInv

\* The loop invariants 1, 4, 5 and 6 that the code lists hold.
THEOREM LoopInvariants == Spec => []LevelBehindCurrent
  BY Invariance, PTL DEF IInv

\* The loop never forgets a group with room, and has room for what is left.
THEOREM RoomIsListed == Spec => []RoomListed
  BY Invariance, PTL DEF IInv

\* Every node is given to a smallest group with room, so the loop implements the
\* contract that the doc comment of BalanceScaleUpBetweenGroups states.
THEOREM Refinement == Spec => ImplementsBalanced
  <1>1. Init => BalancedInit
    BY DEF Init
  <1>2. IInv /\ [Next]_vars => [BalancedNext]_<<newSize, newNodes>>
    <2> SUFFICES ASSUME IInv, [Next]_vars PROVE [BalancedNext]_<<newSize, newNodes>>
      OBVIOUS
    <2>1. CASE GiveNode
      <3> DEFINE g == infos[currentIndex]
      <3>1. /\ newNodes > 0 /\ newSize[g] < MaxSize[g]
            /\ newSize' = [newSize EXCEPT ![g] = @ + 1]
            /\ newNodes' = newNodes - 1
            /\ startIndex \in 1..length /\ currentIndex \in 1..length
        BY <2>1 DEF GiveNode, InRange
      <3>2. /\ length \in Nat /\ infos \in [1..length -> Groups] /\ newSize \in [Groups -> Nat]
            /\ startIndex <= currentIndex
        BY <3>1 DEF IInv, TypeOK, IndexInPlay
      <3>3. g \in Groups /\ newSize[g] \in Nat /\ MaxSize[g] \in Nat
        BY <3>1, <3>2, GroupsAssumption
      <3>4. Smallest(g)
        <4> SUFFICES ASSUME NEW h \in Groups, ~Full(h) PROVE newSize[g] <= newSize[h]
          BY DEF Smallest
        <4>1. PICK i \in 1..length : infos[i] = h
          BY DEF IInv, RoomListed
        <4>2. ~(i < startIndex)
          BY <3>1, <4>1 DEF IInv, LevelBehindCurrent
        <4>3. newSize[h] \in Nat
          BY <3>2
        <4>4. CASE i < currentIndex
          BY <4>1, <4>2, <4>3, <4>4, <3>1, <3>2, <3>3 DEF IInv, LevelBehindCurrent
        <4>5. CASE i = currentIndex
          BY <4>1, <4>5, <4>3
        <4>6. CASE currentIndex < i
          BY <4>1, <4>6, <3>1, <3>2 DEF IInv, LevelBehindCurrent
        <4> QED
          BY <4>4, <4>5, <4>6, <3>1, <3>2
      <3>5. ~Full(g)
        BY <3>1, <3>3 DEF Full
      <3> QED
        BY <3>1, <3>3, <3>4, <3>5 DEF BalancedNext, AddNode
    <2>2. CASE RemoveFull \/ Done \/ UNCHANGED vars
      BY <2>2 DEF RemoveFull, Done, vars
    <2> QED
      BY <2>1, <2>2 DEF Next
  <1> QED
    BY <1>1, <1>2, Invariance, PTL DEF Spec, ImplementsBalanced, BalancedSpec

\* The outcome of balancing is level and within the maximal sizes, which is the
\* form in which the rest of the scale-up relies on it.
THEOREM OutcomeIsLevel == Spec => []StaysLevel
  <1> DEFINE Inv == TypeOK /\ StaysLevel
  <1>1. Init /\ TypeOK => Inv
    BY DEF Init, TypeOK, StaysLevel, EvenlySpread
  <1>2. Inv /\ TypeOK' /\ [Next]_vars /\ [BalancedNext]_<<newSize, newNodes>> => Inv'
    <2> SUFFICES ASSUME Inv, TypeOK', [Next]_vars, [BalancedNext]_<<newSize, newNodes>>
                 PROVE  StaysLevel'
      OBVIOUS
    <2>1. currentSize' = currentSize
      BY DEF Next, GiveNode, RemoveFull, Done, vars
    <2>2. CASE UNCHANGED <<newSize, newNodes>>
      BY <2>1, <2>2 DEF StaysLevel, EvenlySpread
    <2>3. ASSUME NEW g \in Groups, AddNode(g) PROVE StaysLevel'
      <3>1. /\ newSize \in [Groups -> Nat] /\ currentSize \in [Groups -> Nat]
            /\ \A h \in Groups : MaxSize[h] \in Nat
        <4>1. newSize \in [Groups -> Nat] /\ currentSize \in [Groups -> Nat]
          BY DEF TypeOK
        <4>2. \A h \in Groups : MaxSize[h] \in Nat
          BY GroupsAssumption
        <4> QED
          BY <4>1, <4>2
      <3>2. /\ newSize' = [newSize EXCEPT ![g] = @ + 1]
            /\ newSize[g] < MaxSize[g]
            /\ \A h \in Groups : newSize[h] < MaxSize[h] => newSize[g] <= newSize[h]
        BY <2>3, <3>1 DEF AddNode, Full, Smallest
      <3>3. \A h \in Groups : newSize'[h] = IF h = g THEN newSize[g] + 1 ELSE newSize[h]
        BY <3>1, <3>2
      <3>4. EvenlySpread(Groups, currentSize, newSize')
        <4> SUFFICES ASSUME NEW x \in Groups, NEW h \in Groups,
                            newSize'[x] > currentSize[x], newSize'[h] < MaxSize[h]
                     PROVE  newSize'[x] <= newSize'[h] + 1
          BY DEF EvenlySpread
        <4>1. newSize[h] < MaxSize[h] /\ newSize[h] <= newSize'[h]
          BY <3>1, <3>3
        <4>2. CASE x = g
          BY <4>1, <4>2, <3>1, <3>2, <3>3
        <4>3. CASE x # g
          <5>1. newSize[x] <= newSize[h] + 1
            BY <4>1, <4>3, <3>1, <3>3 DEF StaysLevel, EvenlySpread
          <5> QED
            BY <5>1, <4>1, <4>3, <3>1, <3>3
        <4> QED
          BY <4>2, <4>3
      <3>5. \A h \in Groups : /\ newSize'[h] >= currentSize[h]
                              /\ newSize'[h] > currentSize[h] => newSize'[h] <= MaxSize[h]
        BY <3>1, <3>2, <3>3 DEF StaysLevel
      <3> QED
        BY <2>1, <3>4, <3>5 DEF StaysLevel
    <2> QED
      BY <2>2, <2>3 DEF BalancedNext
  <1>3. IInv => TypeOK
    BY DEF IInv
  <1> QED
    BY <1>1, <1>2, <1>3, Invariance, Refinement, PTL
       DEF Spec, ImplementsBalanced, BalancedSpec

=============================================================================
