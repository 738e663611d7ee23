----------------------- MODULE DeltaSnapshotStoreProofs -----------------------
(***************************************************************************)
(* The delta store implements the reference store, for every set of nodes  *)
(* and pods and any number of forks.                                       *)
(*                                                                         *)
(* What a layer shows is a function of the layer and of what is below it   *)
(* (Over).  The lemmas on addNodeInfo, removeNodeInfo, ChangePods and      *)
(* Merge say what each does to what a layer shows; with them every call is *)
(* a call of the reference store.                                          *)
(***************************************************************************)
EXTENDS DeltaSnapshotStore, WellFoundedInduction, TLAPS

\* What a layer shows of the cluster below it.
Over(data, below) ==
    [n \in Nodes |-> IF Mentions(data, n) THEN getNodeInfoLocal(data, n) ELSE below[n]]

-----------------------------------------------------------------------------
(* The chain *)

LEMMA LargestExists ==
    ASSUME NEW k \in Nat, NEW S \in SUBSET (1 .. k), S # {}
    PROVE  \E j \in S : \A i \in S : i <= j
<1> DEFINE T == {m \in 0 .. k : k - m \in S}
<1>1. T \subseteq Nat
  OBVIOUS
<1>2. T # {}
  <2>1. PICK j \in S : TRUE
    OBVIOUS
  <2>2. k - j \in T
    OBVIOUS
  <2> QED BY <2>2
<1>3. PICK m \in T : \A t \in T : ~(<<t, m>> \in OpToRel(<, Nat))
  <2> HIDE DEF T
  <2> QED BY <1>1, <1>2, NatLessThanWellFounded, WFMin
<1>4. \A t \in T : m <= t
  <2> SUFFICES ASSUME NEW t \in T, t < m PROVE FALSE
    BY <1>1
  <2>1. <<t, m>> \in OpToRel(<, Nat)
    BY <1>1 DEF OpToRel
  <2> QED BY <1>3, <2>1
<1>5. \A i \in S : k - i \in T
  OBVIOUS
<1> QED BY <1>4, <1>5

LEMMA GetMentioned ==
    ASSUME NEW chain, NEW k \in Nat, k >= 1, NEW n, Mentions(chain[k], n)
    PROVE  getNodeInfo(chain, k, n) = getNodeInfoLocal(chain[k], n)
<1>1. \A S : S \subseteq 1 .. k /\ k \in S => Topmost(S) = k
  <2> SUFFICES ASSUME NEW S, S \subseteq 1 .. k, k \in S PROVE Topmost(S) = k
    OBVIOUS
  <2>1. \E j \in S : \A i \in S : i <= j
    OBVIOUS
  <2>2. Topmost(S) \in S /\ \A i \in S : i <= Topmost(S)
    BY <2>1 DEF Topmost
  <2>3. Topmost(S) \in 1 .. k /\ k <= Topmost(S)
    BY <2>2
  <2> QED BY <2>3
<1>2. Mentioning(chain, k, n) \subseteq 1 .. k /\ k \in Mentioning(chain, k, n)
  BY DEF Mentioning
<1>3. Topmost(Mentioning(chain, k, n)) = k
  BY <1>1, <1>2
<1> QED BY <1>2, <1>3 DEF getNodeInfo

LEMMA GetUnmentioned ==
    ASSUME NEW chain, NEW k \in Nat, k >= 1, NEW n, ~Mentions(chain[k], n)
    PROVE  getNodeInfo(chain, k, n) = getNodeInfo(chain, k - 1, n)
<1>1. Mentioning(chain, k, n) = Mentioning(chain, k - 1, n)
  BY DEF Mentioning
<1> QED BY <1>1 DEF getNodeInfo

\* A chain shows what its layers put over each other.
LEMMA ViewStep ==
    ASSUME NEW chain, NEW k \in Nat, k >= 1
    PROVE  View(chain, k) = Over(chain[k], View(chain, k - 1))
<1>1. \A n : getNodeInfo(chain, k, n) =
             IF Mentions(chain[k], n) THEN getNodeInfoLocal(chain[k], n)
             ELSE getNodeInfo(chain, k - 1, n)
  BY GetMentioned, GetUnmentioned
<1> QED BY <1>1 DEF View, Over

LEMMA ViewZero ==
    ASSUME NEW chain
    PROVE  View(chain, 0) = NoNodes
<1>1. \A n : Mentioning(chain, 0, n) = {}
  BY DEF Mentioning
<1> QED BY <1>1 DEF View, getNodeInfo, NoNodes

\* What the first k layers show depends on them alone.
LEMMA ViewPrefix ==
    ASSUME NEW chain, NEW other, NEW k \in Nat, \A j \in 1 .. k : chain[j] = other[j]
    PROVE  View(chain, k) = View(other, k)
<1> SUFFICES ASSUME NEW n \in Nodes
             PROVE  getNodeInfo(chain, k, n) = getNodeInfo(other, k, n)
  BY DEF View
<1> DEFINE S == Mentioning(chain, k, n)
<1>1. S = Mentioning(other, k, n) /\ S \subseteq 1 .. k
  BY DEF Mentioning
<1>2. ASSUME S # {} PROVE chain[Topmost(S)] = other[Topmost(S)]
  BY <1>1, <1>2, LargestExists DEF Topmost
<1> QED BY <1>1, <1>2 DEF getNodeInfo

-----------------------------------------------------------------------------
(* One layer *)

\* A layer that fits on the cluster below it and whose caches are fresh.
Good(data, below) == data \in Layers /\ Fits(data, below) /\ Fresh(data, Over(data, below))

LEMMA OverType ==
    ASSUME NEW data \in Layers, NEW below \in Clusters
    PROVE  Over(data, below) \in Clusters
BY DEF Over, Layers, getNodeInfoLocal, Clusters

LEMMA ListedType ==
    ASSUME NEW cluster
    PROVE  Listed(cluster) \in SUBSET (Nodes \X NodeInfos)
BY DEF Listed

LEMMA LayerFields ==
    ASSUME NEW data \in Layers
    PROVE  /\ data.addedNodeInfoMap \in Clusters /\ data.modifiedNodeInfoMap \in Clusters
           /\ data.deletedNodeInfos \in SUBSET Nodes /\ data.nodeInfoList \in Caches
           /\ data.havePods \in [Kinds -> Caches]
           /\ data.pvcNamespaceMap \in (SUBSET PVCs) \cup {Nil}
BY DEF Layers

LEMMA NoCaches ==
    /\ Nil \in Caches /\ [k \in Kinds |-> Nil] \in [Kinds -> Caches]
    /\ NoNodes \in Clusters
<1>1. Nil \in Caches
  BY DEF Caches
<1> QED BY <1>1 DEF NoNodes, Clusters

\* Clearing caches changes nothing else.
LEMMA Cleared ==
    ASSUME NEW data \in Layers, NEW below \in Clusters
    PROVE  /\ ClearCaches(data) \in Layers
           /\ Over(ClearCaches(data), below) = Over(data, below)
           /\ Fits(data, below) => Good(ClearCaches(data), below)
<1> DEFINE new == ClearCaches(data)
<1>1. /\ new \in Layers
      /\ new.addedNodeInfoMap = data.addedNodeInfoMap
      /\ new.modifiedNodeInfoMap = data.modifiedNodeInfoMap
      /\ new.deletedNodeInfos = data.deletedNodeInfos
      /\ new.nodeInfoList = Nil
      /\ new.havePods = [k \in Kinds |-> Nil]
      /\ new.pvcNamespaceMap = Nil
  BY NoCaches DEF ClearCaches, ClearPodCaches, Layers
<1> HIDE DEF new
<1>3. \A n : getNodeInfoLocal(new, n) = getNodeInfoLocal(data, n)
  BY <1>1 DEF getNodeInfoLocal
<1>4. Over(new, below) = Over(data, below)
  BY <1>1, <1>3 DEF Over, Mentions
<1>5. Fits(data, below) => Fits(new, below)
  BY <1>1, <1>3 DEF Fits
<1>6. \A cluster : Fresh(new, cluster)
  BY <1>1 DEF Fresh
<1>7. new \in Layers
  BY <1>1
<1> QED BY <1>4, <1>5, <1>6, <1>7 DEF Good, new

LEMMA NewLayer ==
    ASSUME NEW below \in Clusters
    PROVE  /\ Good(newInternalDeltaSnapshotData, below)
           /\ Over(newInternalDeltaSnapshotData, below) = below
<1> DEFINE new == newInternalDeltaSnapshotData
<1>1. new \in Layers
  BY NoCaches DEF newInternalDeltaSnapshotData, Layers
<1>2. \A n \in Nodes : getNodeInfoLocal(new, n) = Nil /\ ~Mentions(new, n)
  BY DEF newInternalDeltaSnapshotData, getNodeInfoLocal, Mentions, NoNodes
<1>3. Over(new, below) = below
  BY <1>2 DEF Over, Clusters
<1>4. Fits(new, below)
  BY DEF newInternalDeltaSnapshotData, Fits, NoNodes
<1>5. Fresh(new, Over(new, below))
  BY DEF newInternalDeltaSnapshotData, Fresh
<1> QED BY <1>1, <1>3, <1>4, <1>5 DEF Good

\* Nodes added to a layer that does not show them are shown, the others stay as they were.
LEMMA AddNodes ==
    ASSUME NEW data, NEW below \in Clusters, Good(data, below), NEW infos \in Clusters,
           \A n \in Nodes : infos[n] # Nil => Over(data, below)[n] = Nil
    PROVE  /\ Good(addNodeInfo(data, infos), below)
           /\ Over(addNodeInfo(data, infos), below) =
                [n \in Nodes |-> IF infos[n] # Nil THEN infos[n] ELSE Over(data, below)[n]]
<1> DEFINE new == addNodeInfo(data, infos)
           readded == {n \in data.deletedNodeInfos : infos[n] # Nil}
           shown == [n \in Nodes |-> IF infos[n] # Nil THEN infos[n] ELSE Over(data, below)[n]]
<1>0. data \in Layers /\ Fits(data, below) /\ Fresh(data, Over(data, below))
  BY DEF Good
<1>1. /\ new.addedNodeInfoMap = [n \in Nodes |-> IF infos[n] # Nil /\ n \notin readded
                                  THEN infos[n] ELSE data.addedNodeInfoMap[n]]
      /\ new.modifiedNodeInfoMap = [n \in Nodes |-> IF n \in readded THEN infos[n]
                                                     ELSE data.modifiedNodeInfoMap[n]]
      /\ new.deletedNodeInfos = data.deletedNodeInfos \ readded
      /\ new.nodeInfoList = IF data.nodeInfoList = Nil THEN Nil
                             ELSE data.nodeInfoList \cup Listed(infos)
      /\ PodsIn(infos) = {} => /\ new.havePods = data.havePods
                               /\ new.pvcNamespaceMap = data.pvcNamespaceMap
      /\ PodsIn(infos) # {} => /\ new.havePods = [k \in Kinds |-> Nil]
                               /\ new.pvcNamespaceMap = Nil
      /\ new = [addedNodeInfoMap |-> new.addedNodeInfoMap,
                modifiedNodeInfoMap |-> new.modifiedNodeInfoMap,
                deletedNodeInfos |-> new.deletedNodeInfos, nodeInfoList |-> new.nodeInfoList,
                havePods |-> new.havePods, pvcNamespaceMap |-> new.pvcNamespaceMap]
  BY <1>0 DEF addNodeInfo, ClearPodCaches, Layers
<1> HIDE DEF new
<1>2. new \in Layers
  <2>1. new.addedNodeInfoMap \in Clusters /\ new.modifiedNodeInfoMap \in Clusters
    BY <1>0, <1>1, LayerFields DEF Clusters
  <2>2. new.deletedNodeInfos \in SUBSET Nodes
    BY <1>0, <1>1, LayerFields
  <2>3. new.nodeInfoList \in Caches
    BY <1>0, <1>1, LayerFields, ListedType DEF Caches
  <2>4. new.havePods \in [Kinds -> Caches] /\ new.pvcNamespaceMap \in (SUBSET PVCs) \cup {Nil}
    BY <1>0, <1>1, LayerFields, NoCaches
  <2> QED BY <1>1, <2>1, <2>2, <2>3, <2>4 DEF Layers
<1>3. ASSUME NEW n \in Nodes
      PROVE  /\ Over(new, below)[n] = shown[n]
             /\ n \in new.deletedNodeInfos => below[n] # Nil /\ getNodeInfoLocal(new, n) = Nil
             /\ new.modifiedNodeInfoMap[n] # Nil => below[n] # Nil /\ new.addedNodeInfoMap[n] = Nil
             /\ new.addedNodeInfoMap[n] # Nil => below[n] = Nil
  <2>1. CASE infos[n] = Nil
    BY <1>0, <1>1, <2>1 DEF Over, Mentions, getNodeInfoLocal, Fits
  <2>2. CASE infos[n] # Nil
    <3>1. data.addedNodeInfoMap[n] = Nil /\ data.modifiedNodeInfoMap[n] = Nil
      BY <2>2 DEF Over, Mentions, getNodeInfoLocal
    <3>2. n \in data.deletedNodeInfos \/ below[n] = Nil
      BY <2>2 DEF Over, Mentions, getNodeInfoLocal
    <3> QED BY <1>0, <1>1, <2>2, <3>1, <3>2 DEF Over, Mentions, getNodeInfoLocal, Fits
  <2> QED BY <2>1, <2>2
<1>4. Over(new, below) = shown
  BY <1>3 DEF Over
<1>5. Fits(new, below)
  BY <1>3 DEF Fits
<1>6. Listed(shown) = Listed(Over(data, below)) \cup Listed(infos)
  <2>1. \A n \in Nodes : \A i \in NodeInfos :
           shown[n] = i <=> Over(data, below)[n] = i \/ infos[n] = i
    BY ContentsAssumption DEF NodeInfos
  <2> HIDE DEF shown
  <2> QED BY <2>1 DEF Listed
<1>7. PodsIn(infos) = {} => \A e \in Listed(infos) : e[2] = {}
  BY ContentsAssumption DEF PodsIn, Listed, NodeInfos
<1>8. Fresh(new, shown)
  <2>1. new.nodeInfoList \in {Nil, Listed(shown)}
    BY <1>0, <1>1, <1>6 DEF Fresh
  <2>2. CASE PodsIn(infos) # {}
    BY <1>1, <2>1, <2>2 DEF Fresh
  <2>3. CASE PodsIn(infos) = {}
    <3>1. \A k \in Kinds : HavePods(Listed(shown), k) = HavePods(Listed(Over(data, below)), k)
      <4> HIDE DEF shown
      <4> QED BY <1>6, <1>7, <2>3 DEF HavePods
    <3>2. UsedPVCs(Listed(shown)) = UsedPVCs(Listed(Over(data, below)))
      <4> HIDE DEF shown
      <4> QED BY <1>6, <1>7, <2>3 DEF UsedPVCs
    <3> HIDE DEF shown
    <3> QED BY <1>0, <1>1, <2>1, <2>3, <3>1, <3>2 DEF Fresh
  <2> QED BY <2>2, <2>3
<1> QED BY <1>2, <1>4, <1>5, <1>8 DEF Good, new

\* Nodes removed from a layer that shows them are not shown any more.
LEMMA RemoveNodes ==
    ASSUME NEW data, NEW below \in Clusters, Good(data, below), NEW nodes \in SUBSET Nodes,
           \A n \in nodes : Over(data, below)[n] # Nil
    PROVE  /\ Good(removeNodeInfo(data, below, nodes), below)
           /\ Over(removeNodeInfo(data, below, nodes), below) =
                [n \in Nodes |-> IF n \in nodes THEN Nil ELSE Over(data, below)[n]]
<1> DEFINE bare == [data EXCEPT
                !.addedNodeInfoMap = [n \in Nodes |-> IF n \in nodes THEN Nil ELSE @[n]],
                !.modifiedNodeInfoMap = [n \in Nodes |-> IF n \in nodes THEN Nil ELSE @[n]],
                !.deletedNodeInfos = @ \cup {n \in nodes : below[n] # Nil}]
           shown == [n \in Nodes |-> IF n \in nodes THEN Nil ELSE Over(data, below)[n]]
<1>0. data \in Layers /\ Fits(data, below)
  BY DEF Good
<1>1. CASE nodes = {}
  BY <1>0, <1>1 DEF removeNodeInfo, Over
<1>2. CASE nodes # {}
  <2>1. removeNodeInfo(data, below, nodes) = ClearCaches(bare)
    BY <1>2 DEF removeNodeInfo
  <2>2. /\ bare.addedNodeInfoMap = [n \in Nodes |-> IF n \in nodes THEN Nil
                                                     ELSE data.addedNodeInfoMap[n]]
        /\ bare.modifiedNodeInfoMap = [n \in Nodes |-> IF n \in nodes THEN Nil
                                                        ELSE data.modifiedNodeInfoMap[n]]
        /\ bare.deletedNodeInfos = data.deletedNodeInfos \cup {n \in nodes : below[n] # Nil}
        /\ bare \in Layers
    BY <1>0, LayerFields DEF Layers, Clusters
  <2> HIDE DEF bare
  <2>3. ASSUME NEW n \in Nodes
        PROVE  /\ Over(bare, below)[n] = shown[n]
               /\ n \in bare.deletedNodeInfos => below[n] # Nil /\ getNodeInfoLocal(bare, n) = Nil
               /\ bare.modifiedNodeInfoMap[n] # Nil => below[n] # Nil /\ bare.addedNodeInfoMap[n] = Nil
               /\ bare.addedNodeInfoMap[n] # Nil => below[n] = Nil
    <3>1. CASE n \in nodes
      <4>1. /\ bare.addedNodeInfoMap[n] = Nil /\ bare.modifiedNodeInfoMap[n] = Nil
            /\ n \in bare.deletedNodeInfos <=> below[n] # Nil
        BY <1>0, <2>2, <3>1 DEF Fits
      <4> QED BY <3>1, <4>1 DEF Over, Mentions, getNodeInfoLocal
    <3>2. CASE n \notin nodes
      <4>1. /\ bare.addedNodeInfoMap[n] = data.addedNodeInfoMap[n]
            /\ bare.modifiedNodeInfoMap[n] = data.modifiedNodeInfoMap[n]
            /\ n \in bare.deletedNodeInfos <=> n \in data.deletedNodeInfos
        BY <2>2, <3>2
      <4> QED BY <1>0, <3>2, <4>1 DEF Over, Mentions, getNodeInfoLocal, Fits
    <3> QED BY <3>1, <3>2
  <2>4. Over(bare, below) = shown
    BY <2>3 DEF Over
  <2>5. Fits(bare, below)
    BY <2>3 DEF Fits
  <2> QED BY <2>1, <2>2, <2>4, <2>5, Cleared
<1> QED BY <1>1, <1>2

\* A node whose pods are changed is shown with its new pods.
LEMMA ChangeNode ==
    ASSUME NEW data, NEW below \in Clusters, Good(data, below), NEW n \in Nodes,
           Over(data, below)[n] # Nil, NEW pods \in NodeInfos
    PROVE  /\ Good(ChangePods(data, n, pods), below)
           /\ Over(ChangePods(data, n, pods), below) = [Over(data, below) EXCEPT ![n] = pods]
<1> DEFINE bare == IF data.addedNodeInfoMap[n] # Nil
                   THEN [data EXCEPT !.addedNodeInfoMap[n] = pods]
                   ELSE [data EXCEPT !.modifiedNodeInfoMap[n] = pods]
           shown == [Over(data, below) EXCEPT ![n] = pods]
<1>0. data \in Layers /\ Fits(data, below)
  BY DEF Good
<1>1. pods # Nil
  BY ContentsAssumption DEF NodeInfos
<1>2. ChangePods(data, n, pods) = ClearCaches(bare)
  BY DEF ChangePods
<1>3. /\ bare.addedNodeInfoMap = IF data.addedNodeInfoMap[n] # Nil
                                 THEN [data.addedNodeInfoMap EXCEPT ![n] = pods]
                                 ELSE data.addedNodeInfoMap
      /\ bare.modifiedNodeInfoMap = IF data.addedNodeInfoMap[n] # Nil THEN data.modifiedNodeInfoMap
                                    ELSE [data.modifiedNodeInfoMap EXCEPT ![n] = pods]
      /\ bare.deletedNodeInfos = data.deletedNodeInfos
      /\ bare \in Layers
  BY <1>0, LayerFields DEF Layers, Clusters
<1> HIDE DEF bare
<1>4. ASSUME NEW m \in Nodes
      PROVE  /\ Over(bare, below)[m] = shown[m]
             /\ m \in bare.deletedNodeInfos => below[m] # Nil /\ getNodeInfoLocal(bare, m) = Nil
             /\ bare.modifiedNodeInfoMap[m] # Nil => below[m] # Nil /\ bare.addedNodeInfoMap[m] = Nil
             /\ bare.addedNodeInfoMap[m] # Nil => below[m] = Nil
  BY <1>0, <1>1, <1>3, LayerFields DEF Over, Mentions, getNodeInfoLocal, Fits, Clusters
<1>5. Over(bare, below) = shown
  BY <1>4 DEF Over
<1>6. Fits(bare, below)
  BY <1>4 DEF Fits
<1> QED BY <1>2, <1>3, <1>5, <1>6, Cleared

\* The list that is built from the list of the layer below is the layer's own.
LEMMA BuildList ==
    ASSUME NEW data, NEW below \in Clusters, Good(data, below)
    PROVE  buildNodeInfoList(data, Listed(below)) = Listed(Over(data, below))
<1>0. data \in Layers /\ Fits(data, below)
  BY DEF Good
<1>1. ASSUME NEW n \in Nodes, NEW i \in NodeInfos
      PROVE  Over(data, below)[n] = i <=>
               \/ /\ below[n] = i /\ n \notin data.deletedNodeInfos
                  /\ data.modifiedNodeInfoMap[n] = Nil
               \/ /\ n \notin data.deletedNodeInfos /\ data.modifiedNodeInfoMap[n] = i
                  /\ below[n] # Nil
               \/ data.addedNodeInfoMap[n] = i
  BY <1>0, ContentsAssumption, LayerFields
     DEF Over, Mentions, getNodeInfoLocal, Fits, NodeInfos, Clusters
<1>2. \A n \in Nodes : below[n] # Nil <=> \E b \in Listed(below) : b[1] = n
  <2>1. ASSUME NEW n \in Nodes, below[n] # Nil PROVE \E b \in Listed(below) : b[1] = n
    <3>1. <<n, below[n]>> \in Listed(below)
      BY <2>1 DEF Listed, Clusters
    <3> QED BY <3>1
  <2>2. ASSUME NEW n \in Nodes, NEW b \in Listed(below), b[1] = n PROVE below[n] # Nil
    BY <2>2, ContentsAssumption DEF Listed, NodeInfos
  <2> QED BY <2>1, <2>2
<1>3. buildNodeInfoList(data, Listed(below)) \subseteq Listed(Over(data, below))
  BY <1>1, <1>2 DEF buildNodeInfoList, Listed
<1>4. Listed(Over(data, below)) \subseteq buildNodeInfoList(data, Listed(below))
  BY <1>1, <1>2 DEF buildNodeInfoList, Listed
<1> QED BY <1>3, <1>4

\* A committed layer leaves the one below showing what the committed one showed, and
\* no call of the commit fails.
LEMMA MergeLayers ==
    ASSUME NEW base, NEW below \in Clusters, Good(base, below),
           NEW data, Good(data, Over(base, below))
    PROVE  /\ ~CommitFails(Over(base, below), data)
           /\ Good(Merge(base, below, data), below)
           /\ Over(Merge(base, below, data), below) = Over(data, Over(base, below))
<1> DEFINE shown == Over(base, below)
           modified == {n \in Nodes : data.modifiedNodeInfoMap[n] # Nil}
           gone == data.deletedNodeInfos \cup modified
           removed == removeNodeInfo(base, below, gone)
           moved == addNodeInfo(removed, data.modifiedNodeInfoMap)
           new == addNodeInfo(moved, data.addedNodeInfoMap)
<1>0. /\ base \in Layers /\ data \in Layers /\ Fits(data, shown)
      /\ shown \in Clusters
  BY OverType DEF Good
<1>1. /\ data.addedNodeInfoMap \in Clusters /\ data.modifiedNodeInfoMap \in Clusters
      /\ data.deletedNodeInfos \in SUBSET Nodes
  BY <1>0, LayerFields
<1>2. Merge(base, below, data) = new
  BY DEF Merge
<1>3. ~CommitFails(shown, data)
  BY <1>0, <1>1 DEF CommitFails, Fits, getNodeInfoLocal
<1>4. gone \in SUBSET Nodes /\ \A n \in gone : shown[n] # Nil
  BY <1>0, <1>1 DEF Fits
<1> HIDE DEF gone, shown, removed, moved, new
<1>5. /\ Good(removed, below)
      /\ Over(removed, below) = [n \in Nodes |-> IF n \in gone THEN Nil ELSE shown[n]]
  BY <1>4, RemoveNodes DEF shown, removed
<1>6. /\ Good(moved, below)
      /\ Over(moved, below) = [n \in Nodes |-> IF data.modifiedNodeInfoMap[n] # Nil
                                                THEN data.modifiedNodeInfoMap[n]
                                                ELSE Over(removed, below)[n]]
  <2>1. \A n \in Nodes : data.modifiedNodeInfoMap[n] # Nil => Over(removed, below)[n] = Nil
    BY <1>5 DEF gone
  <2> QED BY <1>1, <1>5, <2>1, AddNodes DEF moved
<1>7. /\ Good(new, below)
      /\ Over(new, below) = [n \in Nodes |-> IF data.addedNodeInfoMap[n] # Nil
                                              THEN data.addedNodeInfoMap[n]
                                              ELSE Over(moved, below)[n]]
  <2>1. \A n \in Nodes : data.addedNodeInfoMap[n] # Nil => Over(moved, below)[n] = Nil
    BY <1>0, <1>5, <1>6 DEF Fits, gone
  <2> QED BY <1>1, <1>6, <2>1, AddNodes DEF new
<1>8. Over(new, below) = Over(data, shown)
  <2>1. \A n \in Nodes : Over(new, below)[n] = Over(data, shown)[n]
    <3> TAKE n \in Nodes
    <3>1. Over(data, shown)[n] = IF data.addedNodeInfoMap[n] # Nil THEN data.addedNodeInfoMap[n]
                                 ELSE IF data.modifiedNodeInfoMap[n] # Nil
                                 THEN data.modifiedNodeInfoMap[n]
                                 ELSE IF n \in data.deletedNodeInfos THEN Nil ELSE shown[n]
      BY DEF Over, Mentions, getNodeInfoLocal
    <3>2. n \in gone <=> n \in data.deletedNodeInfos \/ data.modifiedNodeInfoMap[n] # Nil
      BY DEF gone
    <3> QED BY <1>5, <1>6, <1>7, <3>1, <3>2
  <2> QED BY <2>1 DEF Over
<1> QED BY <1>2, <1>3, <1>7, <1>8 DEF shown

-----------------------------------------------------------------------------
(* The chain as a whole *)

\* No pod is on two nodes.
Tidy(cluster) ==
    /\ cluster \in Clusters
    /\ \A m, n \in Nodes :
        m # n /\ cluster[m] # Nil /\ cluster[n] # Nil => cluster[m] \cap cluster[n] = {}

Sound(chain) ==
    /\ chain \in Seq(Layers) /\ chain # <<>>
    /\ \A k \in 1 .. Len(chain) : Good(chain[k], View(chain, k - 1))
    /\ \A k \in 0 .. Len(chain) : Tidy(View(chain, k))

LEMMA SoundTop ==
    ASSUME NEW chain, Sound(chain)
    PROVE  /\ Len(chain) \in Nat /\ Len(chain) >= 1
           /\ chain[Len(chain)] \in Layers
           /\ Good(chain[Len(chain)], View(chain, Len(chain) - 1))
           /\ Tidy(View(chain, Len(chain))) /\ Tidy(View(chain, Len(chain) - 1))
           /\ View(chain, Len(chain)) = Over(chain[Len(chain)], View(chain, Len(chain) - 1))
<1>1. Len(chain) \in Nat /\ Len(chain) >= 1 /\ chain[Len(chain)] \in Layers
  BY DEF Sound
<1> QED BY <1>1, ViewStep DEF Sound

LEMMA SoundDrop ==
    ASSUME NEW chain, Sound(chain), Len(chain) > 1
    PROVE  LET short == SubSeq(chain, 1, Len(chain) - 1)
           IN  /\ Sound(short) /\ Len(short) = Len(chain) - 1
               /\ \A k \in 1 .. Len(short) : short[k] = chain[k]
               /\ \A k \in 0 .. Len(short) : View(short, k) = View(chain, k)
<1> DEFINE short == SubSeq(chain, 1, Len(chain) - 1)
<1>1. /\ Len(chain) \in Nat
      /\ short \in Seq(Layers) /\ Len(short) = Len(chain) - 1 /\ short # <<>>
      /\ \A k \in 1 .. Len(short) : short[k] = chain[k]
  <2>1. chain \in Seq(Layers) /\ Len(chain) \in Nat
    BY DEF Sound
  <2>2. \A k \in 1 .. Len(chain) - 1 : chain[k] \in Layers
    BY <2>1
  <2>3. short = [k \in 1 .. Len(chain) - 1 |-> chain[k]]
    BY <2>1
  <2> HIDE DEF short
  <2>4. short \in Seq(Layers) /\ Len(short) = Len(chain) - 1
    BY <2>1, <2>2, <2>3
  <2>5. short # <<>>
    BY <2>1, <2>4
  <2>6. \A k \in 1 .. Len(short) : short[k] = chain[k]
    BY <2>1, <2>3, <2>4
  <2> QED BY <2>1, <2>4, <2>5, <2>6
<1> HIDE DEF short
<1>2. \A k \in 0 .. Len(short) : View(short, k) = View(chain, k)
  <2> TAKE k \in 0 .. Len(short)
  <2>1. k \in Nat /\ \A j \in 1 .. k : short[j] = chain[j]
    BY <1>1
  <2> QED BY <2>1, ViewPrefix
<1>3. \A k \in 1 .. Len(short) : Good(short[k], View(short, k - 1))
  <2> TAKE k \in 1 .. Len(short)
  <2>1. k \in 1 .. Len(chain) /\ k - 1 \in 0 .. Len(short) /\ short[k] = chain[k]
    BY <1>1
  <2>2. Good(chain[k], View(chain, k - 1))
    BY <2>1, Zenon DEF Sound
  <2> QED BY <1>2, <2>1, <2>2, Zenon
<1>4. \A k \in 0 .. Len(short) : Tidy(View(short, k))
  <2> TAKE k \in 0 .. Len(short)
  <2>1. k \in 0 .. Len(chain)
    BY <1>1
  <2>2. Tidy(View(chain, k))
    BY <2>1, Zenon DEF Sound
  <2> QED BY <1>2, <2>2, Zenon
<1> QED BY <1>1, <1>2, <1>3, <1>4 DEF Sound, short

LEMMA SoundWrite ==
    ASSUME NEW chain, Sound(chain), NEW data, Good(data, View(chain, Len(chain) - 1)),
           Tidy(Over(data, View(chain, Len(chain) - 1)))
    PROVE  LET new == [chain EXCEPT ![Len(chain)] = data]
           IN  /\ Sound(new) /\ Len(new) = Len(chain)
               /\ \A k \in 0 .. Len(chain) - 1 : View(new, k) = View(chain, k)
               /\ View(new, Len(chain)) = Over(data, View(chain, Len(chain) - 1))
<1> DEFINE new == [chain EXCEPT ![Len(chain)] = data]
           top == Len(chain)
<1>1. /\ top \in Nat /\ top >= 1 /\ new \in Seq(Layers) /\ Len(new) = top /\ new # <<>>
      /\ new[top] = data /\ \A k \in 1 .. top - 1 : new[k] = chain[k]
  BY DEF Sound, Good
<1> HIDE DEF new, top
<1>2. \A k \in 0 .. top - 1 : View(new, k) = View(chain, k)
  <2> TAKE k \in 0 .. top - 1
  <2>1. k \in Nat /\ \A j \in 1 .. k : new[j] = chain[j]
    BY <1>1
  <2> QED BY <2>1, ViewPrefix
<1>3. View(new, top) = Over(data, View(chain, top - 1))
  BY <1>1, <1>2, ViewStep
<1>4. \A k \in 1 .. Len(new) : Good(new[k], View(new, k - 1))
  <2> TAKE k \in 1 .. Len(new)
  <2>1. CASE k = top
    BY <1>1, <1>2, <2>1 DEF top
  <2>2. CASE k # top
    BY <1>1, <1>2, <2>2 DEF Sound, top
  <2> QED BY <2>1, <2>2
<1>5. \A k \in 0 .. Len(new) : Tidy(View(new, k))
  <2> TAKE k \in 0 .. Len(new)
  <2>1. CASE k = top
    BY <1>1, <1>3, <2>1 DEF top
  <2>2. CASE k # top
    BY <1>1, <1>2, <2>2 DEF Sound, top
  <2> QED BY <2>1, <2>2
<1> QED BY <1>1, <1>2, <1>3, <1>4, <1>5 DEF Sound, new, top

LEMMA SoundFork ==
    ASSUME NEW chain, Sound(chain)
    PROVE  LET new == Append(chain, newInternalDeltaSnapshotData)
           IN  /\ Sound(new) /\ Len(new) = Len(chain) + 1
               /\ \A k \in 0 .. Len(chain) : View(new, k) = View(chain, k)
               /\ View(new, Len(chain) + 1) = View(chain, Len(chain))
<1> DEFINE new == Append(chain, newInternalDeltaSnapshotData)
           top == Len(chain)
<1>0. newInternalDeltaSnapshotData \in Layers
  BY NewLayer, NoCaches DEF Good
<1>1. /\ top \in Nat /\ new \in Seq(Layers) /\ Len(new) = top + 1 /\ new # <<>>
      /\ new[top + 1] = newInternalDeltaSnapshotData
      /\ \A k \in 1 .. top : new[k] = chain[k]
  BY <1>0 DEF Sound
<1>2. View(chain, top) \in Clusters /\ Tidy(View(chain, top))
  BY <1>1 DEF Sound, Tidy
<1> HIDE DEF new, top
<1>3. \A k \in 0 .. top : View(new, k) = View(chain, k)
  <2> TAKE k \in 0 .. top
  <2>1. k \in Nat /\ \A j \in 1 .. k : new[j] = chain[j]
    BY <1>1
  <2> QED BY <2>1, ViewPrefix
<1>4. View(new, top) = View(chain, top)
  BY <1>1, <1>3
<1>5. View(new, top + 1) = Over(new[top + 1], View(new, top))
  <2>1. top + 1 \in Nat /\ top + 1 >= 1 /\ (top + 1) - 1 = top
    BY <1>1
  <2> QED BY <2>1, ViewStep
<1>6. View(new, top + 1) = View(chain, top)
  BY <1>1, <1>2, <1>4, <1>5, NewLayer
<1>7. \A k \in 1 .. Len(new) : Good(new[k], View(new, k - 1))
  <2> TAKE k \in 1 .. Len(new)
  <2>1. CASE k = top + 1
    BY <1>1, <1>2, <1>3, <2>1, NewLayer
  <2>2. CASE k # top + 1
    BY <1>1, <1>3, <2>2 DEF Sound, top
  <2> QED BY <2>1, <2>2
<1>8. \A k \in 0 .. Len(new) : Tidy(View(new, k))
  <2> TAKE k \in 0 .. Len(new)
  <2>1. CASE k = top + 1
    BY <1>2, <1>6, <2>1
  <2>2. CASE k # top + 1
    BY <1>1, <1>3, <2>2 DEF Sound, top
  <2> QED BY <2>1, <2>2
<1> QED BY <1>1, <1>3, <1>6, <1>7, <1>8 DEF Sound, new, top

\* Chains that differ in caches only.
SameMaps(data, other) ==
    /\ data.addedNodeInfoMap = other.addedNodeInfoMap
    /\ data.modifiedNodeInfoMap = other.modifiedNodeInfoMap
    /\ data.deletedNodeInfos = other.deletedNodeInfos

LEMMA SameMapsShow ==
    ASSUME NEW data, NEW other, SameMaps(data, other), NEW below
    PROVE  /\ Over(data, below) = Over(other, below)
           /\ Fits(data, below) <=> Fits(other, below)
<1>1. \A n : getNodeInfoLocal(data, n) = getNodeInfoLocal(other, n)
  BY DEF SameMaps, getNodeInfoLocal
<1>2. \A n : Mentions(data, n) <=> Mentions(other, n)
  BY <1>1 DEF SameMaps, Mentions
<1> QED BY <1>1, <1>2 DEF Over, Fits, SameMaps

LEMMA SameMapsView ==
    ASSUME NEW chain, NEW other, NEW k \in Nat, \A j \in 1 .. k : SameMaps(chain[j], other[j])
    PROVE  View(chain, k) = View(other, k)
<1>1. \A j \in 1 .. k : \A n :
        /\ getNodeInfoLocal(chain[j], n) = getNodeInfoLocal(other[j], n)
        /\ Mentions(chain[j], n) <=> Mentions(other[j], n)
  BY DEF SameMaps, getNodeInfoLocal, Mentions
<1> SUFFICES ASSUME NEW n \in Nodes
             PROVE  getNodeInfo(chain, k, n) = getNodeInfo(other, k, n)
  BY DEF View
<1> DEFINE S == Mentioning(chain, k, n)
<1>2. S = Mentioning(other, k, n) /\ S \subseteq 1 .. k
  BY <1>1 DEF Mentioning
<1>3. ASSUME S # {} PROVE Topmost(S) \in 1 .. k
  BY <1>2, <1>3, LargestExists DEF Topmost
<1> HIDE DEF S
<1> QED BY <1>1, <1>2, <1>3 DEF getNodeInfo, S

\* Filling a cache of a layer leaves what every layer shows.
LEMMA SoundCache ==
    ASSUME NEW chain, Sound(chain), NEW i \in 1 .. Len(chain),
           NEW data \in Layers, SameMaps(data, chain[i]), Fresh(data, View(chain, i))
    PROVE  LET new == [chain EXCEPT ![i] = data]
           IN  /\ Sound(new) /\ Len(new) = Len(chain)
               /\ \A k \in 0 .. Len(chain) : View(new, k) = View(chain, k)
<1> DEFINE new == [chain EXCEPT ![i] = data]
<1>1. /\ Len(chain) \in Nat /\ new \in Seq(Layers) /\ Len(new) = Len(chain) /\ new # <<>>
      /\ new[i] = data /\ \A k \in 1 .. Len(chain) : k # i => new[k] = chain[k]
  BY DEF Sound
<1> HIDE DEF new
<1>2. \A k \in 1 .. Len(chain) : SameMaps(new[k], chain[k])
  BY <1>1 DEF SameMaps
<1>3. \A k \in 0 .. Len(chain) : View(new, k) = View(chain, k)
  <2> TAKE k \in 0 .. Len(chain)
  <2>1. k \in Nat /\ \A j \in 1 .. k : SameMaps(new[j], chain[j])
    BY <1>1, <1>2
  <2> QED BY <2>1, SameMapsView
<1>4. Good(data, View(chain, i - 1))
  <2>1. Good(chain[i], View(chain, i - 1)) /\ i \in Nat /\ i >= 1
    BY <1>1 DEF Sound
  <2>2. View(chain, i) = Over(chain[i], View(chain, i - 1))
    BY <2>1, ViewStep
  <2> QED BY <2>1, <2>2, SameMapsShow DEF Good
<1>5. \A k \in 1 .. Len(new) : Good(new[k], View(new, k - 1))
  BY <1>1, <1>3, <1>4 DEF Sound
<1>6. \A k \in 0 .. Len(new) : Tidy(View(new, k))
  BY <1>1, <1>3 DEF Sound
<1> QED BY <1>1, <1>3, <1>5, <1>6 DEF Sound, new

-----------------------------------------------------------------------------
(* The copies the reference store holds *)

Using(pods) == [c \in PVCs |-> {p \in pods : c \in ClaimsOf[p]}]
Copy(cluster) == [nodeInfoMap |-> cluster, pvcNamespacePodMap |-> Using(PodsIn(cluster))]
CopiesOf(chain) == [k \in 1 .. Len(chain) |-> Copy(View(chain, k))]

LEMMA CopiesAre ==
    Copies = CopiesOf(layers)
BY DEF Copies, CopiesOf, Copy, Using, PodsUsing, Top

LEMMA CopiesLen ==
    ASSUME NEW chain, Len(chain) \in Nat
    PROVE  /\ Len(CopiesOf(chain)) = Len(chain)
           /\ \A k \in 1 .. Len(chain) : CopiesOf(chain)[k] = Copy(View(chain, k))
<1> DEFINE f == CopiesOf(chain)
           S == {Copy(View(chain, k)) : k \in 1 .. Len(chain)}
           n == Len(chain)
<1>1. f \in [1 .. n -> S] /\ \A k \in 1 .. n : f[k] = Copy(View(chain, k))
  BY DEF CopiesOf
<1> HIDE DEF f, S
<1>2. f \in Seq(S) /\ Len(f) = n
  BY <1>1
<1> QED BY <1>1, <1>2 DEF f, S

LEMMA CopiesWritten ==
    ASSUME NEW chain, NEW new, Len(chain) \in Nat, Len(chain) >= 1, Len(new) = Len(chain),
           \A k \in 0 .. Len(chain) - 1 : View(new, k) = View(chain, k)
    PROVE  CopiesOf(new) = [CopiesOf(chain) EXCEPT ![Len(chain)] = Copy(View(new, Len(chain)))]
<1>1. ASSUME NEW k \in 1 .. Len(chain)
      PROVE  Copy(View(new, k)) =
                IF k = Len(chain) THEN Copy(View(new, Len(chain))) ELSE Copy(View(chain, k))
  BY <1>1
<1> QED BY <1>1 DEF CopiesOf

LEMMA CopiesSame ==
    ASSUME NEW chain, NEW new, Len(chain) \in Nat, Len(new) = Len(chain),
           \A k \in 0 .. Len(chain) : View(new, k) = View(chain, k)
    PROVE  CopiesOf(new) = CopiesOf(chain)
BY DEF CopiesOf

\* `new' is a cluster to which more pods have come, on a node that was there or is new.
PodsCome(cluster, n, more, new) ==
    /\ Tidy(cluster) /\ n \in Nodes /\ more \in SUBSET (Pods \ PodsIn(cluster))
    /\ new = [cluster EXCEPT ![n] = IF cluster[n] = Nil THEN more ELSE cluster[n] \cup more]

LEMMA PodsHaveCome ==
    ASSUME NEW cluster, NEW n, NEW more, NEW new, PodsCome(cluster, n, more, new)
    PROVE  Tidy(new) /\ PodsIn(new) = PodsIn(cluster) \cup more
<1> USE DEF PodsCome
<1> DEFINE pods == IF cluster[n] = Nil THEN more ELSE cluster[n] \cup more
<1> DEFINE old == IF cluster[n] = Nil THEN {} ELSE cluster[n]
<1>0. /\ cluster \in Clusters /\ more \subseteq Pods
      /\ old \in NodeInfos /\ pods = old \cup more
      /\ cluster[n] = Nil => old = {}
      /\ cluster[n] # Nil => old = cluster[n]
  BY DEF Tidy, Clusters, NodeInfos
<1> HIDE DEF old
<1>1. /\ new \in Clusters /\ new[n] = old \cup more /\ new[n] # Nil
      /\ \A m \in Nodes : m # n => new[m] = cluster[m]
  BY <1>0, ContentsAssumption DEF Clusters, NodeInfos
<1>2. \A m \in Nodes : cluster[m] # Nil => cluster[m] \cap more = {}
  BY <1>0 DEF PodsIn
<1>3. Tidy(new)
  <2> SUFFICES ASSUME NEW i \in Nodes, NEW j \in Nodes, i # j, new[i] # Nil, new[j] # Nil
               PROVE  new[i] \cap new[j] = {}
    BY <1>1 DEF Tidy
  <2>1. ASSUME NEW m \in Nodes, m # n, cluster[m] # Nil PROVE cluster[m] \cap (old \cup more) = {}
    <3>1. cluster[m] \cap old = {}
      BY <1>0, <2>1 DEF Tidy
    <3> QED BY <1>2, <2>1, <3>1
  <2>2. CASE i = n
    BY <1>1, <2>1, <2>2
  <2>3. CASE j = n
    BY <1>1, <2>1, <2>3
  <2>4. CASE i # n /\ j # n
    BY <1>1, <2>4 DEF Tidy
  <2> QED BY <2>2, <2>3, <2>4
<1>4. PodsIn(new) = PodsIn(cluster) \cup more
  <2>1. PodsIn(new) \subseteq PodsIn(cluster) \cup more
    BY <1>0, <1>1 DEF PodsIn
  <2>2. PodsIn(cluster) \subseteq PodsIn(new)
    BY <1>0, <1>1 DEF PodsIn
  <2>3. more \subseteq PodsIn(new)
    BY <1>0, <1>1 DEF PodsIn
  <2> QED BY <2>1, <2>2, <2>3
<1> QED BY <1>3, <1>4

\* `new' is a cluster from which pods have gone, with their node (left = Nil) or without.
PodsGo(cluster, n, gone, left, new) ==
    /\ Tidy(cluster) /\ n \in Nodes /\ cluster[n] # Nil /\ gone \in SUBSET cluster[n]
    /\ left = cluster[n] \ gone \/ (left = Nil /\ gone = cluster[n])
    /\ new = [cluster EXCEPT ![n] = left]

LEMMA PodsHaveGone ==
    ASSUME NEW cluster, NEW n, NEW gone, NEW left, NEW new, PodsGo(cluster, n, gone, left, new)
    PROVE  Tidy(new) /\ PodsIn(new) = PodsIn(cluster) \ gone
<1> USE DEF PodsGo
<1>0. cluster \in Clusters /\ cluster[n] \in NodeInfos
  BY DEF Tidy, Clusters
<1>1. /\ new \in Clusters /\ new[n] = left
      /\ \A m \in Nodes : m # n => new[m] = cluster[m]
  BY <1>0 DEF Clusters, NodeInfos
<1>2. \A m \in Nodes : m # n /\ cluster[m] # Nil => cluster[m] \cap cluster[n] = {}
  BY DEF Tidy
<1>3. Tidy(new)
  <2> SUFFICES ASSUME NEW i \in Nodes, NEW j \in Nodes, i # j, new[i] # Nil, new[j] # Nil
               PROVE  new[i] \cap new[j] = {}
    BY <1>1 DEF Tidy
  <2>1. ASSUME NEW m \in Nodes, new[m] # Nil PROVE cluster[m] # Nil /\ new[m] \subseteq cluster[m]
    BY <1>1, <2>1
  <2>2. cluster[i] \cap cluster[j] = {}
    BY <2>1 DEF Tidy
  <2> QED BY <2>1, <2>2
<1>4. PodsIn(new) = PodsIn(cluster) \ gone
  <2>1. PodsIn(new) \subseteq PodsIn(cluster) \ gone
    BY <1>1, <1>2 DEF PodsIn
  <2>2. PodsIn(cluster) \ gone \subseteq PodsIn(new)
    BY <1>0, <1>1, ContentsAssumption DEF PodsIn, NodeInfos
  <2> QED BY <2>1, <2>2
<1> QED BY <1>3, <1>4

-----------------------------------------------------------------------------
(* The calls *)

LEMMA Arrives ==
    ASSUME NEW pods, NEW more
    PROVE  Using(pods \cup more) = Basic!addPvcUsedByPod(Using(pods), more)
BY DEF Using, Basic!addPvcUsedByPod

LEMMA Leaves ==
    ASSUME NEW pods, NEW gone
    PROVE  Using(pods \ gone) = Basic!removePvcUsedByPod(Using(pods), gone)
BY DEF Using, Basic!removePvcUsedByPod

\* The call writes the top layer so that it shows `shown'.
Shows(shown) ==
    /\ Sound(layers')
    /\ CopiesOf(layers') = [CopiesOf(layers) EXCEPT ![Top] = Copy(shown)]

LEMMA Written ==
    ASSUME Sound(layers), NEW data, Good(data, Below), Tidy(Over(data, Below)),
           layers' = [layers EXCEPT ![Top] = data]
    PROVE  Shows(Over(data, Below))
<1>1. /\ Sound(layers') /\ Len(layers') = Len(layers)
      /\ \A k \in 0 .. Len(layers) - 1 : View(layers', k) = View(layers, k)
      /\ View(layers', Len(layers)) = Over(data, View(layers, Len(layers) - 1))
  BY SoundWrite DEF Below, Top
<1>2. Len(layers) \in Nat /\ Len(layers) >= 1
  BY SoundTop
<1>3. CopiesOf(layers') = [CopiesOf(layers) EXCEPT ![Len(layers)] = Copy(View(layers', Len(layers)))]
  BY <1>1, <1>2, CopiesWritten
<1> QED BY <1>1, <1>3 DEF Shows, Below, Top

\* What every call finds.
LEMMA Found ==
    ASSUME Sound(layers)
    PROVE  /\ Top \in Nat /\ Top >= 1 /\ Data \in Layers
           /\ Good(Data, Below) /\ Below \in Clusters /\ Tidy(Cluster) /\ Cluster \in Clusters
           /\ Cluster = Over(Data, Below)
           /\ Len(CopiesOf(layers)) = Top /\ CopiesOf(layers)[Top] = Copy(Cluster)
<1>1. Len(layers) \in Nat /\ Len(layers) >= 1
  BY SoundTop
<1>2. /\ Len(CopiesOf(layers)) = Top /\ CopiesOf(layers)[Top] = Copy(Cluster)
  <2>1. /\ Len(CopiesOf(layers)) = Len(layers)
        /\ CopiesOf(layers)[Len(layers)] = Copy(View(layers, Len(layers)))
    BY <1>1, CopiesLen
  <2> QED BY <2>1 DEF Top, Cluster
<1> QED BY <1>2, SoundTop DEF Top, Data, Below, Cluster, Tidy

\* What the reference store finds.
LEMMA Mapped ==
    ASSUME Sound(layers)
    PROVE  /\ Copies = CopiesOf(layers) /\ Copies' = CopiesOf(layers')
           /\ Len(Copies) = Top /\ Basic!nodeInfoMap = Cluster
           /\ Basic!pvcNamespacePodMap = Using(PodsIn(Cluster))
<1>1. Copies' = CopiesOf(layers')
  BY DEF Copies, CopiesOf, Copy, Using, PodsUsing, Top
<1>2. Copies[Len(Copies)] = Copy(Cluster) /\ Len(Copies) = Top
  BY CopiesAre, Found
<1>3. Basic!nodeInfoMap = Cluster /\ Basic!pvcNamespacePodMap = Using(PodsIn(Cluster))
  BY <1>2 DEF Basic!nodeInfoMap, Basic!pvcNamespacePodMap, Basic!getInternalData, Copy
<1> QED BY <1>1, <1>2, <1>3, CopiesAre

LEMMA Replaced ==
    ASSUME Sound(layers), NEW shown, Shows(shown), NEW pvcs, Using(PodsIn(shown)) = pvcs
    PROVE  Sound(layers') /\ Basic!SetTop(shown, pvcs)
<1>1. Copy(shown) = [nodeInfoMap |-> shown, pvcNamespacePodMap |-> pvcs]
  BY DEF Copy
<1> QED BY <1>1, Mapped DEF Shows, Basic!SetTop

LEMMA StoreNodeInfoStep ==
    ASSUME Sound(layers), NEW n \in Nodes, NEW pods \in SUBSET (Pods \ PodsIn(Cluster)),
           StoreNodeInfo(n, pods)
    PROVE  Sound(layers') /\ Basic!StoreNodeInfo(n, pods)
<1>1. CASE Cluster[n] # Nil
  <2>1. layers' = layers /\ result' = <<"node already in snapshot">>
    BY <1>1 DEF StoreNodeInfo, Return
  <2>2. Copies' = Copies
    BY <2>1, Mapped
  <2> QED BY <1>1, <2>1, <2>2, Mapped DEF Basic!StoreNodeInfo
<1>2. CASE Cluster[n] = Nil
  <2> DEFINE infos == [NoNodes EXCEPT ![n] = pods]
             new == [Cluster EXCEPT ![n] = pods]
  <2>1. /\ layers' = [layers EXCEPT ![Top] = addNodeInfo(Data, infos)]
        /\ result' = <<"ok">>
    BY <1>2 DEF StoreNodeInfo, Return, Write
  <2>2. pods \in NodeInfos /\ pods # Nil
    BY ContentsAssumption DEF NodeInfos
  <2>3. infos \in Clusters /\ \A m \in Nodes : infos[m] = IF m = n THEN pods ELSE Nil
    BY <2>2 DEF Clusters, NoNodes
  <2> HIDE DEF infos
  <2>4. /\ Good(addNodeInfo(Data, infos), Below)
        /\ Over(addNodeInfo(Data, infos), Below) =
             [m \in Nodes |-> IF infos[m] # Nil THEN infos[m] ELSE Cluster[m]]
    BY <1>2, <2>2, <2>3, Found, AddNodes
  <2>5. Over(addNodeInfo(Data, infos), Below) = new
    BY <2>2, <2>3, <2>4, Found DEF Clusters
  <2>6. Tidy(new) /\ PodsIn(new) = PodsIn(Cluster) \cup pods
    <3>1. PodsCome(Cluster, n, pods, new)
      BY <1>2, Found DEF PodsCome
    <3> QED BY <3>1, PodsHaveCome
  <2> HIDE DEF new
  <2>7. Shows(new)
    BY <2>1, <2>4, <2>5, <2>6, Written
  <2>8. Using(PodsIn(new)) = Basic!addPvcUsedByPod(Using(PodsIn(Cluster)), pods)
    BY <2>6, Arrives
  <2>9. Sound(layers') /\ Basic!SetTop(new, Basic!addPvcUsedByPod(Using(PodsIn(Cluster)), pods))
    BY <2>7, <2>8, Replaced
  <2> QED BY <1>2, <2>1, <2>9, Mapped DEF Basic!StoreNodeInfo, new
<1> QED BY <1>1, <1>2

LEMMA ReplaceSame ==
    ASSUME NEW S, NEW chain \in Seq(S), NEW i, NEW data, data = chain[i]
    PROVE  [chain EXCEPT ![i] = data] = chain
<1>1. chain = [j \in DOMAIN chain |-> chain[j]]
  OBVIOUS
<1> QED BY <1>1

LEMMA RemoveNodeInfoStep ==
    ASSUME Sound(layers), NEW n \in Nodes, RemoveNodeInfo(n)
    PROVE  Sound(layers') /\ Basic!RemoveNodeInfo(n)
<1> DEFINE missing == n \in Data.deletedNodeInfos
                        \/ (Below[n] = Nil /\ Data.addedNodeInfoMap[n] = Nil)
<1>0. /\ Fits(Data, Below) /\ Data \in Layers
      /\ Cluster[n] = IF Mentions(Data, n) THEN getNodeInfoLocal(Data, n) ELSE Below[n]
  BY Found DEF Good, Over
<1>1. missing <=> Cluster[n] = Nil
  BY <1>0 DEF Fits, Mentions, getNodeInfoLocal
<1>2. CASE missing
  <2>1. Data.addedNodeInfoMap[n] = Nil /\ Data.modifiedNodeInfoMap[n] = Nil
    BY <1>0, <1>2 DEF Fits, getNodeInfoLocal
  <2>2. [Data EXCEPT !.addedNodeInfoMap[n] = Nil, !.modifiedNodeInfoMap[n] = Nil] = Data
    BY <1>0, <2>1 DEF Layers, Clusters
  <2>3. result' = <<"node not found">> /\ layers' = [layers EXCEPT ![Top] = Data]
    BY <1>2, <2>2 DEF RemoveNodeInfo, Return, Write
  <2>4. layers' = layers
    <3>1. layers \in Seq(Layers)
      BY DEF Sound
    <3> QED BY <2>3, <3>1, ReplaceSame DEF Data
  <2>5. Copies' = Copies
    BY <2>4, Mapped
  <2> QED BY <1>1, <1>2, <2>3, <2>4, <2>5, Mapped DEF Basic!RemoveNodeInfo
<1>3. CASE ~missing
  <2> DEFINE new == [Cluster EXCEPT ![n] = Nil]
  <2>1. /\ layers' = [layers EXCEPT ![Top] = removeNodeInfo(Data, Below, {n})]
        /\ result' = <<"ok">>
    BY <1>3 DEF RemoveNodeInfo, Return, Write
  <2>2. {n} \in SUBSET Nodes /\ \A m \in {n} : Over(Data, Below)[m] # Nil
    BY <1>1, <1>3, Found
  <2>3. /\ Good(removeNodeInfo(Data, Below, {n}), Below)
        /\ Over(removeNodeInfo(Data, Below, {n}), Below) =
             [m \in Nodes |-> IF m \in {n} THEN Nil ELSE Cluster[m]]
    BY <2>2, Found, RemoveNodes
  <2>4. Over(removeNodeInfo(Data, Below, {n}), Below) = new
    BY <2>3, Found DEF Clusters
  <2>5. Tidy(new) /\ PodsIn(new) = PodsIn(Cluster) \ Cluster[n]
    <3>1. PodsGo(Cluster, n, Cluster[n], Nil, new)
      BY <1>1, <1>3, Found DEF PodsGo
    <3> HIDE DEF new
    <3> QED BY <3>1, PodsHaveGone
  <2> HIDE DEF new
  <2>6. Shows(new)
    BY <2>1, <2>3, <2>4, <2>5, Written
  <2>7. Using(PodsIn(new)) = Basic!removePvcUsedByPod(Using(PodsIn(Cluster)), Cluster[n])
    BY <2>5, Leaves
  <2>8. Sound(layers') /\
        Basic!SetTop(new, Basic!removePvcUsedByPod(Using(PodsIn(Cluster)), Cluster[n]))
    BY <2>6, <2>7, Replaced
  <2> QED BY <1>1, <1>3, <2>1, <2>8, Mapped DEF Basic!RemoveNodeInfo, new
<1> QED BY <1>2, <1>3

\* A change of the pods of a node that is there.
LEMMA ChangePodsStep ==
    ASSUME Sound(layers), NEW n \in Nodes, Cluster[n] # Nil, NEW pods \in NodeInfos,
           Tidy([Cluster EXCEPT ![n] = pods]),
           layers' = [layers EXCEPT ![Top] = ChangePods(Data, n, pods)]
    PROVE  Shows([Cluster EXCEPT ![n] = pods])
<1>1. /\ Good(ChangePods(Data, n, pods), Below)
      /\ Over(ChangePods(Data, n, pods), Below) = [Cluster EXCEPT ![n] = pods]
  BY Found, ChangeNode
<1>2. Tidy(Over(ChangePods(Data, n, pods), Below))
  BY <1>1
<1>3. Shows(Over(ChangePods(Data, n, pods), Below))
  BY <1>1, <1>2, Written
<1> QED BY <1>1, <1>3

LEMMA StorePodInfoStep ==
    ASSUME Sound(layers), NEW n \in Nodes, NEW p \in Pods \ PodsIn(Cluster), StorePodInfo(p, n)
    PROVE  Sound(layers') /\ Basic!StorePodInfo(p, n)
<1>1. CASE Cluster[n] = Nil
  <2>1. layers' = layers /\ result' = <<"node not found">>
    BY <1>1 DEF StorePodInfo, Return
  <2>2. Copies' = Copies
    BY <2>1, Mapped
  <2> QED BY <1>1, <2>1, <2>2, Mapped DEF Basic!StorePodInfo
<1>2. CASE Cluster[n] # Nil
  <2> DEFINE new == [Cluster EXCEPT ![n] = Cluster[n] \cup {p}]
  <2>1. /\ layers' = [layers EXCEPT ![Top] = ChangePods(Data, n, Cluster[n] \cup {p})]
        /\ result' = <<"ok">>
    BY <1>2 DEF StorePodInfo, Return, Write
  <2>2. Cluster[n] \cup {p} \in NodeInfos
    BY <1>2, Found DEF Clusters, NodeInfos
  <2>3. Tidy(new) /\ PodsIn(new) = PodsIn(Cluster) \cup {p}
    <3>1. PodsCome(Cluster, n, {p}, new)
      BY <1>2, Found DEF PodsCome
    <3> QED BY <3>1, PodsHaveCome
  <2>4. Shows(new)
    BY <1>2, <2>1, <2>2, <2>3, ChangePodsStep
  <2>5. Using(PodsIn(new)) = Basic!addPvcUsedByPod(Using(PodsIn(Cluster)), {p})
    BY <2>3, Arrives
  <2>6. new = [Cluster EXCEPT ![n] = @ \cup {p}]
    OBVIOUS
  <2> HIDE DEF new
  <2>7. Sound(layers') /\ Basic!SetTop(new, Basic!addPvcUsedByPod(Using(PodsIn(Cluster)), {p}))
    BY <2>4, <2>5, Replaced
  <2> QED BY <1>2, <2>1, <2>6, <2>7, Mapped DEF Basic!StorePodInfo
<1> QED BY <1>1, <1>2

LEMMA RemovePodInfoStep ==
    ASSUME Sound(layers), NEW n \in Nodes, NEW p \in Pods, RemovePodInfo(p, n)
    PROVE  Sound(layers') /\ Basic!RemovePodInfo(p, n)
<1>1. CASE Cluster[n] = Nil
  <2>1. layers' = layers /\ result' = <<"node not found">>
    BY <1>1 DEF RemovePodInfo, Return
  <2>2. Copies' = Copies
    BY <2>1, Mapped
  <2> QED BY <1>1, <2>1, <2>2, Mapped DEF Basic!RemovePodInfo
<1>2. CASE Cluster[n] # Nil /\ p \in Cluster[n]
  <2> DEFINE new == [Cluster EXCEPT ![n] = Cluster[n] \ {p}]
  <2>1. /\ layers' = [layers EXCEPT ![Top] = ChangePods(Data, n, Cluster[n] \ {p})]
        /\ result' = <<"ok">>
    BY <1>2 DEF RemovePodInfo, Return, Write
  <2>2. Cluster[n] \ {p} \in NodeInfos
    BY <1>2, Found DEF Clusters, NodeInfos
  <2>3. Tidy(new) /\ PodsIn(new) = PodsIn(Cluster) \ {p}
    <3>1. PodsGo(Cluster, n, {p}, Cluster[n] \ {p}, new)
      BY <1>2, Found DEF PodsGo
    <3> HIDE DEF new
    <3> QED BY <3>1, PodsHaveGone
  <2>4. Shows(new)
    BY <1>2, <2>1, <2>2, <2>3, ChangePodsStep
  <2>5. Using(PodsIn(new)) = Basic!removePvcUsedByPod(Using(PodsIn(Cluster)), {p})
    BY <2>3, Leaves
  <2>6. new = [Cluster EXCEPT ![n] = @ \ {p}]
    OBVIOUS
  <2> HIDE DEF new
  <2>7. Sound(layers') /\ Basic!SetTop(new, Basic!removePvcUsedByPod(Using(PodsIn(Cluster)), {p}))
    BY <2>4, <2>5, Replaced
  <2> QED BY <1>2, <2>1, <2>6, <2>7, Mapped DEF Basic!RemovePodInfo
<1>3. CASE Cluster[n] # Nil /\ p \notin Cluster[n]
  <2>1. result' = <<"pod not in snapshot">>
    BY <1>3 DEF RemovePodInfo, Return
  <2>2. Sound(layers') /\ Copies' = Copies
    <3>1. CASE getNodeInfoLocal(Data, n) # Nil
      <4>1. layers' = layers
        BY <1>3, <3>1 DEF RemovePodInfo
      <4> QED BY <4>1, Mapped
    <3>2. CASE getNodeInfoLocal(Data, n) = Nil
      <4>1. layers' = [layers EXCEPT ![Top] = ChangePods(Data, n, Cluster[n])]
        BY <1>3, <3>2 DEF RemovePodInfo, Write
      <4>2. Cluster[n] \in NodeInfos /\ [Cluster EXCEPT ![n] = Cluster[n]] = Cluster
        BY <1>3, Found DEF Clusters
      <4>3. Tidy([Cluster EXCEPT ![n] = Cluster[n]])
        BY <4>2, Found
      <4>4. Shows([Cluster EXCEPT ![n] = Cluster[n]])
        BY <1>3, <4>1, <4>2, <4>3, ChangePodsStep
      <4>5. Shows(Cluster)
        BY <4>2, <4>4
      <4>6. [CopiesOf(layers) EXCEPT ![Top] = Copy(Cluster)] = CopiesOf(layers)
        <5>1. CopiesOf(layers)[Top] = Copy(Cluster)
          BY Found
        <5> QED BY <5>1 DEF CopiesOf
      <4> QED BY <4>5, <4>6, Mapped DEF Shows
    <3> QED BY <3>1, <3>2
  <2> QED BY <1>3, <2>1, <2>2, Mapped DEF Basic!RemovePodInfo
<1> QED BY <1>1, <1>2, <1>3

LEMMA CopiesSeq ==
    ASSUME NEW chain, Len(chain) \in Nat
    PROVE  \E S : CopiesOf(chain) \in Seq(S)
<1> DEFINE S == {Copy(View(chain, k)) : k \in 1 .. Len(chain)}
           f == CopiesOf(chain)
           n == Len(chain)
<1>1. f \in [1 .. n -> S]
  BY DEF CopiesOf
<1> HIDE DEF f, S
<1>2. f \in Seq(S)
  BY <1>1
<1> QED BY <1>2 DEF f

LEMMA Appended ==
    ASSUME NEW S, NEW f \in Seq(S), NEW e
    PROVE  Append(f, e) = [k \in 1 .. Len(f) + 1 |-> IF k = Len(f) + 1 THEN e ELSE f[k]]
<1> DEFINE T == S \cup {e}
<1>1. Len(f) \in Nat /\ f \in [1 .. Len(f) -> T]
  OBVIOUS
<1>2. f \in Seq(T) /\ e \in T
  BY <1>1
<1> HIDE DEF T
<1>3. /\ Append(f, e) \in Seq(T) /\ Len(Append(f, e)) = Len(f) + 1
      /\ \A k \in 1 .. Len(f) : Append(f, e)[k] = f[k]
      /\ Append(f, e)[Len(f) + 1] = e
  BY <1>2
<1> DEFINE g == Append(f, e)
<1>4. g \in Seq(T) /\ Len(g) = Len(f) + 1
  BY <1>3
<1> HIDE DEF g
<1>5. g = [k \in 1 .. Len(f) + 1 |-> g[k]]
  BY <1>4
<1>6. \A k \in 1 .. Len(f) + 1 : g[k] = IF k = Len(f) + 1 THEN e ELSE f[k]
  BY <1>1, <1>3 DEF g
<1> QED BY <1>5, <1>6 DEF g

LEMMA ForkStep ==
    ASSUME Sound(layers), Fork
    PROVE  Sound(layers') /\ Len(Copies) <= MaxForks /\ Basic!Fork
<1>1. /\ Top <= MaxForks /\ layers' = Append(layers, newInternalDeltaSnapshotData)
      /\ result' = <<"ok">>
  BY DEF Fork, Return
<1>2. /\ Sound(layers') /\ Len(layers') = Len(layers) + 1
      /\ \A k \in 0 .. Len(layers) : View(layers', k) = View(layers, k)
      /\ View(layers', Len(layers) + 1) = View(layers, Len(layers))
  BY <1>1, SoundFork
<1>3. PICK S : CopiesOf(layers) \in Seq(S)
  BY Found, CopiesSeq DEF Top
<1>4. CopiesOf(layers)[Top] = Copy(Cluster) /\ Len(CopiesOf(layers)) = Top
  BY Found
<1>5. CopiesOf(layers') = Append(CopiesOf(layers), Copy(Cluster))
  <2> DEFINE f == CopiesOf(layers)
             g == CopiesOf(layers')
             n == Len(layers)
  <2>1. n \in Nat /\ Len(f) = n
    BY <1>4, Found DEF Top
  <2>2. g = [k \in 1 .. n + 1 |-> IF k = n + 1 THEN Copy(Cluster) ELSE f[k]]
    BY <1>2, <2>1 DEF CopiesOf, Cluster, Top
  <2> HIDE DEF f, g
  <2>3. f \in Seq(S)
    BY <1>3 DEF f
  <2>4. Append(f, Copy(Cluster)) = [k \in 1 .. Len(f) + 1 |-> IF k = Len(f) + 1 THEN Copy(Cluster)
                                                              ELSE f[k]]
    BY <2>3, Appended
  <2> QED BY <2>1, <2>2, <2>4 DEF f, g
<1> QED BY <1>1, <1>2, <1>4, <1>5, Mapped DEF Basic!Fork, Basic!getInternalData

LEMMA RevertStep ==
    ASSUME Sound(layers), Revert
    PROVE  Sound(layers') /\ Basic!Revert
<1>1. CASE Top = 1
  <2>1. layers' = layers /\ result' = <<"ok">>
    BY <1>1 DEF Revert, Return
  <2> QED BY <1>1, <2>1, Mapped DEF Basic!Revert
<1>2. CASE Top # 1
  <2>1. layers' = SubSeq(layers, 1, Top - 1) /\ result' = <<"ok">>
    BY <1>2 DEF Revert, Return
  <2>2. /\ Sound(layers') /\ Len(layers') = Len(layers) - 1
        /\ \A k \in 0 .. Len(layers') : View(layers', k) = View(layers, k)
    BY <1>2, <2>1, Found, SoundDrop DEF Top
  <2>3. CopiesOf(layers') = SubSeq(CopiesOf(layers), 1, Top - 1)
    <3> DEFINE f == CopiesOf(layers)
               g == CopiesOf(layers')
    <3>1. Top \in Nat /\ Top >= 1 /\ Len(f) = Top
      BY Found
    <3>2. g = [k \in 1 .. Top - 1 |-> f[k]]
      BY <2>2, <3>1 DEF CopiesOf, Top
    <3>3. PICK S : f \in Seq(S)
      BY Found, CopiesSeq DEF Top
    <3> HIDE DEF f, g
    <3> QED BY <3>1, <3>2, <3>3 DEF f, g
  <2> QED BY <1>2, <2>1, <2>2, <2>3, Mapped DEF Basic!Revert
<1> QED BY <1>1, <1>2

LEMMA CommitStep ==
    ASSUME Sound(layers), Commit
    PROVE  Sound(layers') /\ Basic!Commit
<1>0. Top \in Nat /\ Top >= 1
  BY Found
<1>1. CASE Top = 1
  <2>1. layers' = layers /\ result' = <<"ok">>
    BY <1>1 DEF Commit, Return
  <2> QED BY <1>1, <2>1, Mapped DEF Basic!Commit
<1>2. CASE Top > 1
  <2> DEFINE short == SubSeq(layers, 1, Top - 1)
             base == layers[Top - 1]
             under == View(layers, Top - 2)
             merged == Merge(base, under, Data)
  <2>1. /\ Sound(short) /\ Len(short) = Top - 1
        /\ \A k \in 1 .. Top - 1 : short[k] = layers[k]
        /\ \A k \in 0 .. Top - 1 : View(short, k) = View(layers, k)
    BY <1>2, SoundDrop DEF Top
  <2> HIDE DEF short
  <2>2. /\ short[Top - 1] = base /\ View(short, Top - 2) = under
        /\ View(short, Top - 1) = Below /\ (Top - 1) - 1 = Top - 2
    BY <1>0, <1>2, <2>1 DEF Below
  <2>3. Good(base, under) /\ under \in Clusters /\ Below = Over(base, under)
    <3> HIDE DEF base, under
    <3> DEFINE top == Len(short)
    <3>1. top = Top - 1 /\ top >= 1
      BY <1>0, <1>2, <2>1
    <3>2. /\ Good(short[top], View(short, top - 1))
          /\ Tidy(View(short, top - 1))
          /\ View(short, top) = Over(short[top], View(short, top - 1))
      BY <2>1, SoundTop
    <3>3. short[top] = base /\ View(short, top - 1) = under /\ View(short, top) = Below
      BY <2>2, <3>1
    <3>4. under \in Clusters
      BY <3>2, <3>3 DEF Tidy
    <3> QED BY <3>2, <3>3, <3>4
  <2>4. Good(Data, Over(base, under)) /\ Cluster = Over(Data, Over(base, under))
    BY <2>3, Found
  <2>5. ~CommitFails(Below, Data) /\ Good(merged, under) /\ Over(merged, under) = Cluster
    BY <2>3, <2>4, MergeLayers
  <2>6. layers' = [short EXCEPT ![Top - 1] = merged] /\ result' = <<"ok">>
    <3> HIDE DEF base, under
    <3>1. /\ layers' = [short EXCEPT ![Top - 1] = Merge(short[Top - 1], under, Data)]
          /\ result' = <<"ok">>
      <4>1. Top # 1
        BY <1>0, <1>2
      <4> QED BY <2>5, <4>1 DEF Commit, Return, short, under
    <3> QED BY <2>2, <3>1
  <2> HIDE DEF merged, base, under
  <2>7. /\ Sound(layers') /\ Len(layers') = Top - 1
        /\ \A k \in 0 .. Top - 2 : View(layers', k) = View(short, k)
        /\ View(layers', Top - 1) = Cluster
    <3>1. layers' = [short EXCEPT ![Len(short)] = merged]
      BY <2>1, <2>6
    <3>2. /\ Good(merged, View(short, Len(short) - 1))
          /\ Over(merged, View(short, Len(short) - 1)) = Cluster
      BY <2>1, <2>2, <2>5
    <3>3. Tidy(Over(merged, View(short, Len(short) - 1)))
      BY <3>2, Found
    <3>4. /\ Sound(layers') /\ Len(layers') = Len(short)
          /\ \A k \in 0 .. Len(short) - 1 : View(layers', k) = View(short, k)
          /\ View(layers', Len(short)) = Over(merged, View(short, Len(short) - 1))
      BY <2>1, <3>1, <3>2, <3>3, SoundWrite
    <3> QED BY <2>1, <2>2, <3>2, <3>4
  <2>8. \A k \in 0 .. Top - 2 : View(layers', k) = View(layers, k)
    BY <1>0, <2>1, <2>7
  <2>9. CopiesOf(layers') = Append(SubSeq(CopiesOf(layers), 1, Top - 2), Copy(Cluster))
    <3> DEFINE f == CopiesOf(layers)
               g == CopiesOf(layers')
               h == SubSeq(f, 1, Top - 2)
               e == Copy(Cluster)
    <3>1. Len(f) = Top
      BY Found
    <3>2. PICK S : f \in Seq(S)
      BY Found, CopiesSeq DEF Top
    <3>3. g = [k \in 1 .. Top - 1 |-> IF k = Top - 1 THEN e ELSE f[k]]
      <4>1. ASSUME NEW k \in 1 .. Top - 1
            PROVE  Copy(View(layers', k)) = IF k = Top - 1 THEN e ELSE Copy(View(layers, k))
        BY <1>0, <2>7, <2>8
      <4>2. g = [k \in 1 .. Top - 1 |-> Copy(View(layers', k))]
        BY <2>7 DEF CopiesOf
      <4>3. \A k \in 1 .. Top - 1 : f[k] = Copy(View(layers, k))
        BY <1>0 DEF CopiesOf, Top
      <4> HIDE DEF f, g, e
      <4> QED BY <4>1, <4>2, <4>3
    <3> HIDE DEF f, g, e
    <3>4. h \in Seq(S) /\ Len(h) = Top - 2 /\ \A k \in 1 .. Top - 2 : h[k] = f[k]
      <4>1. h = [k \in 1 .. Top - 2 |-> f[k]] /\ \A k \in 1 .. Top - 2 : f[k] \in S
        BY <1>0, <1>2, <3>1, <3>2
      <4> HIDE DEF h
      <4>2. h \in Seq(S) /\ Len(h) = Top - 2
        BY <1>0, <1>2, <4>1
      <4> QED BY <4>1, <4>2
    <3> HIDE DEF h
    <3>5. Append(h, e) = [k \in 1 .. Len(h) + 1 |-> IF k = Len(h) + 1 THEN e ELSE h[k]]
      BY <3>4, Appended
    <3>6. Append(h, e) = [k \in 1 .. Top - 1 |-> IF k = Top - 1 THEN e ELSE f[k]]
      BY <1>0, <3>4, <3>5
    <3> QED BY <3>3, <3>6 DEF f, g, h, e
  <2>10. Copies[Len(Copies)] = Copy(Cluster)
    BY Found, Mapped
  <2>11. Copies' = Append(SubSeq(Copies, 1, Len(Copies) - 2), Copies[Len(Copies)])
    <3>1. Len(Copies) = Top /\ Copies = CopiesOf(layers) /\ Copies' = CopiesOf(layers')
      BY Mapped
    <3> QED BY <2>9, <2>10, <3>1, Zenon
  <2>12. Len(Copies) # 1
    BY <1>2, Mapped
  <2> QED BY <2>6, <2>7, <2>11, <2>12, Zenon DEF Basic!Commit, Basic!getInternalData
<1> QED BY <1>0, <1>1, <1>2

\* The contents are defined alike in both stores.
LEMMA SameContents ==
    /\ Basic!NoNodes = NoNodes
    /\ \A cluster : Basic!PodsIn(cluster) = PodsIn(cluster) /\ Basic!Listed(cluster) = Listed(cluster)
    /\ \A list, k : Basic!HavePods(list, k) = HavePods(list, k)
BY DEF Basic!NoNodes, NoNodes, Basic!PodsIn, PodsIn, Basic!Listed, Listed, Basic!NodeInfos, NodeInfos,
       Basic!HavePods, HavePods

LEMMA Fresh1 ==
    /\ Sound(<<newInternalDeltaSnapshotData>>)
    /\ CopiesOf(<<newInternalDeltaSnapshotData>>) = <<Basic!newInternalBasicSnapshotData>>
<1> DEFINE new == newInternalDeltaSnapshotData
           chain == <<new>>
<1>1. View(chain, 0) = NoNodes /\ NoNodes \in Clusters
  BY ViewZero, NoCaches
<1>2. Good(new, NoNodes) /\ Over(new, NoNodes) = NoNodes /\ new \in Layers
  BY <1>1, NewLayer DEF Good
<1>3. chain \in Seq(Layers) /\ Len(chain) = 1 /\ chain[1] = new /\ chain # <<>>
  BY <1>2
<1> HIDE DEF new, chain
<1>4. View(chain, 1) = NoNodes
  <2>1. 1 \in Nat /\ 1 >= 1 /\ 1 - 1 = 0
    OBVIOUS
  <2>2. View(chain, 1) = Over(chain[1], View(chain, 0))
    BY <2>1, ViewStep
  <2> QED BY <1>1, <1>2, <1>3, <2>2
<1>5. Tidy(NoNodes)
  BY <1>1 DEF Tidy, NoNodes
<1>6. \A k \in 1 .. Len(chain) : Good(chain[k], View(chain, k - 1))
  <2> TAKE k \in 1 .. Len(chain)
  <2>1. k = 1 /\ k - 1 = 0
    BY <1>3
  <2> QED BY <1>1, <1>2, <1>3, <2>1
<1>7. \A k \in 0 .. Len(chain) : Tidy(View(chain, k))
  <2> TAKE k \in 0 .. Len(chain)
  <2>1. k = 0 \/ k = 1
    BY <1>3
  <2> QED BY <1>1, <1>4, <1>5, <2>1
<1>8. CopiesOf(chain) = <<Basic!newInternalBasicSnapshotData>>
  <2>1. Copy(NoNodes) = Basic!newInternalBasicSnapshotData
    <3>1. PodsIn(NoNodes) = {}
      BY DEF PodsIn, NoNodes
    <3>2. Using({}) = [c \in PVCs |-> {}]
      BY DEF Using
    <3> QED BY <3>1, <3>2, SameContents, Zenon DEF Copy, Basic!newInternalBasicSnapshotData
  <2>2. CopiesOf(chain) = [k \in 1 .. 1 |-> Copy(NoNodes)]
    BY <1>3, <1>4 DEF CopiesOf
  <2> QED BY <2>1, <2>2
<1> QED BY <1>3, <1>6, <1>7, <1>8 DEF Sound, chain, new

LEMMA ClearStep ==
    ASSUME Sound(layers), Clear
    PROVE  Sound(layers') /\ Basic!Clear
<1>1. layers' = <<newInternalDeltaSnapshotData>> /\ result' = <<"ok">>
  BY DEF Clear, Return
<1> QED BY <1>1, Fresh1, Mapped DEF Basic!Clear

-----------------------------------------------------------------------------
(* The queries *)

\* Filling a cache of one layer is not seen by the reference store.
LEMMA Cached ==
    ASSUME Sound(layers), NEW i \in 1 .. Top, NEW data \in Layers,
           SameMaps(data, layers[i]), Fresh(data, View(layers, i)),
           layers' = [layers EXCEPT ![i] = data]
    PROVE  Sound(layers') /\ Copies' = Copies
<1>1. /\ Sound(layers') /\ Len(layers') = Len(layers)
      /\ \A k \in 0 .. Len(layers) : View(layers', k) = View(layers, k)
  BY SoundCache DEF Top
<1>2. CopiesOf(layers') = CopiesOf(layers)
  BY <1>1, Found, CopiesSame DEF Top
<1> QED BY <1>1, <1>2, Mapped

LEMMA LayerAt ==
    ASSUME Sound(layers), NEW i \in 1 .. Top
    PROVE  /\ layers[i] \in Layers /\ View(layers, i - 1) \in Clusters
           /\ Good(layers[i], View(layers, i - 1)) /\ Fresh(layers[i], View(layers, i))
           /\ View(layers, i) = Over(layers[i], View(layers, i - 1))
<1>1. /\ i \in Nat /\ i >= 1 /\ Good(layers[i], View(layers, i - 1))
      /\ View(layers, i - 1) \in Clusters
  BY Found DEF Sound, Top, Tidy
<1>2. View(layers, i) = Over(layers[i], View(layers, i - 1))
  BY <1>1, ViewStep
<1> QED BY <1>1, <1>2 DEF Good

LEMMA ListStep ==
    ASSUME Sound(layers), NEW k \in 1 .. Top, getNodeInfoList(k)
    PROVE  Sound(layers') /\ Copies' = Copies
<1> DEFINE baseList == IF k = 1 THEN {} ELSE layers[k - 1].nodeInfoList
           list == buildNodeInfoList(layers[k], baseList)
           data == [layers[k] EXCEPT !.nodeInfoList = list]
<1>0. Top \in Nat /\ k \in Nat /\ k >= 1
  BY Found
<1>1. baseList = Listed(View(layers, k - 1))
  <2>1. CASE k = 1
    <3>1. Listed(NoNodes) = {}
      BY ContentsAssumption DEF Listed, NoNodes, NodeInfos
    <3> QED BY <2>1, <3>1, ViewZero
  <2>2. CASE k # 1
    <3>1. layers[k - 1].nodeInfoList # Nil
      BY <1>0, <2>2 DEF getNodeInfoList
    <3>2. Fresh(layers[k - 1], View(layers, k - 1))
      <4>1. k - 1 \in 1 .. Top
        BY <1>0, <2>2
      <4> QED BY <4>1, LayerAt
    <3> QED BY <2>2, <3>1, <3>2 DEF Fresh
  <2> QED BY <2>1, <2>2
<1>2. list = Listed(View(layers, k))
  BY <1>1, LayerAt, BuildList
<1>3. layers' = [layers EXCEPT ![k] = data]
  BY DEF getNodeInfoList
<1> HIDE DEF list
<1>4. list \in Caches
  BY <1>2, ListedType DEF Caches
<1>5. /\ data \in Layers /\ SameMaps(data, layers[k]) /\ data.nodeInfoList = list
      /\ data.havePods = layers[k].havePods /\ data.pvcNamespaceMap = layers[k].pvcNamespaceMap
  BY <1>4, LayerAt DEF Layers, SameMaps
<1> HIDE DEF data
<1>6. Fresh(data, View(layers, k))
  BY <1>2, <1>5, LayerAt DEF Fresh
<1> QED BY <1>3, <1>5, <1>6, Cached

LEMMA ListAnswer ==
    ASSUME Sound(layers), List
    PROVE  Sound(layers') /\ Basic!List
<1>1. /\ result' = <<"list", Data.nodeInfoList>> /\ layers' = layers /\ Data.nodeInfoList # Nil
  BY DEF List, Return
<1>2. Data.nodeInfoList = Listed(Cluster)
  BY <1>1, Found DEF Good, Fresh
<1>3. Copies' = Copies
  BY <1>1, Mapped
<1> QED BY <1>1, <1>2, <1>3, Mapped, SameContents DEF Basic!List

LEMMA HavePodsAnswer ==
    ASSUME Sound(layers), NEW k \in Kinds, HavePodsList(k)
    PROVE  Sound(layers') /\ Basic!HavePodsList(k)
<1> DEFINE answer == HavePods(Listed(Cluster), k)
<1>0. Fresh(Data, Cluster) /\ Data \in Layers /\ Top \in 1 .. Top
  BY Found DEF Good
<1>1. answer \in Caches
  BY ListedType DEF HavePods, Caches
<1>2. CASE Data.havePods[k] # Nil
  <2>1. result' = <<"pods", Data.havePods[k]>> /\ layers' = layers
    BY <1>2 DEF HavePodsList, Return
  <2>2. Data.havePods[k] = answer
    BY <1>0, <1>2 DEF Fresh
  <2>3. Copies' = Copies
    BY <2>1, Mapped
  <2> QED BY <2>1, <2>2, <2>3, Mapped, SameContents DEF Basic!HavePodsList
<1>3. CASE Data.havePods[k] = Nil
  <2> DEFINE data == [Data EXCEPT !.havePods[k] = answer]
  <2>1. Data.nodeInfoList # Nil
    BY <1>3 DEF HavePodsList
  <2>2. Data.nodeInfoList = Listed(Cluster)
    BY <1>0, <2>1 DEF Fresh
  <2>3. result' = <<"pods", answer>> /\ layers' = [layers EXCEPT ![Top] = data]
    BY <1>3, <2>2 DEF HavePodsList, Return, Write
  <2> HIDE DEF answer
  <2>4. /\ data \in Layers /\ SameMaps(data, Data) /\ data.nodeInfoList = Data.nodeInfoList
        /\ data.havePods = [Data.havePods EXCEPT ![k] = answer]
        /\ data.pvcNamespaceMap = Data.pvcNamespaceMap
    BY <1>0, <1>1 DEF Layers, SameMaps
  <2> HIDE DEF data
  <2>5. Fresh(data, Cluster)
    <3>1. \A j \in Kinds : data.havePods[j] = IF j = k THEN answer ELSE Data.havePods[j]
      BY <1>0, <2>4, LayerFields
    <3> QED BY <1>0, <2>4, <3>1 DEF Fresh, answer
  <2>6. Sound(layers') /\ Copies' = Copies
    BY <1>0, <2>3, <2>4, <2>5, Cached DEF Data, Cluster
  <2> QED BY <2>3, <2>6, Mapped, SameContents DEF Basic!HavePodsList, answer
<1> QED BY <1>2, <1>3

\* A claim is among the used ones if and only if a pod of the cluster uses it.
LEMMA UsedByPods ==
    ASSUME NEW cluster \in Clusters, NEW c \in PVCs
    PROVE  c \in UsedPVCs(Listed(cluster)) <=> Using(PodsIn(cluster))[c] # {}
<1>1. ASSUME c \in UsedPVCs(Listed(cluster)) PROVE Using(PodsIn(cluster))[c] # {}
  <2>1. PICK e \in Listed(cluster) : \E p \in e[2] : c \in ClaimsOf[p]
    BY <1>1 DEF UsedPVCs
  <2>2. PICK p \in e[2] : c \in ClaimsOf[p]
    BY <2>1
  <2>3. e[1] \in Nodes /\ e[2] \in NodeInfos /\ cluster[e[1]] = e[2] /\ e[2] # Nil
    BY ContentsAssumption DEF Listed, NodeInfos
  <2>4. p \in PodsIn(cluster)
    BY <2>2, <2>3 DEF PodsIn, NodeInfos
  <2> QED BY <2>2, <2>4 DEF Using
<1>2. ASSUME Using(PodsIn(cluster))[c] # {} PROVE c \in UsedPVCs(Listed(cluster))
  <2>1. PICK p \in PodsIn(cluster) : c \in ClaimsOf[p]
    BY <1>2 DEF Using
  <2>2. PICK n \in Nodes : cluster[n] # Nil /\ p \in cluster[n]
    BY DEF PodsIn
  <2>3. <<n, cluster[n]>> \in Listed(cluster)
    BY <2>2 DEF Listed, Clusters
  <2> QED BY <2>1, <2>2, <2>3 DEF UsedPVCs
<1> QED BY <1>1, <1>2

LEMMA PVCAnswer ==
    ASSUME Sound(layers), NEW c \in PVCs, IsPVCUsedByPods(c)
    PROVE  Sound(layers') /\ Basic!IsPVCUsedByPods(c)
<1> DEFINE used == UsedPVCs(Listed(Cluster))
<1>0. Fresh(Data, Cluster) /\ Data \in Layers /\ Top \in 1 .. Top /\ Cluster \in Clusters
  BY Found DEF Good
<1>1. (c \in used) = (Basic!pvcNamespacePodMap[c] # {})
  BY <1>0, UsedByPods, Mapped
<1>2. CASE Data.pvcNamespaceMap # Nil
  <2>1. result' = <<"pvc", c \in Data.pvcNamespaceMap>> /\ layers' = layers
    BY <1>2 DEF IsPVCUsedByPods, Return
  <2>2. Data.pvcNamespaceMap = used
    BY <1>0, <1>2 DEF Fresh
  <2>3. Copies' = Copies
    BY <2>1, Mapped
  <2>4. result' = <<"pvc", Basic!pvcNamespacePodMap[c] # {}>>
    BY <1>1, <2>1, <2>2
  <2> QED BY <2>1, <2>3, <2>4 DEF Basic!IsPVCUsedByPods
<1>3. CASE Data.pvcNamespaceMap = Nil
  <2> DEFINE data == [Data EXCEPT !.pvcNamespaceMap = used]
  <2>1. Data.nodeInfoList # Nil
    BY <1>3 DEF IsPVCUsedByPods
  <2>2. Data.nodeInfoList = Listed(Cluster)
    BY <1>0, <2>1 DEF Fresh
  <2>3. result' = <<"pvc", c \in used>> /\ layers' = [layers EXCEPT ![Top] = data]
    BY <1>3, <2>2 DEF IsPVCUsedByPods, Return, Write
  <2>4. used \in SUBSET PVCs
    BY DEF UsedPVCs
  <2> HIDE DEF used
  <2>5. /\ data \in Layers /\ SameMaps(data, Data) /\ data.nodeInfoList = Data.nodeInfoList
        /\ data.havePods = Data.havePods /\ data.pvcNamespaceMap = used
    BY <1>0, <2>4 DEF Layers, SameMaps
  <2> HIDE DEF data
  <2>6. Fresh(data, Cluster)
    BY <1>0, <2>5 DEF Fresh, used
  <2>7. Sound(layers') /\ Copies' = Copies
    BY <1>0, <2>3, <2>5, <2>6, Cached DEF Data, Cluster
  <2>8. result' = <<"pvc", Basic!pvcNamespacePodMap[c] # {}>>
    BY <1>1, <2>3
  <2> QED BY <2>7, <2>8 DEF Basic!IsPVCUsedByPods
<1> QED BY <1>2, <1>3

-----------------------------------------------------------------------------
(* The theorems *)

\* The inductive invariant: every layer is typed, fits and has fresh caches, and no
\* layer shows a pod on two nodes, without which a claim would be forgotten too early.
IInv == Sound(layers) /\ pending \in Queries \cup {NoQuery}

LEMMA InitStep ==
    ASSUME Init
    PROVE  IInv /\ Basic!Init
<1>1. layers = <<newInternalDeltaSnapshotData>> /\ result = <<"ok">> /\ pending = NoQuery
  BY DEF Init
<1>2. Sound(layers)
  BY <1>1, Fresh1
<1>3. Copies = <<Basic!newInternalBasicSnapshotData>>
  BY <1>1, Fresh1, CopiesAre
<1> QED BY <1>1, <1>2, <1>3 DEF IInv, Basic!Init

LEMMA NextStep ==
    ASSUME IInv, [Next]_vars
    PROVE  IInv' /\ [Basic!Next]_(Basic!vars)
<1>0. Sound(layers) /\ pending \in Queries \cup {NoQuery}
  BY DEF IInv
<1>1. ASSUME NEW n \in Nodes, NEW pods \in SUBSET (Pods \ PodsIn(Cluster)), StoreNodeInfo(n, pods)
      PROVE  IInv' /\ Basic!Next
  <2>1. Sound(layers') /\ Basic!StoreNodeInfo(n, pods)
    BY <1>0, <1>1, StoreNodeInfoStep
  <2>2. pending' = NoQuery
    BY <1>1 DEF StoreNodeInfo, Return
  <2>3. pods \in SUBSET (Pods \ Basic!PodsIn(Basic!nodeInfoMap))
    BY <1>0, Mapped, SameContents
  <2> QED BY <2>1, <2>2, <2>3 DEF Basic!Next, IInv
<1>2. ASSUME NEW n \in Nodes, RemoveNodeInfo(n)
      PROVE  IInv' /\ Basic!Next
  <2>1. Sound(layers') /\ Basic!RemoveNodeInfo(n)
    BY <1>0, <1>2, RemoveNodeInfoStep
  <2>2. pending' = NoQuery
    BY <1>2 DEF RemoveNodeInfo, Return
  <2> QED BY <2>1, <2>2 DEF Basic!Next, IInv
<1>3. ASSUME NEW n \in Nodes, NEW p \in Pods \ PodsIn(Cluster), StorePodInfo(p, n)
      PROVE  IInv' /\ Basic!Next
  <2>1. Sound(layers') /\ Basic!StorePodInfo(p, n)
    BY <1>0, <1>3, StorePodInfoStep
  <2>2. pending' = NoQuery
    BY <1>3 DEF StorePodInfo, Return
  <2>3. p \in Pods \ Basic!PodsIn(Basic!nodeInfoMap)
    BY <1>0, Mapped, SameContents
  <2> QED BY <2>1, <2>2, <2>3 DEF Basic!Next, IInv
<1>4. ASSUME NEW n \in Nodes, NEW p \in Pods, RemovePodInfo(p, n)
      PROVE  IInv' /\ Basic!Next
  <2>1. Sound(layers') /\ Basic!RemovePodInfo(p, n)
    BY <1>0, <1>4, RemovePodInfoStep
  <2>2. pending' = NoQuery
    BY <1>4 DEF RemovePodInfo, Return
  <2> QED BY <2>1, <2>2 DEF Basic!Next, IInv
<1>5. CASE Fork
  <2>1. Sound(layers') /\ Len(Copies) <= MaxForks /\ Basic!Fork
    BY <1>0, <1>5, ForkStep
  <2>2. pending' = NoQuery
    BY <1>5 DEF Fork, Return
  <2> QED BY <2>1, <2>2 DEF Basic!Next, IInv
<1>6. CASE Revert
  <2>1. Sound(layers') /\ Basic!Revert
    BY <1>0, <1>6, RevertStep
  <2>2. pending' = NoQuery
    BY <1>6 DEF Revert, Return
  <2> QED BY <2>1, <2>2 DEF Basic!Next, IInv
<1>7. CASE Commit
  <2>1. Sound(layers') /\ Basic!Commit
    BY <1>0, <1>7, CommitStep
  <2>2. pending' = NoQuery
    BY <1>7 DEF Commit, Return
  <2> QED BY <2>1, <2>2 DEF Basic!Next, IInv
<1>8. CASE Clear
  <2>1. Sound(layers') /\ Basic!Clear
    BY <1>0, <1>8, ClearStep
  <2>2. pending' = NoQuery
    BY <1>8 DEF Clear, Return
  <2> QED BY <2>1, <2>2 DEF Basic!Next, IInv
<1>9. ASSUME NEW query \in Queries, Ask(query)
      PROVE  IInv' /\ UNCHANGED Basic!vars
  <2>1. layers' = layers /\ result' = result /\ pending' = query
    BY <1>9 DEF Ask
  <2>2. Copies' = Copies
    BY <1>0, <2>1, Mapped
  <2> QED BY <1>0, <2>1, <2>2 DEF Basic!vars, IInv
<1>10. ASSUME NEW k \in 1 .. Top, getNodeInfoList(k)
       PROVE  IInv' /\ UNCHANGED Basic!vars
  <2>1. Sound(layers') /\ Copies' = Copies
    BY <1>0, <1>10, ListStep
  <2>2. pending' = pending /\ result' = result
    BY <1>10 DEF getNodeInfoList
  <2> QED BY <1>0, <2>1, <2>2 DEF Basic!vars, IInv
<1>11. CASE List
  <2>1. Sound(layers') /\ Basic!List
    BY <1>0, <1>11, ListAnswer
  <2>2. pending' = NoQuery
    BY <1>11 DEF List, Return
  <2> QED BY <2>1, <2>2 DEF Basic!Next, IInv
<1>12. ASSUME NEW k \in Kinds, HavePodsList(k)
       PROVE  IInv' /\ Basic!Next
  <2>1. Sound(layers') /\ Basic!HavePodsList(k)
    BY <1>0, <1>12, HavePodsAnswer
  <2>2. pending' = NoQuery
    BY <1>12 DEF HavePodsList, Return
  <2> QED BY <2>1, <2>2 DEF Basic!Next, IInv
<1>13. ASSUME NEW c \in PVCs, IsPVCUsedByPods(c)
       PROVE  IInv' /\ Basic!Next
  <2>1. Sound(layers') /\ Basic!IsPVCUsedByPods(c)
    BY <1>0, <1>13, PVCAnswer
  <2>2. pending' = NoQuery
    BY <1>13 DEF IsPVCUsedByPods, Return
  <2> QED BY <2>1, <2>2 DEF Basic!Next, IInv
<1>14. CASE UNCHANGED vars
  <2>1. layers' = layers /\ result' = result /\ pending' = pending
    BY <1>14 DEF vars
  <2>2. Copies' = Copies
    BY <1>0, <2>1, Mapped
  <2> QED BY <1>0, <2>1, <2>2 DEF Basic!vars, IInv
<1> QED BY <1>1, <1>2, <1>3, <1>4, <1>5, <1>6, <1>7, <1>8, <1>9, <1>10, <1>11, <1>12, <1>13, <1>14
        DEF Next

\* The invariant holds throughout (every call of DeltaSnapshotStore).
THEOREM Invariance == Spec => []IInv
<1>1. Init => IInv
  BY InitStep
<1>2. IInv /\ [Next]_vars => IInv'
  BY NextStep
<1> QED BY <1>1, <1>2, PTL DEF Spec

\* The variables keep their types.
THEOREM TypeCorrect == Spec => []TypeOK
<1>1. IInv => TypeOK
  BY DEF IInv, Sound, TypeOK
<1> QED BY <1>1, Invariance, PTL

\* Every layer fits on the one below it, whatever is stored, removed, forked, reverted
\* and committed (addNodeInfo, removeNodeInfo, nodeInfoToModify, commit).
THEOREM LayersAlwaysFit == Spec => []LayersFit
<1>1. IInv => LayersFit
  BY DEF IInv, Sound, LayersFit, Good, Top
<1> QED BY <1>1, Invariance, PTL

\* No call of a commit meets an error, so that none leaves the layer below half
\* written (Commit, commit).
THEOREM CommitsSucceed == Spec => [](Top > 1 => ~CommitFails(Below, Data))
<1>1. ASSUME IInv, Top > 1 PROVE ~CommitFails(Below, Data)
  <2>1. Fits(Data, Below) /\ Data \in Layers
    BY <1>1, Found DEF IInv, Good
  <2> QED BY <2>1, LayerFields DEF CommitFails, Fits, getNodeInfoLocal
<1>2. IInv => (Top > 1 => ~CommitFails(Below, Data))
  BY <1>1
<1> QED BY <1>2, Invariance, PTL

\* No cache of any layer is stale (clearCaches, clearPodCaches, addNodeInfo).
THEOREM CachesAlwaysFresh == Spec => []CachesFresh
<1>1. IInv => CachesFresh
  BY LayerAt DEF IInv, CachesFresh
<1> QED BY <1>1, Invariance, PTL

\* The delta store implements the reference store: every call does and returns what
\* it does there.
THEOREM Refinement == Spec => ImplementsBasic
<1>1. Init => Basic!Init
  BY InitStep
<1>2. IInv /\ [Next]_vars => [Basic!Next]_(Basic!vars)
  BY NextStep
<1> QED BY <1>1, <1>2, Invariance, PTL DEF Spec, ImplementsBasic, Basic!Spec
=============================================================================
