------------------------- MODULE DeltaSnapshotStore -------------------------
(***************************************************************************)
(* The snapshot store in use (simulator/clustersnapshot/store/delta.go): a *)
(* chain of layers, each of which holds the nodes added, modified and      *)
(* deleted since the fork below it, and caches of what the scheduler       *)
(* framework lists.  A fork opens a layer, a revert drops it, a commit     *)
(* merges it into the one below.                                           *)
(***************************************************************************)
EXTENDS Naturals, Sequences

CONSTANTS Nodes, Pods, PVCs,
          Kinds,         \* kinds of affinity terms that are listed
          WithTerm,      \* WithTerm[k]: the pods that have a term of kind k
          ClaimsOf,      \* ClaimsOf[p]: the claims of the pod
          Nil,
          MaxForks       \* bound: forks that are open at a time

ASSUME ContentsAssumption ==
    /\ WithTerm \in [Kinds -> SUBSET Pods]
    /\ ClaimsOf \in [Pods -> SUBSET PVCs]
    /\ \A pods \in SUBSET Pods : pods # Nil
    /\ MaxForks \in Nat

\* A NodeInfo is the set of its pods; of a pod the model keeps the claims it
\* uses and the kinds of affinity terms it has.  A cluster maps every node
\* name to its NodeInfo, or to Nil, which marks a missing map entry.
NodeInfos == SUBSET Pods
Clusters == [Nodes -> NodeInfos \cup {Nil}]
NoNodes == [n \in Nodes |-> Nil]

\* What is listed of a cluster: its nodes with their pods.
Listed(cluster) == {e \in Nodes \X NodeInfos : cluster[e[1]] = e[2]}
HavePods(list, k) == {e \in list : e[2] \cap WithTerm[k] # {}}
UsedPVCs(list) == {c \in PVCs : \E e \in list : \E p \in e[2] : c \in ClaimsOf[p]}

PodsIn(cluster) == {p \in Pods : \E n \in Nodes : cluster[n] # Nil /\ p \in cluster[n]}

VARIABLES layers,
          pending,   \* the query that is being answered, or NoQuery
          result     \* what the last call returned

vars == <<layers, pending, result>>

NoQuery == <<"none">>
Queries == {<<"list">>} \cup {<<"pods", k>> : k \in Kinds} \cup {<<"pvc", c>> : c \in PVCs}

Top == Len(layers)

newInternalDeltaSnapshotData ==
    [addedNodeInfoMap |-> NoNodes, modifiedNodeInfoMap |-> NoNodes, deletedNodeInfos |-> {},
     nodeInfoList |-> Nil, havePods |-> [k \in Kinds |-> Nil], pvcNamespaceMap |-> Nil]

-----------------------------------------------------------------------------
\* Reading

getNodeInfoLocal(data, n) ==
    IF data.addedNodeInfoMap[n] # Nil THEN data.addedNodeInfoMap[n] ELSE data.modifiedNodeInfoMap[n]

Mentions(data, n) == getNodeInfoLocal(data, n) # Nil \/ n \in data.deletedNodeInfos

Mentioning(chain, k, n) == {j \in 1 .. k : Mentions(chain[j], n)}
Topmost(S) == CHOOSE j \in S : \A i \in S : i <= j

\* getNodeInfo: the topmost layer up to the k-th that mentions the node decides.
getNodeInfo(chain, k, n) ==
    IF Mentioning(chain, k, n) = {} THEN Nil
    ELSE getNodeInfoLocal(chain[Topmost(Mentioning(chain, k, n))], n)

\* The cluster as the k-th layer shows it.
View(chain, k) == [n \in Nodes |-> getNodeInfo(chain, k, n)]

buildNodeInfoList(data, baseList) ==
    {e \in baseList : e[1] \notin data.deletedNodeInfos /\ data.modifiedNodeInfoMap[e[1]] = Nil}
    \cup {e \in Nodes \X NodeInfos :
            /\ e[1] \notin data.deletedNodeInfos /\ data.modifiedNodeInfoMap[e[1]] = e[2]
            /\ \E b \in baseList : b[1] = e[1]}
    \cup Listed(data.addedNodeInfoMap)

-----------------------------------------------------------------------------
\* Writing one layer

ClearPodCaches(data) == [data EXCEPT !.havePods = [k \in Kinds |-> Nil], !.pvcNamespaceMap = Nil]
ClearCaches(data) == [ClearPodCaches(data) EXCEPT !.nodeInfoList = Nil]

\* A bug the properties must catch: the pods that come with a node are overlooked.
addNodeInfoPodsCached(data, infos) ==
    LET readded == {n \in data.deletedNodeInfos : infos[n] # Nil}
    IN  [data EXCEPT
            !.addedNodeInfoMap = [n \in Nodes |-> IF infos[n] # Nil /\ n \notin readded
                                                  THEN infos[n] ELSE @[n]],
            !.modifiedNodeInfoMap = [n \in Nodes |-> IF n \in readded THEN infos[n] ELSE @[n]],
            !.deletedNodeInfos = @ \ readded,
            !.nodeInfoList = IF @ = Nil THEN Nil ELSE @ \cup Listed(infos)]

\* addNodeInfo, for several nodes none of which the layer shows.
addNodeInfo(data, infos) ==
    LET readded == {n \in data.deletedNodeInfos : infos[n] # Nil}
        stored == [data EXCEPT
            !.addedNodeInfoMap = [n \in Nodes |-> IF infos[n] # Nil /\ n \notin readded
                                                  THEN infos[n] ELSE @[n]],
            !.modifiedNodeInfoMap = [n \in Nodes |-> IF n \in readded THEN infos[n] ELSE @[n]],
            !.deletedNodeInfos = @ \ readded,
            !.nodeInfoList = IF @ = Nil THEN Nil ELSE @ \cup Listed(infos)]
    IN  IF PodsIn(infos) # {} THEN ClearPodCaches(stored) ELSE stored

\* A bug the properties must catch: a node that was modified after the fork is only
\* forgotten, and shows through from below.
removeNodeInfoShows(data, below, nodes) ==
    IF nodes = {} THEN data
    ELSE ClearCaches([data EXCEPT
            !.addedNodeInfoMap = [n \in Nodes |-> IF n \in nodes THEN Nil ELSE @[n]],
            !.modifiedNodeInfoMap = [n \in Nodes |-> IF n \in nodes THEN Nil ELSE @[n]],
            !.deletedNodeInfos =
                @ \cup {n \in nodes : below[n] # Nil /\ data.modifiedNodeInfoMap[n] = Nil}])

\* removeNodeInfo, for several nodes all of which the layer shows; `below' is the
\* cluster under the layer.
removeNodeInfo(data, below, nodes) ==
    IF nodes = {} THEN data
    ELSE ClearCaches([data EXCEPT
            !.addedNodeInfoMap = [n \in Nodes |-> IF n \in nodes THEN Nil ELSE @[n]],
            !.modifiedNodeInfoMap = [n \in Nodes |-> IF n \in nodes THEN Nil ELSE @[n]],
            !.deletedNodeInfos = @ \cup {n \in nodes : below[n] # Nil}])

\* nodeInfoToModify and a change of the pods of the NodeInfo it returns, which is the
\* layer's own or a copy of the one below.
ChangePods(data, n, pods) ==
    IF data.addedNodeInfoMap[n] # Nil
    THEN ClearCaches([data EXCEPT !.addedNodeInfoMap[n] = pods])
    ELSE ClearCaches([data EXCEPT !.modifiedNodeInfoMap[n] = pods])

\* commit, of the changes of one layer into the one below it.
Merge(base, below, data) ==
    LET modified == {n \in Nodes : data.modifiedNodeInfoMap[n] # Nil}
        removed == removeNodeInfo(base, below, data.deletedNodeInfos \cup modified)
    IN  addNodeInfo(addNodeInfo(removed, data.modifiedNodeInfoMap), data.addedNodeInfoMap)

\* One of the calls in commit returns an error; `base' is the cluster committed to.
CommitFails(base, data) ==
    \/ \E n \in data.deletedNodeInfos : base[n] = Nil
    \/ \E n \in Nodes : /\ data.modifiedNodeInfoMap[n] # Nil
                        /\ base[n] = Nil \/ n \in data.deletedNodeInfos
    \/ \E n \in Nodes : /\ data.addedNodeInfoMap[n] # Nil
                        /\ \/ base[n] # Nil /\ n \notin data.deletedNodeInfos
                           \/ data.modifiedNodeInfoMap[n] # Nil

-----------------------------------------------------------------------------
\* The calls

Data == layers[Top]
Cluster == View(layers, Top)
Below == View(layers, Top - 1)

Write(data) == layers' = [layers EXCEPT ![Top] = data]
Return(value) == result' = value /\ pending' = NoQuery

StoreNodeInfo(n, pods) ==
    /\ pending = NoQuery
    /\ IF Cluster[n] # Nil
       THEN Return(<<"node already in snapshot">>) /\ UNCHANGED layers
       ELSE Return(<<"ok">>) /\ Write(addNodeInfo(Data, [NoNodes EXCEPT ![n] = pods]))

\* What the layer itself had of the node is dropped before the checks.
RemoveNodeInfo(n) ==
    /\ pending = NoQuery
    /\ IF n \in Data.deletedNodeInfos \/ (Below[n] = Nil /\ Data.addedNodeInfoMap[n] = Nil)
       THEN /\ Return(<<"node not found">>)
            /\ Write([Data EXCEPT !.addedNodeInfoMap[n] = Nil, !.modifiedNodeInfoMap[n] = Nil])
       ELSE Return(<<"ok">>) /\ Write(removeNodeInfo(Data, Below, {n}))

StorePodInfo(p, n) ==
    /\ pending = NoQuery
    /\ IF Cluster[n] = Nil
       THEN Return(<<"node not found">>) /\ UNCHANGED layers
       ELSE Return(<<"ok">>) /\ Write(ChangePods(Data, n, Cluster[n] \cup {p}))

\* The node is copied into the layer even if the pod is not there.
RemovePodInfo(p, n) ==
    /\ pending = NoQuery
    /\ IF Cluster[n] = Nil
       THEN Return(<<"node not found">>) /\ UNCHANGED layers
       ELSE IF p \in Cluster[n]
       THEN Return(<<"ok">>) /\ Write(ChangePods(Data, n, Cluster[n] \ {p}))
       ELSE /\ Return(<<"pod not in snapshot">>)
            /\ IF getNodeInfoLocal(Data, n) # Nil THEN UNCHANGED layers
               ELSE Write(ChangePods(Data, n, Cluster[n]))

Fork ==
    /\ pending = NoQuery /\ Top <= MaxForks
    /\ layers' = Append(layers, newInternalDeltaSnapshotData)
    /\ Return(<<"ok">>)

Revert ==
    /\ pending = NoQuery
    /\ layers' = IF Top = 1 THEN layers ELSE SubSeq(layers, 1, Top - 1)
    /\ Return(<<"ok">>)

\* An error would leave the layer below half written; it is shown not to happen.
Commit ==
    /\ pending = NoQuery
    /\ IF Top > 1 /\ CommitFails(Below, Data)
       THEN Return(<<"commit failed">>) /\ UNCHANGED layers
       ELSE /\ layers' = IF Top = 1 THEN layers
                         ELSE [SubSeq(layers, 1, Top - 1) EXCEPT
                                  ![Top - 1] = Merge(@, View(layers, Top - 2), Data)]
            /\ Return(<<"ok">>)

Clear ==
    /\ pending = NoQuery
    /\ layers' = <<newInternalDeltaSnapshotData>>
    /\ Return(<<"ok">>)

\* A query of the scheduler framework is answered from its cache or from the list of
\* nodes, for which getNodeInfoList descends to the first layer that has its list.
Ask(query) ==
    /\ pending = NoQuery
    /\ pending' = query
    /\ UNCHANGED <<layers, result>>

PodCache(query) == CASE query[1] = "pods" -> Data.havePods[query[2]]
                     [] query[1] = "pvc" -> Data.pvcNamespaceMap
                     [] OTHER -> Nil

getNodeInfoList(k) ==
    /\ pending # NoQuery /\ PodCache(pending) = Nil
    /\ \A j \in k .. Top : layers[j].nodeInfoList = Nil
    /\ k > 1 => layers[k - 1].nodeInfoList # Nil
    /\ layers' = [layers EXCEPT ![k].nodeInfoList =
                    buildNodeInfoList(layers[k], IF k = 1 THEN {} ELSE layers[k - 1].nodeInfoList)]
    /\ UNCHANGED <<pending, result>>

List ==
    /\ pending = <<"list">> /\ Data.nodeInfoList # Nil
    /\ Return(<<"list", Data.nodeInfoList>>)
    /\ UNCHANGED layers

\* HavePodsWithAffinityList and HavePodsWithRequiredAntiAffinityList
HavePodsList(k) ==
    /\ pending = <<"pods", k>>
    /\ IF Data.havePods[k] # Nil
       THEN Return(<<"pods", Data.havePods[k]>>) /\ UNCHANGED layers
       ELSE /\ Data.nodeInfoList # Nil
            /\ Return(<<"pods", HavePods(Data.nodeInfoList, k)>>)
            /\ Write([Data EXCEPT !.havePods[k] = HavePods(Data.nodeInfoList, k)])

IsPVCUsedByPods(c) ==
    /\ pending = <<"pvc", c>>
    /\ IF Data.pvcNamespaceMap # Nil
       THEN Return(<<"pvc", c \in Data.pvcNamespaceMap>>) /\ UNCHANGED layers
       ELSE /\ Data.nodeInfoList # Nil
            /\ Return(<<"pvc", c \in UsedPVCs(Data.nodeInfoList)>>)
            /\ Write([Data EXCEPT !.pvcNamespaceMap = UsedPVCs(Data.nodeInfoList)])

-----------------------------------------------------------------------------
Init == layers = <<newInternalDeltaSnapshotData>> /\ pending = NoQuery /\ result = <<"ok">>

\* The simulations store a pod only where it is not yet (BasicSnapshotStore).
Next ==
    \/ \E n \in Nodes, pods \in SUBSET (Pods \ PodsIn(Cluster)) : StoreNodeInfo(n, pods)
    \/ \E n \in Nodes : RemoveNodeInfo(n)
    \/ \E n \in Nodes, p \in Pods \ PodsIn(Cluster) : StorePodInfo(p, n)
    \/ \E n \in Nodes, p \in Pods : RemovePodInfo(p, n)
    \/ Fork \/ Revert \/ Commit \/ Clear
    \/ \E query \in Queries : Ask(query)
    \/ \E k \in 1 .. Top : getNodeInfoList(k)
    \/ List \/ \E k \in Kinds : HavePodsList(k)
    \/ \E c \in PVCs : IsPVCUsedByPods(c)

Spec == Init /\ [][Next]_vars

-----------------------------------------------------------------------------
\* The types of the variables.
Caches == (SUBSET (Nodes \X NodeInfos)) \cup {Nil}
Layers == [addedNodeInfoMap : Clusters, modifiedNodeInfoMap : Clusters,
           deletedNodeInfos : SUBSET Nodes, nodeInfoList : Caches,
           havePods : [Kinds -> Caches], pvcNamespaceMap : (SUBSET PVCs) \cup {Nil}]
TypeOK == /\ layers \in Seq(Layers) /\ layers # <<>>
          /\ pending \in Queries \cup {NoQuery}

\* What fits on the cluster below a layer: maps that do not overlap.
Fits(data, below) ==
    \A n \in Nodes :
        /\ n \in data.deletedNodeInfos => below[n] # Nil /\ getNodeInfoLocal(data, n) = Nil
        /\ data.modifiedNodeInfoMap[n] # Nil => below[n] # Nil /\ data.addedNodeInfoMap[n] = Nil
        /\ data.addedNodeInfoMap[n] # Nil => below[n] = Nil

\* Caches that hold what would be computed afresh from the cluster.
Fresh(data, cluster) ==
    /\ data.nodeInfoList \in {Nil, Listed(cluster)}
    /\ \A k \in Kinds : data.havePods[k] \in {Nil, HavePods(Listed(cluster), k)}
    /\ data.pvcNamespaceMap \in {Nil, UsedPVCs(Listed(cluster))}

\* The three maps of a layer do not overlap, it deletes and modifies only nodes that
\* are there below it and adds only nodes that are not, so that a commit meets no
\* error half way (addNodeInfo, removeNodeInfo, nodeInfoToModify, commit).
LayersFit == \A k \in 1 .. Top : Fits(layers[k], View(layers, k - 1))

\* A cache of any layer, also of one that only comes to light again when the forks
\* above it are reverted, is up to date (clearCaches, clearPodCaches and the list that
\* addNodeInfo extends).
CachesFresh == \A k \in 1 .. Top : Fresh(layers[k], View(layers, k))

\* The pods of the k-th copy that use a claim, as the reference store keeps them.
PodsUsing(k, c) == {p \in PodsIn(View(layers, k)) : c \in ClaimsOf[p]}

\* The copies of the cluster that the reference store would hold.
Copies == [k \in 1 .. Top |-> [nodeInfoMap |-> View(layers, k),
                               pvcNamespacePodMap |-> [c \in PVCs |-> PodsUsing(k, c)]]]

Basic == INSTANCE BasicSnapshotStore WITH data <- Copies

\* Every call does and returns what it does in the reference store, which copies the
\* whole cluster on a fork (the interface both stores implement).
ImplementsBasic == Basic!Spec
=============================================================================
