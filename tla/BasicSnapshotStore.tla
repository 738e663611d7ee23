------------------------- MODULE BasicSnapshotStore -------------------------
(***************************************************************************)
(* The reference implementation of the cluster snapshot                    *)
(* (simulator/clustersnapshot/store/basic.go): a stack of copies of the    *)
(* cluster, the last of which is read and written.  It is the abstract     *)
(* specification that DeltaSnapshotStore implements.                       *)
(*                                                                         *)
(* `result' is what the last call returned.                                *)
(***************************************************************************)
EXTENDS Naturals, Sequences

CONSTANTS Nodes, Pods, PVCs,
          Kinds,         \* kinds of affinity terms that are listed
          WithTerm,      \* WithTerm[k]: the pods that have a term of kind k
          ClaimsOf,      \* ClaimsOf[p]: the claims of the pod
          Nil,
          MaxForks       \* bound: forks that are open at a time

\* A NodeInfo is the set of its pods; of a pod the model keeps the claims it
\* uses and the kinds of affinity terms it has.  A cluster maps every node
\* name to its NodeInfo, or to Nil, which marks a missing map entry.
NodeInfos == SUBSET Pods
NoNodes == [n \in Nodes |-> Nil]

\* What is listed of a cluster: its nodes with their pods.
Listed(cluster) == {e \in Nodes \X NodeInfos : cluster[e[1]] = e[2]}
HavePods(list, k) == {e \in list : e[2] \cap WithTerm[k] # {}}

PodsIn(cluster) == {p \in Pods : \E n \in Nodes : cluster[n] # Nil /\ p \in cluster[n]}

VARIABLES data, result

getInternalData == data[Len(data)]
nodeInfoMap == getInternalData.nodeInfoMap
pvcNamespacePodMap == getInternalData.pvcNamespacePodMap

newInternalBasicSnapshotData ==
    [nodeInfoMap |-> NoNodes, pvcNamespacePodMap |-> [c \in PVCs |-> {}]]

addPvcUsedByPod(pvcs, pods) == [c \in PVCs |-> pvcs[c] \cup {p \in pods : c \in ClaimsOf[p]}]
removePvcUsedByPod(pvcs, pods) == [c \in PVCs |-> pvcs[c] \ {p \in pods : c \in ClaimsOf[p]}]

SetTop(info, pvcs) ==
    data' = [data EXCEPT ![Len(data)] = [nodeInfoMap |-> info, pvcNamespacePodMap |-> pvcs]]

-----------------------------------------------------------------------------
StoreNodeInfo(n, pods) ==
    IF nodeInfoMap[n] # Nil
    THEN result' = <<"node already in snapshot">> /\ UNCHANGED data
    ELSE /\ SetTop([nodeInfoMap EXCEPT ![n] = pods], addPvcUsedByPod(pvcNamespacePodMap, pods))
         /\ result' = <<"ok">>

RemoveNodeInfo(n) ==
    IF nodeInfoMap[n] = Nil
    THEN result' = <<"node not found">> /\ UNCHANGED data
    ELSE /\ SetTop([nodeInfoMap EXCEPT ![n] = Nil],
                   removePvcUsedByPod(pvcNamespacePodMap, nodeInfoMap[n]))
         /\ result' = <<"ok">>

StorePodInfo(p, n) ==
    IF nodeInfoMap[n] = Nil
    THEN result' = <<"node not found">> /\ UNCHANGED data
    ELSE /\ SetTop([nodeInfoMap EXCEPT ![n] = @ \cup {p}],
                   addPvcUsedByPod(pvcNamespacePodMap, {p}))
         /\ result' = <<"ok">>

RemovePodInfo(p, n) ==
    IF nodeInfoMap[n] = Nil
    THEN result' = <<"node not found">> /\ UNCHANGED data
    ELSE IF p \notin nodeInfoMap[n]
    THEN result' = <<"pod not in snapshot">> /\ UNCHANGED data
    ELSE /\ SetTop([nodeInfoMap EXCEPT ![n] = @ \ {p}],
                   removePvcUsedByPod(pvcNamespacePodMap, {p}))
         /\ result' = <<"ok">>

Fork == data' = Append(data, getInternalData) /\ result' = <<"ok">>

Revert ==
    /\ data' = IF Len(data) = 1 THEN data ELSE SubSeq(data, 1, Len(data) - 1)
    /\ result' = <<"ok">>

Commit ==
    /\ data' = IF Len(data) = 1 THEN data
               ELSE Append(SubSeq(data, 1, Len(data) - 2), getInternalData)
    /\ result' = <<"ok">>

Clear == data' = <<newInternalBasicSnapshotData>> /\ result' = <<"ok">>

\* The queries of the scheduler framework.
List == result' = <<"list", Listed(nodeInfoMap)>> /\ UNCHANGED data
HavePodsList(k) == result' = <<"pods", HavePods(Listed(nodeInfoMap), k)>> /\ UNCHANGED data
IsPVCUsedByPods(c) == result' = <<"pvc", pvcNamespacePodMap[c] # {}>> /\ UNCHANGED data

-----------------------------------------------------------------------------
Init == data = <<newInternalBasicSnapshotData>> /\ result = <<"ok">>

\* The simulations store a pod only where it is not yet: the removal simulation
\* takes the pods off the node first, and copies of pods get names of their own.
Next ==
    \/ \E n \in Nodes, pods \in SUBSET (Pods \ PodsIn(nodeInfoMap)) : StoreNodeInfo(n, pods)
    \/ \E n \in Nodes : RemoveNodeInfo(n)
    \/ \E n \in Nodes, p \in Pods \ PodsIn(nodeInfoMap) : StorePodInfo(p, n)
    \/ \E n \in Nodes, p \in Pods : RemovePodInfo(p, n)
    \/ Len(data) <= MaxForks /\ Fork
    \/ Revert \/ Commit \/ Clear
    \/ List \/ \E k \in Kinds : HavePodsList(k)
    \/ \E c \in PVCs : IsPVCUsedByPods(c)

vars == <<data, result>>
Spec == Init /\ [][Next]_vars
=============================================================================
