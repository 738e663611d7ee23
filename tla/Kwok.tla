---------------------------------- MODULE Kwok ----------------------------------
(***************************************************************************)
(* The kwok provider: node groups whose nodes are only Node objects.  The  *)
(* target size of a group is a plain field: Refresh sets it from the node  *)
(* lister, IncreaseSize and DeleteNodes add to it and take from it without *)
(* a lock, so that the read and the write of `targetSize += 1' are two     *)
(* steps here.  The lister follows the API server with a delay.  Nodes of  *)
(* the cluster that kwok did not create may carry the grouping label too.  *)
(***************************************************************************)
EXTENDS Integers, FiniteSets, Sequences

CONSTANTS Groups, Names,
          NGName,           \* getNGName: the group each node's annotation or label names
          Managed,          \* nodes that kwok creates: provider ID kwok:, annotation fake
          Templates,        \* per group: its template nodes
          DesiredSize, MinSize, MaxSize,
          Starts

VARIABLES vm,               \* the Node objects that exist
          lister, target, th, phase, left,
          excused           \* history: a target was set from an old list, or written over

vars == <<vm, lister, target, th, phase, left, excused>>

Spend(kind) == left[kind] > 0 /\ left' = [left EXCEPT ![kind] = @ - 1]
Idle == [call |-> "none", pc |-> "idle"]
Call(name, pc, g, nodes) == [call |-> name, pc |-> pc, g |-> g, todo |-> nodes, size |-> 0]
OfGroup(nodes, g) == {n \in nodes : NGName[n] = g}
Return(t) == th' = [th EXCEPT ![t] = Idle]

\* createNodegroups: the desired size, and one more for every further template of the group
createNodegroups == [g \in Groups |-> DesiredSize[g] + Cardinality(Templates[g]) - 1]

NodeGroupForNode(n) == IF n \in Managed THEN Groups \cap {NGName[n]} ELSE {}
\* getNodeNamesForNodeGroup: the lister filtered by the annotation only kwok sets
getNodeNames(g) == OfGroup(lister \cap Managed, g)

ListerFollows ==
    /\ lister # vm /\ lister' = vm
    /\ UNCHANGED <<vm, target, th, phase, left, excused>>
OtherClient(n) ==
    /\ Spend("user") /\ vm' = IF n \in vm THEN vm \ {n} ELSE IF n \in Managed THEN vm ELSE vm \cup {n}
    /\ excused' = TRUE
    /\ UNCHANGED <<lister, target, th, phase>>

\* a mutant: only the groups with a node in the list are set
RefreshOfListed ==
    /\ phase = "refresh" /\ th["main"] = Idle /\ phase' = "act"
    /\ target' = [g \in Groups |-> IF OfGroup(lister, g) = {} THEN target[g] ELSE Cardinality(OfGroup(lister, g))]
    /\ excused' = (excused \/ lister # vm)
    /\ UNCHANGED <<vm, lister, th, left>>
Refresh ==
    /\ phase = "refresh" /\ th["main"] = Idle /\ phase' = "act"
    /\ target' = [g \in Groups |-> Cardinality(OfGroup(lister, g))]
    /\ excused' = (excused \/ lister # vm)
    /\ UNCHANGED <<vm, lister, th, left>>
EndLoop ==
    /\ phase = "act" /\ th["main"] = Idle /\ phase' = "refresh"
    /\ UNCHANGED <<vm, lister, target, th, left, excused>>

\* IncreaseSize: the nodes are created one by one, each followed by `targetSize += 1'
IncreaseSize(g, d) ==
    /\ phase = "act" /\ th["main"] = Idle /\ Spend("IncreaseSize")
    /\ target[g] + d <= MaxSize[g]
    /\ \E new \in SUBSET (OfGroup(Managed, g) \ vm) :
         Cardinality(new) = d /\ th' = [th EXCEPT !["main"] = Call("IncreaseSize", "create", g, new)]
    /\ UNCHANGED <<vm, lister, target, phase, excused>>
Node(c) == CHOOSE n \in c.todo : TRUE
CreateNode ==
    /\ th["main"].pc = "create"
    /\ LET c == th["main"] IN
       \/ c.todo = {} /\ Return("main") /\ UNCHANGED <<vm, left>>
       \/ /\ c.todo # {} /\ vm' = vm \cup {Node(c)} /\ UNCHANGED left
          /\ th' = [th EXCEPT !["main"] = [c EXCEPT !.pc = "read", !.todo = @ \ {Node(c)}]]
       \/ c.todo # {} /\ Spend("fault") /\ Return("main") /\ UNCHANGED vm
    /\ UNCHANGED <<lister, target, phase, excused>>

DecreaseTargetSize(g, d) ==
    /\ phase = "act" /\ th["main"] = Idle /\ Spend("DecreaseTargetSize")
    /\ target' = IF target[g] - d < Cardinality(getNodeNames(g)) THEN target ELSE [target EXCEPT ![g] = @ - d]
    /\ UNCHANGED <<vm, lister, th, phase, excused>>

\* DeleteNodes: checked against the target, then one by one up to the first error
DeleteNodes(g, nodes) ==
    /\ th["deleter"] = Idle /\ Spend("delete")
    /\ nodes # {} /\ nodes \subseteq getNodeNames(g)
    /\ target[g] > MinSize[g] /\ target[g] - Cardinality(nodes) >= MinSize[g]
    /\ th' = [th EXCEPT !["deleter"] = Call("DeleteNodes", "delete", g, nodes)]
    /\ UNCHANGED <<vm, lister, target, phase, excused>>
DeleteNode ==
    /\ th["deleter"].pc = "delete"
    /\ LET c == th["deleter"] IN
       \/ c.todo = {} /\ Return("deleter") /\ UNCHANGED <<vm, left>>
       \/ /\ c.todo # {} /\ Node(c) \in vm /\ vm' = vm \ {Node(c)} /\ UNCHANGED left
          /\ th' = [th EXCEPT !["deleter"] = [c EXCEPT !.pc = "read", !.todo = @ \ {Node(c)}]]
       \/ c.todo # {} /\ Node(c) \notin vm /\ Return("deleter") /\ UNCHANGED <<vm, left>>
       \/ c.todo # {} /\ Spend("fault") /\ Return("deleter") /\ UNCHANGED vm
    /\ UNCHANGED <<lister, target, phase, excused>>

\* `targetSize += 1' and `targetSize -= 1'
ReadTarget(t) ==
    /\ th[t].pc = "read" /\ th' = [th EXCEPT ![t].pc = "write", ![t].size = target[th[t].g]]
    /\ UNCHANGED <<vm, lister, target, phase, left, excused>>
WriteTarget(t) ==
    /\ th[t].pc = "write"
    /\ LET c == th[t] IN
         /\ target' = [target EXCEPT ![c.g] = c.size + (IF c.call = "IncreaseSize" THEN 1 ELSE -1)]
         /\ th' = [th EXCEPT ![t].pc = IF c.call = "IncreaseSize" THEN "create" ELSE "delete"]
         /\ excused' = (excused \/ target[c.g] # c.size)
    /\ UNCHANGED <<vm, lister, phase, left>>

-----------------------------------------------------------------------------
Init ==
    \E s \in Starts :
      /\ vm = s.nodes /\ lister = vm /\ left = s.left
      /\ target = createNodegroups
      /\ th = [t \in {"main", "deleter"} |-> Idle] /\ phase = "refresh" /\ excused = FALSE

MainStep == Refresh \/ CreateNode \/ ReadTarget("main") \/ WriteTarget("main") \/ EndLoop
DeleterStep == DeleteNode \/ ReadTarget("deleter") \/ WriteTarget("deleter")
Next ==
    \/ MainStep \/ DeleterStep \/ ListerFollows
    \/ \E n \in Names : OtherClient(n)
    \/ \E g \in Groups, d \in 1..2 : IncreaseSize(g, d) \/ DecreaseTargetSize(g, d)
    \/ \E g \in Groups, nodes \in SUBSET Names : DeleteNodes(g, nodes)
Spec == Init /\ [][Next]_vars /\ WF_vars(MainStep) /\ WF_vars(DeleterStep) /\ WF_vars(ListerFollows)

-----------------------------------------------------------------------------
\* IncreaseSize never makes more nodes than the maximum size of the group, as long as the
\* target it starts from was not set from an old list or written over.
MaxSizeKept == excused \/ \A g \in Groups : Cardinality(OfGroup(vm \cap Managed, g)) <= MaxSize[g]

\* The target of a group is the number of its nodes, whatever the races on targetSize left there.
SizesAgree == \A g \in Groups : target[g] = Cardinality(OfGroup(vm, g))
=============================================================================
