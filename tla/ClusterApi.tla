------------------------------- MODULE ClusterApi -------------------------------
(***************************************************************************)
(* The Cluster API provider: nodegroup over unstructuredScalableResource   *)
(* and machineController.  It keeps no cache of its own: it reads the      *)
(* shared informers (inf, which follow the API server with a delay), reads *)
(* and patches the scale subresource directly, and marks machines.  Two    *)
(* threads call it: "main" (the loop) and "deleter" (a batch of node       *)
(* deletions).  DeleteNodes holds accessLock; the other calls do not.      *)
(* res and vm are the API server's objects and the Cluster API controllers *)
(* that act on them: external, modelled from how the provider uses them.   *)
(***************************************************************************)
EXTENDS Integers, FiniteSets, FiniteSetsExt

CONSTANTS Groups, Kind,       \* "MachineDeployment", "MachineSet" or "MachinePool"
          Names, Owner,       \* machine names, and the group each one belongs to
          NoProviderId,       \* machines whose spec.providerID stays empty
          MinSize, MaxSize,
          FromZero,           \* groups that say what capacity a node has
          Allowed,            \* groups the auto-discovery specs let through
          Starts              \* what the run starts from; `left' bounds how often each call or event may happen

VARIABLES res,      \* per group: spec.replicas, the pause annotation, a rollout in progress, a pool's providerIDList
          vm,       \* per machine: its state, deletion timestamp and delete annotation
          inf,      \* what the informers hold of res, of vm and of the nodes
          held,     \* the replicas of the node groups that the loop holds
          th, phase, left,
          excused   \* history: two changes of a group's size, or of what a machine is, overlapped

vars == <<res, vm, inf, held, th, phase, left, excused>>

Threads == {"main", "deleter"}
Idle == [call |-> "none", pc |-> "idle"]
Call(name, pc, g, nodes, d, prefixed) ==
    [call |-> name, pc |-> pc, g |-> g, todo |-> nodes, delta |-> d, replicas |-> 0, kept |-> 0, prefixed |-> prefixed]
Spend(kind) == left[kind] > 0 /\ left' = [left EXCEPT ![kind] = @ - 1]
Return(t) == th' = [th EXCEPT ![t] = Idle]
Step(t, pc) == th' = [th EXCEPT ![t].pc = pc]

IsPool(g) == Kind[g] = "MachinePool"
NoMachine == [state |-> "none", deleting |-> FALSE, marked |-> FALSE]
Members(machines, g) == {n \in Names : Owner[n] = g /\ machines[n].state # "none"}
HasNode(m) == m.state \in {"running", "broken"}
Nodes == {n \in Names : HasNode(vm[n])}

-----------------------------------------------------------------------------
\* What the provider finds in the informers

isScalableResourceAndPaused(g) == inf.res[g].paused

\* newNodeGroupFromScalableResource returns a node group
IsNodeGroup(g) ==
    /\ g \in Allowed
    /\ inf.res[g].replicas = 0 => g \in FromZero
    /\ MaxSize[g] >= MinSize[g] /\ MaxSize[g] > 0
nodeGroups == {g \in Groups : IsNodeGroup(g) /\ ~isScalableResourceAndPaused(g)}

\* findMachineByProviderID: through the index, the made-up ID, or the annotation of the node
findMachineByProviderID(n, prefixed) ==
    /\ inf.vm[n].state # "none"
    /\ n \notin NoProviderId \/ prefixed \/ n \in inf.nodes

\* findScalableResourceByProviderID, for a pool and for what owns a machine
findScalableResource(n, prefixed) ==
    {g \in Groups : \/ IsPool(g) /\ n \in inf.res[g].ids
                    \/ ~IsPool(g) /\ Owner[n] = g /\ findMachineByProviderID(n, prefixed)}
nodeGroupForNode(n, prefixed) ==
    {g \in findScalableResource(n, prefixed) : ~isScalableResourceAndPaused(g) /\ IsNodeGroup(g)}

\* findScalableResourceProviderIDs: the kind of ID each machine of a group is listed under
ListedAs(n) ==
    CASE inf.vm[n].state \in {"failed", "broken"} -> "failed"
      [] inf.vm[n].deleting -> "deleting"
      [] inf.vm[n].state = "pending" -> "pending"
      [] n \in NoProviderId /\ n \notin inf.nodes -> "unlisted"
      [] OTHER -> "node"
ProviderIDs(g) ==
    IF IsPool(g) THEN {[name |-> n, as |-> "node"] : n \in inf.res[g].ids}
    ELSE {[name |-> n, as |-> ListedAs(n)] : n \in {x \in Members(inf.vm, g) : ListedAs(x) # "unlisted"}}

\* the status Nodes gives an ID; a broken machine whose node exists gets none
InstanceStatus(id) ==
    CASE id.as = "failed" ->
             IF inf.vm[id.name].deleting THEN "DeletingFailed"
             ELSE IF HasNode(inf.vm[id.name]) THEN "none" ELSE "ProvisioningFailed"
      [] id.as = "pending" -> "creating"
      [] id.as = "deleting" -> "deleting"
      [] OTHER -> "running"

IsMachineDeploymentAndRollingOut(g) == Kind[g] = "MachineDeployment" /\ inf.res[g].rolling
GetScaleDownCandidates(nodes) ==
    {n \in nodes : \E g \in nodeGroupForNode(n, FALSE) : ~IsMachineDeploymentAndRollingOut(g)}

-----------------------------------------------------------------------------
\* The API server, the controllers and the informers

Replacing(g) == {n \in Members(vm, g) : ~vm[n].deleting}
\* whom a controller deletes when there are too many: marked, then without a node, then any
Victims(g) ==
    LET marked == {n \in Replacing(g) : vm[n].marked}
        nodeless == {n \in Replacing(g) : ~HasNode(vm[n])}
    IN  IF marked # {} THEN marked ELSE IF nodeless # {} THEN nodeless ELSE Replacing(g)
Free(g) == {n \in Names : Owner[n] = g /\ vm[n].state = "none"}

ControllerStep(n) ==
    LET g == Owner[n] IN
    /\ ~res[g].paused
    /\ \/ /\ Cardinality(Replacing(g)) < res[g].replicas /\ Free(g) # {} /\ n = CHOOSE x \in Free(g) : TRUE
          /\ vm' = [vm EXCEPT ![n] = [NoMachine EXCEPT !.state = "pending"]]
       \/ /\ Cardinality(Replacing(g)) > res[g].replicas /\ n \in Victims(g)
          /\ vm' = [vm EXCEPT ![n].deleting = TRUE]
       \/ vm[n].deleting /\ vm' = [vm EXCEPT ![n] = NoMachine]
       \* a pending machine is given up before one with a node, as the NodeGroup interface assumes
       \/ /\ vm[n].state = "pending" /\ ~vm[n].deleting /\ Cardinality(Replacing(g)) <= res[g].replicas
          /\ vm' = [vm EXCEPT ![n].state = "running"]
ControllersMove ==
    /\ \E n \in Names : ControllerStep(n)
    /\ res' = [g \in Groups |-> [res[g] EXCEPT !.ids = IF IsPool(g) THEN {n \in Names : Owner[n] = g /\ HasNode(vm'[n])} ELSE {},
                                               !.rolling = FALSE]]
    /\ UNCHANGED <<inf, held, th, phase, left, excused>>
MachineFails(n) ==
    /\ Spend("spoil") /\ vm[n].state \in {"pending", "running"} /\ ~vm[n].deleting /\ ~IsPool(Owner[n])
    /\ vm' = [vm EXCEPT ![n].state = IF HasNode(vm[n]) THEN "broken" ELSE "failed"]
    /\ UNCHANGED <<res, inf, held, th, phase, excused>>
OtherClient(g) ==
    /\ \/ /\ Spend("resize") /\ excused' = TRUE
          /\ \E r \in MinSize[g]..MaxSize[g] : r # res[g].replicas /\ res' = [res EXCEPT ![g].replicas = r]
       \/ Spend("pause") /\ res' = [res EXCEPT ![g].paused = ~@] /\ UNCHANGED excused
       \/ /\ Spend("roll") /\ UNCHANGED excused
          /\ Kind[g] = "MachineDeployment" /\ res' = [res EXCEPT ![g].rolling = TRUE]
    /\ UNCHANGED <<vm, inf, held, th, phase>>

\* pools have no machines, and a node is only looked for when its machine has no provider ID
MachinesNow == [n \in Names |-> IF IsPool(Owner[n]) THEN NoMachine ELSE vm[n]]
NodesNow == Nodes \cap NoProviderId
InformersFollow ==
    /\ \/ inf' = [inf EXCEPT !.res = res]
       \/ inf' = [inf EXCEPT !.vm = MachinesNow]
       \/ inf' = [inf EXCEPT !.nodes = NodesNow]
    /\ inf' # inf
    /\ UNCHANGED <<res, vm, held, th, phase, left, excused>>

-----------------------------------------------------------------------------
\* Reading and setting the size

\* SetSize may be refused: by the bounds here, or by the API server
SetSizeRefused(g, n) == n > MaxSize[g] \/ n < MinSize[g]
Patch(g, n) == res' = [res EXCEPT ![g].replicas = n]

\* NodeGroups, at the start of a loop
NodeGroups ==
    /\ phase = "observe" /\ th["main"] = Idle
    /\ held' = [g \in nodeGroups |-> inf.res[g].replicas]
    /\ phase' = "act"
    /\ UNCHANGED <<res, vm, inf, th, left, excused>>
EndLoop ==
    /\ phase = "act" /\ th["main"] = Idle /\ phase' = "observe"
    /\ UNCHANGED <<res, vm, inf, held, th, left, excused>>

StartResize(name, g, d) ==
    /\ phase = "act" /\ th["main"] = Idle /\ g \in DOMAIN held /\ Spend(name)
    /\ th' = [th EXCEPT !["main"] = Call(name, "replicas", g, {}, d, FALSE)]
    /\ UNCHANGED <<res, vm, inf, held, phase, excused>>

\* Replicas reads the scale; DecreaseTargetSize then counts the nodes it would keep
Replicas ==
    /\ th["main"].pc = "replicas"
    /\ \/ Spend("fault") /\ Return("main")
       \/ /\ UNCHANGED left
          /\ LET c == th["main"]
                 kept == Cardinality({id \in ProviderIDs(c.g) : id.as = "node"})
             IN  th' = [th EXCEPT !["main"] =
                          IF c.delta < 0 /\ res[c.g].replicas + c.delta < kept THEN Idle
                          ELSE [c EXCEPT !.pc = "resize", !.replicas = res[c.g].replicas, !.kept = kept]]
    /\ UNCHANGED <<res, vm, inf, held, phase, excused>>
Staying(g) == Cardinality({n \in Nodes : Owner[n] = g /\ vm[n].state = "running" /\ ~vm[n].deleting})
Resize ==
    /\ th["main"].pc = "resize" /\ Return("main")
    /\ LET c == th["main"]
           n == c.replicas + c.delta
       IN  \/ /\ SetSizeRefused(c.g, n)
              /\ UNCHANGED <<res, held, left, excused>>
           \/ ~SetSizeRefused(c.g, n) /\ Spend("fault") /\ UNCHANGED <<res, held, excused>>
           \/ /\ ~SetSizeRefused(c.g, n) /\ Patch(c.g, n)
              /\ held' = [held EXCEPT ![c.g] = n]
              /\ excused' = (excused \/ res[c.g].replicas # c.replicas \/ (c.delta < 0 /\ c.kept # Staying(c.g)))
              /\ UNCHANGED left
    /\ UNCHANGED <<vm, inf, phase>>

-----------------------------------------------------------------------------
\* DeleteNodes

StartDelete(g, nodes) ==
    /\ th["deleter"] = Idle /\ g \in DOMAIN held /\ Spend("delete")
    /\ nodes # {} /\ nodes \subseteq GetScaleDownCandidates(Nodes)
    /\ \A n \in nodes : g \in nodeGroupForNode(n, FALSE)
    /\ th' = [th EXCEPT !["deleter"] = Call("DeleteNodes", "verify", g, nodes, 0, FALSE)]
    /\ UNCHANGED <<res, vm, inf, held, phase, excused>>
\* the loop removes an instance that never registered, or that failed
StartDeleteUnregistered(g, n) ==
    /\ phase = "act" /\ th["main"] = Idle /\ g \in DOMAIN held /\ Spend("unregistered")
    /\ ~IsPool(g)
    /\ \E id \in ProviderIDs(g) : id.name = n /\ id.as # "node" /\ InstanceStatus(id) # "deleting"
    /\ th' = [th EXCEPT !["main"] = Call("DeleteNodes", "verify", g, {n}, 0, TRUE)]
    /\ UNCHANGED <<res, vm, inf, held, phase, excused>>

Locked(t) == \E u \in Threads \ {t} : th[u].call = "DeleteNodes" /\ th[u].pc \in {"node", "mark", "shrink"}

\* under accessLock: the size, then that every node belongs to the group and may go
DeleteNodes(t) ==
    /\ th[t].pc = "verify" /\ ~Locked(t)
    /\ LET c == th[t] IN
       \/ Spend("fault") /\ Return(t)
       \/ /\ UNCHANGED left
          /\ th' = [th EXCEPT ![t] =
               IF \/ res[c.g].replicas <= MinSize[c.g]
                  \/ \E n \in c.todo : nodeGroupForNode(n, c.prefixed) # {c.g}
                  \/ res[c.g].replicas - Cardinality(c.todo) < MinSize[c.g]
               THEN Idle ELSE [c EXCEPT !.pc = "node", !.replicas = res[c.g].replicas]]
    /\ UNCHANGED <<res, vm, inf, held, phase, excused>>

Current(c) == CHOOSE n \in c.todo : TRUE
Skipped(c) == [c EXCEPT !.todo = @ \ {Current(c)}, !.pc = "node"]

\* the node is looked up again, and its machine, which may be on its way out already
DeleteNode(t) ==
    /\ th[t].pc = "node"
    /\ LET c == th[t]
           n == Current(c)
           found == findMachineByProviderID(n, c.prefixed)
       IN  /\ c.todo # {} => nodeGroupForNode(n, c.prefixed) # {}
           /\ th' = [th EXCEPT ![t] =
                IF c.todo = {} THEN Idle
                ELSE IF ~found THEN (IF IsPool(c.g) /\ n \in inf.res[c.g].ids THEN [c EXCEPT !.pc = "shrink"] ELSE Idle)
                ELSE IF inf.vm[n].deleting THEN Skipped(c)
                ELSE [c EXCEPT !.pc = "mark"]]
    /\ UNCHANGED <<res, vm, inf, held, phase, left, excused>>
\* the group was paused, or left, since the nodes were verified: nodeGroup is nil
Restart(t) ==
    /\ th[t].pc = "node" /\ th[t].todo # {}
    /\ nodeGroupForNode(Current(th[t]), th[t].prefixed) = {}
    /\ th' = [u \in Threads |-> Idle] /\ phase' = "observe" /\ held' = << >>
    /\ UNCHANGED <<res, vm, inf, left, excused>>

\* a decrease that named no machine has not been carried out yet
DecreasePending(g) == Cardinality({n \in Replacing(g) : ~vm[n].marked}) > res[g].replicas
MarkMachineForDeletion(t) ==
    /\ th[t].pc = "mark"
    /\ LET n == Current(th[t]) IN
       \/ Spend("fault") /\ Return(t) /\ UNCHANGED <<vm, excused>>
       \/ vm[n].state = "none" /\ Return(t) /\ UNCHANGED <<vm, left, excused>>
       \/ /\ vm[n].state # "none" /\ Step(t, "shrink") /\ UNCHANGED left
          /\ vm' = [vm EXCEPT ![n].marked = TRUE]
          /\ excused' = (excused \/ vm[n].marked \/ vm[n].deleting \/ DecreasePending(Owner[n]))
    /\ UNCHANGED <<res, inf, held, phase>>

\* SetSize one lower; when that fails the mark is taken back
Shrink(t) ==
    /\ th[t].pc = "shrink"
    /\ LET c == th[t]
           n == Current(c)
       IN  \/ /\ Return(t)
              /\ \/ SetSizeRefused(c.g, c.replicas - 1) /\ UNCHANGED left
                 \/ Spend("fault")
              /\ vm' = IF vm[n].state # "none" THEN [vm EXCEPT ![n].marked = FALSE] ELSE vm
              /\ UNCHANGED <<res, excused>>
           \/ /\ ~SetSizeRefused(c.g, c.replicas - 1) /\ Patch(c.g, c.replicas - 1)
              /\ th' = [th EXCEPT ![t] = [Skipped(c) EXCEPT !.replicas = c.replicas - 1]]
              /\ excused' = (excused \/ IsPool(c.g) \/ res[c.g].replicas # c.replicas)
              /\ UNCHANGED <<vm, left>>
    /\ UNCHANGED <<inf, held, phase>>

-----------------------------------------------------------------------------
Init ==
    \E s \in Starts :
      /\ res = [g \in Groups |-> [replicas |-> s.replicas[g], paused |-> FALSE, rolling |-> FALSE,
                                  ids |-> IF IsPool(g) THEN {n \in Names : Owner[n] = g /\ s.vm[n] = "running"} ELSE {}]]
      /\ vm = [n \in Names |-> [NoMachine EXCEPT !.state = s.vm[n]]]
      /\ inf = [res |-> res, vm |-> MachinesNow, nodes |-> NodesNow]
      /\ held = << >> /\ phase = "observe" /\ left = s.left
      /\ th = [t \in Threads |-> Idle] /\ excused = FALSE

DeleteSteps(t) == DeleteNodes(t) \/ DeleteNode(t) \/ Restart(t) \/ MarkMachineForDeletion(t) \/ Shrink(t)
MainStep == NodeGroups \/ Replicas \/ Resize \/ DeleteSteps("main") \/ EndLoop
DeleterStep == DeleteSteps("deleter")
Calls ==
    \/ \E g \in Groups : StartResize("IncreaseSize", g, 1) \/ StartResize("DecreaseTargetSize", g, -1)
    \/ \E g \in Groups, nodes \in SUBSET Names : StartDelete(g, nodes)
    \/ \E g \in Groups, n \in Names : StartDeleteUnregistered(g, n)
Next ==
    \/ MainStep \/ DeleterStep \/ Calls \/ ControllersMove \/ InformersFollow
    \/ \E n \in Names : MachineFails(n)
    \/ \E g \in Groups : OtherClient(g)

Spec ==
    /\ Init /\ [][Next]_vars
    /\ WF_vars(MainStep) /\ WF_vars(DeleterStep)
    /\ WF_vars(ControllersMove) /\ WF_vars(InformersFollow)

-----------------------------------------------------------------------------
\* SetSize keeps the replicas of every group inside its bounds, whoever changed them since
\* they were read.
MaxSizeKept == \A g \in Groups : res[g].replicas \in MinSize[g]..MaxSize[g]

\* A machine that carries a node is deleted only if a DeleteNodes call named it: the decrement
\* of DeleteNodes takes the machine it was made for, and DecreaseTargetSize only gives up
\* machines without a node.  The code keeps this as long as two changes do not overlap: a size
\* written over another one, a machine named twice or while a decrease is still to be carried
\* out, a machine that got its node after DecreaseTargetSize had counted.
KeepsMachines == \A n \in Nodes : ~vm[n].deleting /\ vm'[n].deleting => vm[n].marked \/ excused

\* A running machine of a group that is managed and not paused is to be both listed by Nodes
\* under its node's ID and attributed to its group by nodeGroupForNode, with or without a
\* provider ID of its own.
Recognised(n) == /\ nodeGroupForNode(n, FALSE) = {Owner[n]}
                 /\ [name |-> n, as |-> "node"] \in ProviderIDs(Owner[n])
Runs(n) == /\ vm[n].state = "running" /\ ~vm[n].deleting /\ ~res[Owner[n]].paused
           /\ Owner[n] \in Allowed /\ res[Owner[n]].replicas > 0
=============================================================================
