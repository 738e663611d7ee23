------------------------------ MODULE ExternalGrpc ------------------------------
(***************************************************************************)
(* The external gRPC provider: externalGrpcCloudProvider caches what the   *)
(* service says of the node groups and of the group of a node until the    *)
(* next Refresh; everything else of a NodeGroup is one call of the         *)
(* service.  A call holds the provider's mutex while it waits, so that a   *)
(* lookup is one step.  Any call may be refused, or be carried out while   *)
(* its answer comes too late for grpcTimeout.  vm, target and exists are   *)
(* the service: external.                                                  *)
(***************************************************************************)
EXTENDS Integers, FiniteSets, TLC

CONSTANTS Groups, Names, Owner, MinSize, MaxSize, Starts

VARIABLES vm, target, exists,
          nodeGroupsCache,          \* << >>, or <<the groups>>
          nodeGroupForNodeCache,    \* partial: node to group
          attributed,               \* what the loop took the group of each node to be
          th, phase, left,
          recent                    \* history: the groups that existed since the caches were dropped

caches == <<nodeGroupsCache, nodeGroupForNodeCache>>
vars == <<vm, target, exists, caches, attributed, th, phase, left, recent>>

Spend(kind) == left[kind] > 0 /\ left' = [left EXCEPT ![kind] = @ - 1]
Idle == [call |-> "none"]
Nodes == {n \in Names : vm[n] = "running"}
Live(g) == {n \in Names : Owner[n] = g /\ vm[n] \in {"creating", "running"}}

-----------------------------------------------------------------------------
\* The service and what it manages

ServiceStep(n) ==
    LET g == Owner[n] IN
    \/ /\ vm[n] = "none" /\ g \in exists /\ Cardinality(Live(g)) < target[g]
       /\ n = CHOOSE x \in Names : Owner[x] = g /\ vm[x] = "none"
       /\ vm' = [vm EXCEPT ![n] = "creating"]
    \/ vm[n] = "creating" /\ vm' = [vm EXCEPT ![n] = IF Cardinality(Live(g)) > target[g] THEN "none" ELSE "running"]
    \/ vm[n] = "deleting" /\ vm' = [vm EXCEPT ![n] = "none"]
ServiceMoves ==
    /\ \E n \in Names : ServiceStep(n)
    /\ UNCHANGED <<target, exists, caches, attributed, th, phase, left, recent>>
GroupComesOrGoes(g) ==
    /\ Spend("user") /\ exists' = IF g \in exists THEN exists \ {g} ELSE exists \cup {g}
    /\ recent' = recent \cup exists'
    /\ UNCHANGED <<vm, target, caches, attributed, th, phase>>
\* the service's answer to NodeGroupForNode; an empty ID when no group manages the node
ServiceGroupForNode(n) == exists \cap {Owner[n]}

-----------------------------------------------------------------------------
\* Lookups through the caches

NodeGroups ==
    /\ th["main"].call = "NodeGroups"
    /\ \/ /\ nodeGroupsCache = << >> /\ Spend("fault")
          /\ th' = [th EXCEPT !["main"] = [call |-> "lookups", groups |-> {}]] /\ UNCHANGED nodeGroupsCache
       \/ \E groups \in {IF nodeGroupsCache # << >> THEN nodeGroupsCache[1] ELSE exists} :
            /\ nodeGroupsCache' = <<groups>>
            /\ th' = [th EXCEPT !["main"] = [call |-> "lookups", groups |-> groups]]
            /\ UNCHANGED left
    /\ UNCHANGED <<vm, target, exists, nodeGroupForNodeCache, attributed, phase, recent>>

\* the group of a node: cached, asked for, or an error; an answer without a group is not cached
NodeGroupForNode(n) ==
    \/ /\ n \in DOMAIN nodeGroupForNodeCache
       /\ attributed' = [attributed EXCEPT ![n] = {nodeGroupForNodeCache[n]}]
       /\ UNCHANGED <<nodeGroupForNodeCache, left>>
    \/ /\ n \notin DOMAIN nodeGroupForNodeCache
       /\ attributed' = [attributed EXCEPT ![n] = ServiceGroupForNode(n)]
       /\ nodeGroupForNodeCache' = [x \in IF Owner[n] \in exists THEN {n} ELSE {} |-> Owner[x]] @@ nodeGroupForNodeCache
       /\ UNCHANGED left
    \/ n \notin DOMAIN nodeGroupForNodeCache /\ Spend("fault") /\ UNCHANGED <<nodeGroupForNodeCache, attributed>>
\* the loop asks for every node; another goroutine may ask for one
Lookup(n) ==
    /\ n \in Nodes /\ th["main"].call = "lookups" /\ n \notin phase
    /\ NodeGroupForNode(n) /\ phase' = phase \cup {n}
    /\ UNCHANGED <<vm, target, exists, nodeGroupsCache, th, recent>>
LookupElsewhere(n) ==
    /\ n \in Nodes /\ Spend("lookup")
    /\ n \notin DOMAIN nodeGroupForNodeCache /\ Owner[n] \in exists
    /\ nodeGroupForNodeCache' = n :> Owner[n] @@ nodeGroupForNodeCache
    /\ UNCHANGED <<vm, target, exists, nodeGroupsCache, attributed, th, phase, recent>>

\* Refresh: the caches are dropped first, then the service is told
Refresh ==
    /\ th["main"] = Idle
    /\ nodeGroupsCache' = << >> /\ nodeGroupForNodeCache' = << >>
    /\ recent' = exists
    /\ attributed' = [n \in Names |-> {}]
    /\ th' = [th EXCEPT !["main"] = [call |-> "Refresh"]]
    /\ UNCHANGED <<vm, target, exists, phase, left>>
Refreshed ==
    /\ th["main"].call = "Refresh" /\ phase' = {}
    /\ \/ UNCHANGED left /\ th' = [th EXCEPT !["main"] = [call |-> "NodeGroups"]]
       \/ Spend("fault") /\ th' = [th EXCEPT !["main"] = Idle]
    /\ UNCHANGED <<vm, target, exists, caches, attributed, recent>>

-----------------------------------------------------------------------------
\* Calls passed on to the service, which keeps the bounds and refuses what breaks them

Done(t) == th' = [th EXCEPT ![t] = Idle]
\* the service changes its state, and an answer that is late is an error for the caller
Passed(effect, spent) == effect /\ (Spend("late") \/ left' = [left EXCEPT ![spent] = @ - 1])

InLoop(g) == th["main"].call = "lookups" /\ Nodes \subseteq phase /\ g \in th["main"].groups
IncreaseSize(g) ==
    /\ InLoop(g) /\ left["IncreaseSize"] > 0
    /\ Passed(target' = IF g \in exists /\ target[g] < MaxSize[g] THEN [target EXCEPT ![g] = @ + 1] ELSE target,
              "IncreaseSize")
    /\ UNCHANGED <<vm, exists, caches, attributed, th, phase, recent>>
DecreaseTargetSize(g) ==
    /\ InLoop(g) /\ left["DecreaseTargetSize"] > 0
    /\ Passed(target' = IF g \in exists /\ target[g] > Cardinality(Live(g) \cap Nodes) /\ target[g] > MinSize[g]
                        THEN [target EXCEPT ![g] = @ - 1] ELSE target, "DecreaseTargetSize")
    /\ UNCHANGED <<vm, exists, caches, attributed, th, phase, recent>>
\* the deleter's group comes from what the loop attributed the node to
StartDelete(n) ==
    /\ th["deleter"] = Idle /\ n \in Nodes /\ attributed[n] # {} /\ Spend("delete")
    /\ th' = [th EXCEPT !["deleter"] = [call |-> "DeleteNodes", node |-> n, groups |-> attributed[n]]]
    /\ UNCHANGED <<vm, target, exists, caches, attributed, phase, recent>>
DeleteNodes ==
    /\ th["deleter"].call = "DeleteNodes" /\ Done("deleter")
    /\ LET n == th["deleter"].node
           g == Owner[n]
           taken == g \in exists /\ vm[n] = "running" /\ target[g] > MinSize[g]
       IN  \/ /\ vm' = IF taken THEN [vm EXCEPT ![n] = "deleting"] ELSE vm
              /\ target' = IF taken THEN [target EXCEPT ![g] = @ - 1] ELSE target
              /\ UNCHANGED left
           \/ Spend("fault") /\ UNCHANGED <<vm, target>>
    /\ UNCHANGED <<exists, caches, attributed, phase, recent>>

EndLoop ==
    /\ th["main"].call = "lookups" /\ Nodes \subseteq phase /\ Done("main")
    /\ UNCHANGED <<vm, target, exists, caches, attributed, phase, left, recent>>

-----------------------------------------------------------------------------
Init ==
    \E s \in Starts :
      /\ vm = s.vm /\ target = s.target /\ exists = s.exists /\ left = s.left
      /\ nodeGroupsCache = << >> /\ nodeGroupForNodeCache = << >>
      /\ attributed = [n \in Names |-> {}] /\ phase = {} /\ recent = exists
      /\ th = [t \in {"main", "deleter"} |-> Idle]

MainStep == Refresh \/ Refreshed \/ NodeGroups \/ EndLoop \/ \E n \in Names : Lookup(n)
Next ==
    \/ MainStep \/ DeleteNodes \/ ServiceMoves
    \/ \E n \in Names : LookupElsewhere(n) \/ StartDelete(n)
    \/ \E g \in Groups : IncreaseSize(g) \/ DecreaseTargetSize(g) \/ GroupComesOrGoes(g)
Spec == Init /\ [][Next]_vars /\ WF_vars(MainStep) /\ WF_vars(DeleteNodes) /\ WF_vars(ServiceMoves)

-----------------------------------------------------------------------------
\* No answer outlives the Refresh that drops the caches: what NodeGroups returns and what a
\* node is attributed to existed at some time since then.
AnswersAreRecent ==
    /\ nodeGroupsCache # << >> => nodeGroupsCache[1] \subseteq recent
    /\ \A n \in Names : attributed[n] \subseteq recent

\* A node of a group that exists is to be attributed to that group: a lookup that failed or
\* found no group is not remembered.
Runs(n) == n \in Nodes /\ Owner[n] \in exists
Recognised(n) == attributed[n] = {Owner[n]}
=============================================================================
