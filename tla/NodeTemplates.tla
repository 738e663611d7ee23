---------------------------- MODULE NodeTemplates ----------------------------
(***************************************************************************)
(* What a new node of a group will look like, and which nodes are ready.   *)
(* Nodes boot piece by piece: kubelet, GPU driver, resource slices, CSI    *)
(* drivers, startup taints, daemon pods.  Each iteration obtainNodeLists   *)
(* overrides the readiness of nodes that lack a resource, and the template *)
(* registry is recomputed from the nodes that are left, from its cache or  *)
(* from the cloud provider.  The DRA check asks the registry what a node   *)
(* of the group should have, so a wrong template confirms itself.          *)
(***************************************************************************)
EXTENDS Integers, Sequences, SequencesExt, FiniteSetsExt, Functions, FiniteSets

-----------------------------------------------------------------------------
(***************************************************************************)
(* How far the devices of ready nodes are from what their templates        *)
(* promised (simulator/dynamicresources/comparator).  A report compares    *)
(* every node in turn, in buffers that it reuses, and sets gauges by       *)
(* driver.  Groups of like devices are matched exactly first, by an index  *)
(* into a list that shrinks by moving its last element into the gap, and   *)
(* then to the most similar group.                                         *)
(***************************************************************************)
CONSTANTS Pairs,      \* slices of a template and of a node: sequences of slices with driver, pool, generation,
                      \* the number of slices in the pool, and the attribute sets of the devices
          Signature,  \* computeAttrMapHash, which may collide
          MaxNodes, MaxReports

VARIABLES pair,               \* the slices being compared
          templateResources, nodeResources,  \* the groups of devices not matched yet
          address,            \* nodeResourceAddressMap
          index,              \* the loop variable of the two eliminations
          deltas,
          step,               \* "idle", "exact", "fuzzy" or "left"
          nodesLeft, reportsLeft,
          discrepancies, lastSeen, gauges,
          tally               \* history: discrepancies of this report by driver and type

reportVars == <<pair, templateResources, nodeResources, address, index, deltas, step, nodesLeft, reportsLeft,
          discrepancies, lastSeen, gauges, tally>>

Drivers == {s.driver : s \in UNION {Range(p.template) \cup Range(p.node) : p \in Pairs}}
Types == {"missing", "extra", "mismatch"}
Clean == [t \in Types |-> 0]

-----------------------------------------------------------------------------
\* A driver in flux has a pool with slices of several generations, or not all of them.
driverInFlux(d, slices) ==
  \E s \in Range(slices) :
    LET pool == SelectSeq(slices, LAMBDA r : r.driver = d /\ r.pool = s.pool)
    IN  /\ s.driver = d
        /\ \/ Len(pool) # pool[1].count
           \/ \E r \in Range(pool) : r.generation # pool[1].generation

comparedDrivers(p) ==
  {s.driver : s \in {r \in Range(p.template) \cup Range(p.node) : ~driverInFlux(r.driver, p.node)}}

\* ingestPoolDevice: a device joins the group with its driver, pool and attributes, or starts one.
ingestPoolDevice(groups, s, attrs) ==
  LET Alike(i) == groups[i].driver = s.driver /\ groups[i].pool = s.pool /\ groups[i].attrs = attrs
  IN  IF \E i \in 1..Len(groups) : Alike(i)
      THEN [i \in 1..Len(groups) |-> IF Alike(i) THEN [groups[i] EXCEPT !.devices = @ + 1] ELSE groups[i]]
      ELSE Append(groups, [driver |-> s.driver, pool |-> s.pool, attrs |-> attrs, devices |-> 1])

buildResourceGroups(slices, compared) ==
  FoldLeft(LAMBDA groups, s :
             IF s.driver \notin compared THEN groups
             ELSE FoldLeft(LAMBDA g, attrs : ingestPoolDevice(g, s, attrs), groups, s.devices),
           <<>>, slices)

Identifier(g) == <<g.driver, Signature[g.attrs]>>
populateAddresses(groups) ==
  [id \in {Identifier(groups[i]) : i \in 1..Len(groups)} |->
     Max({i \in 1..Len(groups) : Identifier(groups[i]) = id})]

swapDelete(s, i) == IF i = Len(s) THEN SubSeq(s, 1, Len(s) - 1)
                    ELSE SubSeq([s EXCEPT ![i] = s[Len(s)]], 1, Len(s) - 1)

\* deleteNodeResourceAddress, when groups has lost the group at i.
deleteNodeResourceAddress(ids, id, groups, i) ==
  LET moved == IF i <= Len(groups) THEN {Identifier(groups[i])} ELSE {}
  IN  [x \in (DOMAIN ids \ {id}) \cup moved |-> IF x \in moved THEN i ELSE ids[x]]

-----------------------------------------------------------------------------
\* The drivers seen last time are counted from zero.
resetDiscrepanciesPerDriver == [d \in lastSeen |-> Clean]

StartReport ==
  /\ step = "idle" /\ reportsLeft > 0 /\ nodesLeft = 0
  /\ reportsLeft' = reportsLeft - 1
  /\ nodesLeft' \in 1..MaxNodes
  /\ discrepancies' = resetDiscrepanciesPerDriver /\ lastSeen' = {}
  /\ tally' = [d \in Drivers |-> Clean]
  /\ UNCHANGED <<pair, templateResources, nodeResources, address, index, deltas, step, gauges>>

\* CompareResourcePools of the next node, up to the groups.
StartNode ==
  /\ step = "idle" /\ nodesLeft > 0
  /\ \E p \in Pairs :
       \E compared \in {comparedDrivers(p)} :
         /\ pair' = p
         /\ templateResources' = buildResourceGroups(p.template, compared)
         /\ nodeResources' = buildResourceGroups(p.node, compared)
  /\ address' = populateAddresses(nodeResources')
  /\ index' = Len(templateResources') /\ deltas' = <<>> /\ step' = "exact"
  /\ UNCHANGED <<nodesLeft, reportsLeft, discrepancies, lastSeen, gauges, tally>>

\* eliminateExactMatchResources, one template group: by its address, else by a search.
Exactly(t, n) == n.driver = t.driver /\ n.attrs = t.attrs /\ n.devices = t.devices
ExactMatch ==
  /\ step = "exact" /\ index > 0
  /\ LET t == templateResources[index]
         found == {j \in 1..Len(nodeResources) : Exactly(t, nodeResources[j])}
         id == Identifier(t)
         j == IF id \in DOMAIN address /\ address[id] \in found THEN address[id] ELSE Min(found)
     IN  IF found = {} THEN UNCHANGED <<templateResources, nodeResources, address>>
         ELSE /\ templateResources' = swapDelete(templateResources, index)
              /\ nodeResources' = swapDelete(nodeResources, j)
              /\ address' = deleteNodeResourceAddress(address, id, nodeResources', j)
  /\ index' = index - 1
  /\ UNCHANGED <<pair, deltas, step, nodesLeft, reportsLeft, discrepancies, lastSeen, gauges, tally>>

ExactDone ==
  /\ step = "exact" /\ index = 0
  /\ step' = "fuzzy" /\ index' = Len(templateResources)
  /\ UNCHANGED <<pair, templateResources, nodeResources, address, deltas, nodesLeft, reportsLeft, discrepancies,
                 lastSeen, gauges, tally>>

\* findNodeFuzzyMatch: most common attributes, then the closest number of devices, then the first.
Abs(x) == IF x < 0 THEN -x ELSE x
Closer(t, n, m) ==
  LET overlap(g) == Cardinality(t.attrs \cap g.attrs)
      off(g) == Abs(t.devices - g.devices)
  IN  overlap(n) > overlap(m) \/ (overlap(n) = overlap(m) /\ off(n) < off(m))
findNodeFuzzyMatch(t) ==
  LET same == {j \in 1..Len(nodeResources) : nodeResources[j].driver = t.driver}
  IN  Min({j \in same : \A k \in same : ~Closer(t, nodeResources[k], nodeResources[j])} \cup {Len(nodeResources) + 1})

Delta(type, g, delta, same) == [type |-> type, driver |-> g.driver, delta |-> delta, same |-> same]

FuzzyMatch ==
  /\ step = "fuzzy" /\ index > 0
  /\ LET t == templateResources[index]
         j == findNodeFuzzyMatch(t)
     IN  IF j > Len(nodeResources) THEN UNCHANGED <<templateResources, nodeResources, deltas>>
         ELSE /\ deltas' = Append(deltas, Delta("mismatch", t, t.devices - nodeResources[j].devices,
                                                t.attrs = nodeResources[j].attrs))
              /\ templateResources' = swapDelete(templateResources, index)
              /\ nodeResources' = swapDelete(nodeResources, j)
  /\ index' = index - 1
  /\ UNCHANGED <<pair, address, step, nodesLeft, reportsLeft, discrepancies, lastSeen, gauges, tally>>

\* What is left is missing or extra; then the node's deltas are counted.
Count(counts, ds) ==
  [d \in DOMAIN counts \cup {x.driver : x \in Range(ds)} |->
     [t \in Types |-> (IF d \in DOMAIN counts THEN counts[d][t] ELSE 0)
                      + Len(SelectSeq(ds, LAMBDA x : x.driver = d /\ x.type = t))]]

NodeCompared ==
  /\ step = "fuzzy" /\ index = 0
  /\ deltas' = deltas
       \o [i \in 1..Len(templateResources) |->
             Delta("missing", templateResources[i], templateResources[i].devices, FALSE)]
       \o [i \in 1..Len(nodeResources) |-> Delta("extra", nodeResources[i], -nodeResources[i].devices, FALSE)]
  /\ discrepancies' = Count(discrepancies, deltas') /\ tally' = Count(tally, deltas')
  /\ lastSeen' = lastSeen \cup {x.driver : x \in Range(deltas')}
  /\ step' = "left"
  /\ UNCHANGED <<pair, templateResources, nodeResources, address, index, nodesLeft, reportsLeft, gauges>>

\* The buffers are reset; after the last node the gauges are set.
NextNode ==
  /\ step = "left" /\ step' = "idle" /\ nodesLeft' = nodesLeft - 1
  /\ gauges' = IF nodesLeft > 1 THEN gauges
               ELSE [d \in Drivers |-> IF d \in DOMAIN discrepancies THEN discrepancies[d] ELSE gauges[d]]
  /\ templateResources' = <<>> /\ nodeResources' = <<>> /\ address' = <<>> /\ deltas' = <<>>
  /\ UNCHANGED <<pair, index, reportsLeft, discrepancies, lastSeen, tally>>

AllReported == step = "idle" /\ nodesLeft = 0 /\ reportsLeft = 0 /\ UNCHANGED reportVars

ReportInit ==
  /\ pair \in Pairs /\ templateResources = <<>> /\ nodeResources = <<>> /\ address = <<>> /\ index = 0
  /\ deltas = <<>> /\ step = "idle" /\ nodesLeft = 0 /\ reportsLeft = MaxReports
  /\ discrepancies = [d \in {} |-> Clean] /\ lastSeen = {}
  /\ gauges = [d \in Drivers |-> Clean] /\ tally = gauges

ReportNext == StartReport \/ StartNode \/ ExactMatch \/ ExactDone \/ FuzzyMatch \/ NodeCompared \/ NextNode \/ AllReported

-----------------------------------------------------------------------------
\* An address is always the index of a group with that identifier, also after groups moved.
AddressesHold ==
  step = "exact" =>
    \A id \in DOMAIN address : address[id] <= Len(nodeResources) /\ Identifier(nodeResources[address[id]]) = id

\* The deltas of a node account for every device its template and it differ in, by driver, and none of
\* them is empty: what matches exactly is not reported.
Devices(slices, d) == SumFunction([i \in 1..Len(slices) |-> IF slices[i].driver = d THEN Len(slices[i].devices) ELSE 0])
DeltasAddUp ==
  step = "left" =>
    /\ \A d \in Drivers :
         SumFunction([i \in 1..Len(deltas) |-> IF deltas[i].driver = d THEN deltas[i].delta ELSE 0]) =
           IF driverInFlux(d, pair.node) THEN 0 ELSE Devices(pair.template, d) - Devices(pair.node, d)
    /\ \A x \in Range(deltas) : x.delta # 0 \/ ~x.same

\* After a report the gauges show that report: a driver that has recovered shows none.
GaugesCurrent == step = "idle" /\ nodesLeft = 0 => gauges = tally

-----------------------------------------------------------------------------
CONSTANTS Nodes,       \* the nodes of the group
          Setups,      \* the groups: the kind of resource its nodes have ("gpu", "dra", "csi", "pods"), the claim
                       \* of its daemon pod, whether daemon pods are forced (or system critical), whether the
                       \* provider implements templates, the startup taints, and the nodes that may appear
          SliceCount,  \* ResourceSliceCount of the pool of a node
          CacheTTL,    \* loops a cached template is used for
          Disturbances,\* driver updates, failures, taints and restarts of daemon pods
          ProviderErrors, None

VARIABLES setup,     \* the group
          node,      \* the nodes, as the API server has them
          registry,  \* TemplateNodeInfoRegistry.nodeInfos of the group
          cache,     \* nodeInfoCache of the group, with its age
          readyNodes,\* the ready nodes of the last obtainNodeLists
          disturbed, errors, erred

vars == <<setup, node, registry, cache, readyNodes, disturbed, errors, erred>>

Absent == [up |-> FALSE]
Slices == [1..SliceCount -> 0..2]   \* the generation each slice is at; 0: not published
NoSlices == [i \in 1..SliceCount |-> 0]

-----------------------------------------------------------------------------
\* A node that has just registered; "dedicated" is a taint of the group.
Booting ==
  [up |-> TRUE, problems |-> {"NotReady"}, stable |-> FALSE, gpu |-> FALSE, slices |-> NoSlices,
   csi |-> "absent", taints |-> setup.startup \cup {"dedicated"}, daemon |-> {}]

\* GetNodeReadiness: the conditions of the node, and the taints set because of them.
isNodeReady(n) == node[n].problems = {} /\ "not-ready" \notin node[n].taints

\* Resource slices from the newest generation only: a pool is complete when all of them are seen.
\* Mutant: slices of older generations count as well.
AnyGeneration(slices) == \A i \in 1..SliceCount : slices[i] > 0

getCompleteResourcePools(slices) ==
  \E g \in 1..2 : /\ \E i \in 1..SliceCount : slices[i] = g
                  /\ \A i \in 1..SliceCount : slices[i] <= g
                  /\ Cardinality({i \in 1..SliceCount : slices[i] = g}) = SliceCount

areResourcePoolsReady(slices, templateSlices) ==
  getCompleteResourcePools(templateSlices) => getCompleteResourcePools(slices)

-----------------------------------------------------------------------------
\* NodeGroup.TemplateNodeInfo: the provider knows what its machines have.
TemplateNodeInfo ==
  [name |-> <<"provider">>, pool |-> <<"pool">>, gpu |-> setup.kind = "gpu",
   slices |-> IF setup.kind = "dra" THEN [i \in 1..SliceCount |-> 1] ELSE NoSlices,
   csi |-> IF setup.kind = "csi" THEN "drivers" ELSE "absent",
   taints |-> {"dedicated"}, pods |-> {}]

\* What the cluster snapshot has of a node; names matter only by the suffixes they get.  The claim of a running daemon pod is allocated: on the
\* node's own devices, on devices of the whole cluster, or with admin access only.
AllocatedClaim ==
  CASE setup.claim \in {"local", "global", "admin"} ->
         [name |-> <<"claim">>, owned |-> TRUE, admin |-> setup.claim = "admin",
          pool |-> IF setup.claim = "global" THEN <<"cluster">> ELSE <<"pool">>, node |-> <<"node">>]
    [] setup.claim = "unallocated" -> [name |-> <<"claim">>, owned |-> TRUE, pool |-> None]
    [] setup.claim = "shared" -> [name |-> <<"claim">>, owned |-> FALSE, pool |-> <<"cluster">>]
    [] OTHER -> None

NodeInfo(n) ==
  [name |-> <<"node">>, pool |-> <<"pool">>, gpu |-> node[n].gpu, slices |-> node[n].slices, csi |-> node[n].csi,
   taints |-> node[n].taints,
   pods |-> {[name |-> <<d>>, terminating |-> d = "old", claim |-> AllocatedClaim] : d \in node[n].daemon}]

-----------------------------------------------------------------------------
\* SanitizedPodResourceClaims: what is owned by the pod is duplicated and moved to the new node's pool.
CannotSanitize(claim, info) ==
  /\ claim # None
  /\ claim.owned /\ claim.pool # None
  /\ ~claim.admin
  /\ claim.pool # info.pool \/ claim.node # info.name

SanitizedClaim(claim, info, newName, suffix) ==
  IF claim = None \/ ~claim.owned THEN claim
  ELSE IF claim.pool = None THEN [claim EXCEPT !.name = Append(@, suffix)]
  ELSE [claim EXCEPT !.name = Append(@, suffix), !.node = newName,
                     !.pool = IF claim.admin THEN @ ELSE Append(@, suffix)]

SanitizeTaints(taints) ==
  taints \ {"ToBeDeleted", "DeletionCandidate", "startup", "status", "not-ready"}

CanSanitize(info) == \A p \in info.pods : ~CannotSanitize(p.claim, info)

createSanitizedNode(info, newName, taints) == [info EXCEPT !.name = newName, !.taints = taints]

SanitizedNodeResourceSlices(info, suffix) == [info EXCEPT !.pool = Append(@, suffix)]

createSanitizedPod(pod, info, newName, suffix) ==
  [pod EXCEPT !.name = Append(@, suffix), !.claim = SanitizedClaim(@, info, newName, suffix)]

\* createSanitizedNodeInfo, when no claim stands in the way.
createSanitizedNodeInfo(info, base, suffix, taints) ==
  [SanitizedNodeResourceSlices(createSanitizedNode(info, Append(base, suffix), taints), suffix)
     EXCEPT !.pods = {createSanitizedPod(p, info, Append(base, suffix), suffix) : p \in @}]

\* podsExpectedOnFreshNode: the daemon pods that stay, and those still to come when they are forced.
podsExpectedOnFreshNode(info, force) ==
  LET running == {p \in info.pods : ~p.terminating}
  IN  running \cup IF force /\ setup.kind = "pods" /\ running = {}
                   THEN {[name |-> <<"pending">>, terminating |-> FALSE, claim |-> None]} ELSE {}

SanitizedTemplate(info, force) ==
  LET fresh == createSanitizedNodeInfo(info, <<"template">>, "t", SanitizeTaints(info.taints))
  IN  [fresh EXCEPT !.pods = podsExpectedOnFreshNode(fresh, force)]

\* SanitizedTemplateNodeInfoFromNodeGroup.
ProviderTemplate == SanitizedTemplate(TemplateNodeInfo, TRUE)

-----------------------------------------------------------------------------
\* The filters of obtainNodeLists, in order; each sees the ready nodes the one before it left.
\* served: whether the provider answers TemplateNodeInfo.
GpuUnready(n) == setup.kind = "gpu" /\ ~node[n].gpu   \* the GPU label is there from the start

\* getNodeInfo: the registry first, then the provider; without either the node is kept.
DraUnready(n, served) ==
  LET expected == IF registry # None THEN registry.slices
                  ELSE IF served THEN TemplateNodeInfo.slices ELSE NoSlices
  IN  ~areResourcePoolsReady(node[n].slices, expected)

\* A node without a CSINode object is kept, too.
CsiUnready(n, served) ==
  served /\ TemplateNodeInfo.csi # "absent" /\ node[n].csi = "empty"

HasStartupTaint(n) == "startup" \in node[n].taints

ReadyAfterFilters(served) ==
  {n \in Nodes : /\ node[n].up /\ isNodeReady(n)
                 /\ ~GpuUnready(n) /\ ~DraUnready(n, served) /\ ~CsiUnready(n, served)
                 /\ ~HasStartupTaint(n)}

\* The readiness an unready copy is given counts here as well.
isNodeGoodTemplateCandidate(n, ready) == n \in ready /\ node[n].stable /\ "ToBeDeleted" \notin node[n].taints

\* MixedTemplateNodeInfoProvider.Process: a good candidate, the cache, the provider, and in the end any
\* node.  The nodes are listed in no particular order.
CachedTemplate == IF cache # None /\ cache.age <= CacheTTL THEN cache.info ELSE None

Process(ready, served) ==
  LET good == {n \in Nodes : isNodeGoodTemplateCandidate(n, ready)}
      bad == {n \in Nodes : node[n].up} \ good
      FromNode(n) == SanitizedTemplate(NodeInfo(n), setup.force)
      Fails(n) == ~CanSanitize(NodeInfo(n))
  IN  \/ \E n \in good :
           \/ Fails(n) /\ UNCHANGED <<registry, cache>>
           \/ /\ ~Fails(n) /\ registry' = FromNode(n)
              /\ cache' = [info |-> FromNode(n), age |-> 0]
      \/ /\ good = {}
         /\ \/ CachedTemplate # None /\ registry' = CachedTemplate /\ UNCHANGED cache
            \/ /\ CachedTemplate = None /\ cache' = None
               /\ \/ served /\ registry' = ProviderTemplate
                  \/ ~served /\ bad = {} /\ registry' = None
                  \/ \E n \in bad : /\ ~served
                                    /\ registry' = IF Fails(n) THEN registry ELSE FromNode(n)

\* An iteration of the loop, up to TemplateNodeInfoRegistry.Recompute; a call of the provider fails
\* for the whole iteration.
Loop ==
  \E fails \in {FALSE} \cup {errors > 0} :
    LET served == setup.implemented /\ ~fails
    IN  \E ready \in {ReadyAfterFilters(served)} :
          /\ readyNodes' = ready
          /\ Process(ready, served)
          /\ errors' = IF fails THEN errors - 1 ELSE errors
          /\ erred' = (erred \/ ~served)
          /\ UNCHANGED <<setup, node, disturbed>>

CacheAges ==
  /\ cache # None /\ cache.age <= CacheTTL
  /\ cache' = [cache EXCEPT !.age = @ + 1]
  /\ UNCHANGED <<setup, node, registry, readyNodes, disturbed, errors, erred>>

-----------------------------------------------------------------------------
\* The cluster: a node appears and gets what it needs, in any order.
Cluster(n, new) ==
  /\ node' = [node EXCEPT ![n] = new]
  /\ readyNodes' = readyNodes \ {n}      \* what was found out about the node is history
  /\ UNCHANGED <<setup, registry, cache, errors, erred>>
Appears(n) == n \in setup.nodes /\ ~node[n].up /\ Cluster(n, Booting) /\ UNCHANGED disturbed

Installs(n) ==
  /\ node[n].up
  /\ \/ node[n].problems # {} /\ Cluster(n, [node[n] EXCEPT !.problems = {}, !.stable = FALSE])
     \/ isNodeReady(n) /\ ~node[n].stable /\ Cluster(n, [node[n] EXCEPT !.stable = TRUE])
     \/ \E t \in {"startup", "not-ready"} :
          /\ t \in node[n].taints /\ (t = "not-ready" => node[n].problems = {})
          /\ Cluster(n, [node[n] EXCEPT !.taints = @ \ {t}])
     \/ setup.kind = "gpu" /\ ~node[n].gpu /\ Cluster(n, [node[n] EXCEPT !.gpu = TRUE])
     \/ /\ setup.kind = "csi" /\ node[n].csi # "drivers"
        /\ Cluster(n, [node[n] EXCEPT !.csi = IF @ = "absent" THEN "empty" ELSE "drivers"])
     \/ \E i \in 1..SliceCount :
          /\ setup.kind = "dra" /\ node[n].slices[i] = 0
          /\ Cluster(n, [node[n] EXCEPT !.slices[i] = 1])
     \/ \E i, j \in 1..SliceCount :
          /\ node[n].slices[i] = 1 /\ node[n].slices[j] = 2
          /\ Cluster(n, [node[n] EXCEPT !.slices[i] = 2])
     \/ /\ setup.kind = "pods" /\ "new" \notin node[n].daemon
        /\ Cluster(n, [node[n] EXCEPT !.daemon = @ \cup {"new"}])
     \/ "old" \in node[n].daemon /\ Cluster(n, [node[n] EXCEPT !.daemon = @ \ {"old"}])
  /\ UNCHANGED disturbed

\* A driver update publishes the slices anew, a node fails, is marked, is drained of its daemon pod, or leaves.
Disturb(n) ==
  /\ node[n].up /\ disturbed > 0
  /\ \/ \E i \in 1..SliceCount :
          /\ \A j \in 1..SliceCount : node[n].slices[j] = 1
          /\ Cluster(n, [node[n] EXCEPT !.slices[i] = 2])
     \/ \E p \in {"NotReady", "DiskPressure"} :
          node[n].problems = {} /\ Cluster(n, [node[n] EXCEPT !.problems = {p}, !.taints = @ \cup {"not-ready"}])
     \/ Cluster(n, [node[n] EXCEPT !.taints = @ \cup {"ToBeDeleted"}])
     \/ node[n].daemon = {"new"} /\ Cluster(n, [node[n] EXCEPT !.daemon = {"old"}])
     \/ Cluster(n, Absent)
  /\ disturbed' = disturbed - 1

Init ==
  /\ setup \in Setups
  /\ node = [n \in Nodes |-> Absent]
  /\ registry = None /\ cache = None /\ readyNodes = {}
  /\ disturbed = Disturbances /\ errors = ProviderErrors /\ erred = FALSE

\* getUpcomingNodeInfos: copies of the template stand for the nodes on their way.
getUpcomingNodeInfos(k) ==
  [i \in 1..k |-> createSanitizedNodeInfo(registry, registry.name, i, registry.taints)]

Next == Loop \/ CacheAges \/ \E n \in Nodes : Appears(n) \/ Installs(n) \/ Disturb(n)
-----------------------------------------------------------------------------
\* All slices of the pool are of one generation.
UpToDate(slices) == \E g \in 1..2 : \A i \in 1..SliceCount : slices[i] = g

\* The template shows a new node: no transient taint, every daemon pod once, and the group's devices.
\* The devices may be missing only after the provider failed to say what its machines have.
TemplateIsFresh ==
  registry # None =>
    /\ registry.taints = {"dedicated"}
    /\ setup.kind = "pods" => /\ Cardinality(registry.pods) <= 1
                              /\ setup.force => registry.pods # {}
    /\ ~erred => /\ setup.kind = "gpu" => registry.gpu
                 /\ setup.kind = "dra" => UpToDate(registry.slices)

\* Nodes counted as ready have their devices, even while a driver is updated; a node without a CSINode
\* object is given the benefit of the doubt.
ReadyHaveDevices ==
  \A n \in readyNodes :
    /\ setup.kind = "gpu" => node[n].gpu
    /\ ~erred => /\ setup.kind = "dra" => UpToDate(node[n].slices)
                 /\ node[n].csi # "empty"

\* Upcoming nodes share no name, no pool and no allocated device, and can always be made.
CopiesShareNothing ==
  registry # None =>
    /\ CanSanitize(registry)
    /\ LET copies == getUpcomingNodeInfos(2)
       IN  /\ copies[1].name # copies[2].name /\ copies[1].pool # copies[2].pool
           /\ \A i \in 1..2 : \A p \in copies[i].pods :
                p.claim # None /\ p.claim.owned =>
                  /\ \A q \in copies[3 - i].pods : p.claim.name # q.claim.name
                  /\ p.claim.pool # None /\ ~p.claim.admin => p.claim.pool = copies[i].pool

\* A wrong template does not last once a node that stays is up.
TemplateRight ==
  (\E n \in Nodes : node[n].up /\ "ToBeDeleted" \notin node[n].taints) /\ setup.claim # "global" =>
     /\ registry # None
     /\ setup.kind = "gpu" => registry.gpu
     /\ setup.kind = "dra" => UpToDate(registry.slices)
     /\ setup.kind = "csi" => registry.csi = "drivers"
==============================================================================
