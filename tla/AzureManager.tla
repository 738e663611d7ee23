---------------------------- MODULE AzureManager ----------------------------
(***************************************************************************)
(* AzureManager: the Azure provider with its three kinds of node group,    *)
(* the loop that uses it, the goroutines that wait for Azure's answers,    *)
(* and Azure itself.                                                       *)
(*                                                                         *)
(* The capacity of a scale set is known in three places: Azure (cap), the  *)
(* cached VMSS object (obj, reached through a reference so that a PUT in   *)
(* flight and the cache may share it or not), and curSize with its own     *)
(* time to live.  Ages are counted in ticks up to the period at which they *)
(* expire; the calls of the loop take no time, time passes between them.   *)
(***************************************************************************)
EXTENDS Integers, FiniteSets, Functions, TLC, FiniteSetsExt

-----------------------------------------------------------------------------
(***************************************************************************)
(* AzureCache: what the Azure provider remembers, as values.  A cache is   *)
(* a record: the scale sets and virtual machines of the last listing, the  *)
(* registered node groups, and the node group and last state of every      *)
(* instance.  Each operator is one method of azureCache, run under its     *)
(* mutex, or the conversion of a listing into instances with a status.     *)
(*                                                                         *)
(* A status is "Running", "Creating", "Deleting", "Failed" (creating, with *)
(* an error the autoscaler deletes it for) or "nil".                       *)
(***************************************************************************)
CONSTANTS
    Groups,         \* node groups
    Kind,           \* Kind[g]: "vmss" (scale set), "standard" (agent pool), "vms" (VMs pool)
    Names,          \* virtual machines
    Owner,          \* Owner[i]: the node group a machine is created in
    Flexible        \* scale sets with flexible orchestration

Empty == << >>
Without(f, S) == Restrict(f, DOMAIN f \ S)

newAzureCache(sets, pools) ==
    [sets |-> sets, vms |-> Empty, pools |-> pools, reg |-> {}, owner |-> Empty, state |-> Empty, unowned |-> {}]

\* Register and Unregister; the limits of a group do not change
Register(ac, gs) == IF gs \subseteq ac.reg THEN ac ELSE [ac EXCEPT !.reg = @ \cup gs, !.unowned = {}]
Unregister(ac, gs) == [ac EXCEPT !.reg = @ \ gs]

\* setScaleSet: the entry of one scale set after a GET
setScaleSet(ac, g, ref) == [ac EXCEPT !.sets = (g :> ref) @@ @]

\* regenerate, its last critical section: acc is what Nodes() gave for each group
Swapped(ac, acc) ==
    [ac EXCEPT !.owner = [i \in DOMAIN acc |-> Owner[i]],
               !.state = Restrict(acc, {i \in DOMAIN acc : acc[i] # "nil"}),
               !.unowned = {}]

\* areAllScaleSetsUniform
areAllScaleSetsUniform(ac) == DOMAIN ac.sets \cap Flexible = {}
\* virtualMachineRE: the provider ID of a machine outside a uniform scale set
IsVirtualMachine(i) == Kind[Owner[i]] # "vmss" \/ Owner[i] \in Flexible
\* FindForInstance: a machine that cannot be ours is remembered as unowned
Omitted(ac, i, vmType) ==
    \/ vmType = "vmss" /\ ac.pools = {} /\ areAllScaleSetsUniform(ac) /\ IsVirtualMachine(i)
    \/ vmType = "standard" /\ ~IsVirtualMachine(i)
Looked(ac, i, vmType) == IF Omitted(ac, i, vmType) THEN [ac EXCEPT !.unowned = @ \cup {i}] ELSE ac
Found(ac, i, vmType) == i \notin ac.unowned /\ ~Omitted(ac, i, vmType) /\ i \in DOMAIN ac.owner

\* HasInstance
HasInstance(ac, i) == i \in DOMAIN ac.owner /\ (i \in DOMAIN ac.state => ac.state[i] # "Deleting")
\* setInstanceStateByProviderID
MarkedDeleting(ac, i) == IF i \in DOMAIN ac.owner THEN [ac EXCEPT !.state = (i :> "Deleting") @@ @] ELSE ac

-----------------------------------------------------------------------------
\* Listings.  A listing maps the machines of a group that exist to their provisioning state.

\* ScaleSet.instanceStatusFromVM; fast deletion is on, a failed machine has no running power state
instanceStatusFromVM(s, i, ic) ==
    CASE s = "updating" -> IF i \in DOMAIN ic THEN ic[i] ELSE "nil"
      [] s = "deleting" -> "Deleting"
      [] s = "creating" -> "Creating"
      [] s = "failed" -> "Failed"
      [] OTHER -> "Running"
\* instanceStatusFromProvisioningStateAndPowerState
instanceStatusFromProvisioningState(s, fastDelete) ==
    CASE s = "deleting" -> "Deleting"
      [] s = "creating" -> "Creating"
      [] s = "failed" /\ fastDelete -> "Failed"
      [] OTHER -> "Running"

buildInstanceCacheForUniform(vms, ic) == [i \in DOMAIN vms |-> instanceStatusFromVM(vms[i], i, ic)]
buildInstanceCacheForFlex(vms) == [i \in DOMAIN vms |-> instanceStatusFromProvisioningState(vms[i], TRUE)]
\* updateInstanceCache with the listing it asks for
updateInstanceCache(g, vms, ic) ==
    IF g \in Flexible THEN buildInstanceCacheForFlex(vms) ELSE buildInstanceCacheForUniform(vms, ic)

\* AgentPool.Nodes and VMPool.Nodes, from the machines of the last listing
PoolNodes(vms) == [i \in DOMAIN vms |-> instanceStatusFromProvisioningState(vms[i], FALSE)]
\* VMPool.getVMsFromCache with its skipOption
VMsOfPool(vms, skipFailed) == {i \in DOMAIN vms : vms[i] # "deleting" /\ (skipFailed => vms[i] # "failed")}

-----------------------------------------------------------------------------
CONSTANTS
    Index,          \* Index[i]: the number in the name of a machine of an agent pool
    Spot,           \* scale sets whose size is asked of Azure
    Auto,           \* scale sets with the tags of the auto-discovery
    MinSize, MaxSize,
    Deltas,         \* by how much a group is increased
    RefreshPeriod,  \* azureCache.refreshInterval and sizeRefreshPeriod
    SpotPeriod,     \* getVmssSizeRefreshPeriod
    PoolPeriod,     \* the 15 seconds of AgentPool.getCurSize
    InstancesPeriod,\* instancesRefreshPeriod
    MaxDeployments, \* MaxDeploymentsCount
    Starts          \* [vm, cap, opt, left]: the start states; left: how often each thing may happen

VARIABLES
    vm, cap, etag, deployments,             \* Azure: machines, capacities, ETags, finished deployments of ours
    ac, obj, gs, mgrAge,                    \* azureCache, VMSS objects, state of the node groups, lastRefresh
    puts,                                   \* waitForCreateOrUpdateInstances goroutines
    th,                                     \* threads: the loop, a deletion, the wait for a deletion
    phase, left, opt                        \* opt: [vmType, explicit, pools, etag, strict], the configuration, and others, the groups other clients change

azure == <<vm, cap, etag, deployments>>
memory == <<ac, obj, gs, mgrAge>>
vars == <<azure, memory, puts, th, phase, left, opt>>

Threads == {"main", "deleter", "waiter"}
NoGroup == "no group"
NoName == "no name"
NoRef == <<NoGroup, 0>>
Idle == [call |-> "none", pc |-> "idle", g |-> NoGroup, i |-> NoName, n |-> 0, prev |-> 0,
         ref |-> NoRef, old |-> NoRef, lag |-> FALSE, todo |-> {}, acc |-> Empty]
Call(c, p, g, i, n) == [Idle EXCEPT !.call = c, !.pc = p, !.g = g, !.i = i, !.n = n]
Return(t) == th' = [th EXCEPT ![t] = Idle]
Goto(t, p) == th' = [th EXCEPT ![t].pc = p]
Spend(k) == left[k] > 0 /\ left' = [left EXCEPT ![k] = @ - 1]

Of(g) == {i \in Names : Owner[i] = g}
Present(g) == {i \in Of(g) : vm[i] # "none"}
\* machines that count towards a capacity, and those that do or will do work
Live(g) == {i \in Present(g) : vm[i] # "deleting"}
Working(g) == {i \in Live(g) : vm[i] # "failed"}
Listing(g) == [i \in Present(g) |-> vm[i]]

\* NewScaleSet and NewAgentPool: nothing has been refreshed yet
NewGroup(g, size) == [cur |-> size, sizeAge |-> RefreshPeriod, ic |-> Empty, icAge |-> InstancesPeriod]
\* sizeMutex, held across the retry of a PUT
SizeLocked(t, g) == \E u \in Threads \ {t} : th[u].g = g /\ th[u].pc \in {"retryGet", "retryPut"}

\* references to VMSS objects that are in use, and one that is not
Held == Range(ac.sets) \cup {th[t].ref : t \in Threads} \cup {th[t].old : t \in Threads} \cup {p.ref : p \in puts}
NewRef(g) == CHOOSE r \in {<<g, k>> : k \in 1..6} \ Held : \A s \in {<<g, k>> : k \in 1..6} \ Held : r[2] <= s[2]
Fetched(g) == [cap |-> cap[g], etag |-> etag[g]]
\* the objects after ref has been fetched, without those nobody holds any more
WithFetched(refs) == [r \in (Held \cup refs) \ {NoRef} |-> IF r \in refs THEN Fetched(r[1]) ELSE obj[r]]

\* what newAzureCache lists; a capacity of -1 is a scale set that does not exist
FirstRefs(c) == [g \in {h \in Groups : Kind[h] = "vmss" /\ c[h] >= 0} |-> <<g, 1>>]
FirstObjects(c, e) == [r \in Range(FirstRefs(c)) |-> [cap |-> c[r[1]], etag |-> e[r[1]]]]

-----------------------------------------------------------------------------
\* The size of a node group.  A reading is a record: the size or an error (-1) or a scale set that
\* is not there (-2), the state it leaves, and whether it cost a failed call.

Reading(g, n) == [size |-> n, s |-> gs[g], ac |-> ac, obj |-> obj, age |-> mgrAge, faults |-> 0]
\* the size in memory is replaced, and with another size the instance cache is invalidated
Refreshed(s, c) ==
    [s EXCEPT !.cur = c, !.sizeAge = 0, !.icAge = IF s.cur # c THEN InstancesPeriod ELSE @]
\* ScaleSet.getCurSize
ScaleSetSize(g) ==
    IF g \notin DOMAIN ac.sets THEN {Reading(g, -2)}
    ELSE IF gs[g].sizeAge < (IF g \in Spot THEN SpotPeriod ELSE RefreshPeriod) THEN {Reading(g, gs[g].cur)}
    ELSE IF g \in Spot /\ cap[g] < 0 THEN {Reading(g, -2)}
    ELSE IF g \in Spot
    THEN LET r == NewRef(g)
         IN  {[Reading(g, cap[g]) EXCEPT !.s = Refreshed(gs[g], cap[g]), !.ac = setScaleSet(ac, g, r), !.obj = WithFetched({r})],
              [Reading(g, -1) EXCEPT !.faults = 1]}
    ELSE {[Reading(g, obj[ac.sets[g]].cap) EXCEPT !.s = Refreshed(gs[g], obj[ac.sets[g]].cap)]}
\* AgentPool.getCurSize
AgentPoolSize(g) ==
    IF gs[g].sizeAge < PoolPeriod THEN {Reading(g, gs[g].cur)}
    ELSE IF g \notin DOMAIN ac.vms THEN {Reading(g, -1)}
    ELSE LET n == Cardinality(DOMAIN ac.vms[g])
         IN  {[Reading(g, n) EXCEPT !.s = [gs[g] EXCEPT !.cur = n, !.sizeAge = 0],
                                    !.age = IF gs[g].cur # n THEN RefreshPeriod ELSE mgrAge]}
\* VMPool.getCurSize
VMPoolSize(g, skipFailed) ==
    {Reading(g, IF g \in DOMAIN ac.vms THEN Cardinality(VMsOfPool(ac.vms[g], skipFailed)) ELSE 0)}
TargetSize(g) ==
    CASE Kind[g] = "vmss" -> ScaleSetSize(g)
      [] Kind[g] = "standard" -> AgentPoolSize(g)
      [] OTHER -> VMPoolSize(g, FALSE)
\* a reading takes effect
Take(g, r) ==
    /\ gs' = [gs EXCEPT ![g] = r.s] /\ ac' = r.ac /\ obj' = r.obj /\ mgrAge' = r.age
    /\ left.fault >= r.faults /\ left' = [left EXCEPT !.fault = @ - r.faults]

\* validateInstanceCacheWithoutLock: an expired instance cache is listed again, or cannot be
Validated(g) ==
    IF gs[g].icAge < InstancesPeriod THEN {<<gs[g], 0>>}
    ELSE {<<[gs[g] EXCEPT !.ic = updateInstanceCache(g, Listing(g), @), !.icAge = 0], 0>>, <<gs[g], 1>>}

-----------------------------------------------------------------------------
\* forceRefresh, run by the loop or by a goroutine that saw a deletion end

\* fetchAutoNodeGroups: with the scale sets of the last listing
fetchAutoNodeGroups(t) ==
    /\ th[t].pc = "discover"
    /\ LET found == DOMAIN ac.sets \cap Auto
           new == found \ ac.reg
           gone == ac.reg \ (found \cup opt.explicit)
       IN  /\ ac' = Unregister(Register(ac, new), gone)
           /\ gs' = [g \in Groups |-> IF g \in new THEN NewGroup(g, obj[ac.sets[g]].cap) ELSE gs[g]]
           /\ mgrAge' = IF new \cup gone # {} THEN RefreshPeriod ELSE mgrAge
    /\ Goto(t, "fetch")
    /\ UNCHANGED <<azure, obj, puts, phase, left, opt>>

\* regenerate failed: the loop gives up, a goroutine invalidates what it meant to refresh
RegenerateFailed(t, now) ==
    /\ Return(t)
    /\ phase' = IF t = "main" THEN "refresh" ELSE phase
    /\ mgrAge' = IF t = "main" THEN mgrAge ELSE RefreshPeriod
    /\ gs' = IF th[t].call = "strict" THEN [now EXCEPT ![th[t].g].icAge = InstancesPeriod] ELSE now

\* fetchScaleSets: every scale set gets a new object
fetchScaleSets(sets) == sets
\* fetchVirtualMachines: a pool without machines is not in the map
fetchVirtualMachines == [g \in {h \in Groups : Kind[h] # "vmss" /\ Present(h) # {}} |-> Listing(g)]
\* fetchAzureResources: the second of two listings may fail
fetchAzureResources(t) ==
    /\ th[t].pc = "fetch"
    /\ LET sets == fetchScaleSets([g \in {h \in Groups : Kind[h] = "vmss" /\ cap[h] >= 0} |-> NewRef(g)])
           fetched == [ac EXCEPT !.sets = sets, !.pools = opt.pools]
       IN  \/ /\ ac' = [fetched EXCEPT !.vms = fetchVirtualMachines]
              /\ obj' = WithFetched(Range(sets) \ Range(ac.sets))
              /\ th' = [th EXCEPT ![t].pc = "nodes", ![t].todo = ac.reg]
              /\ UNCHANGED <<gs, mgrAge, phase, left>>
           \/ /\ Spend("fault") /\ RegenerateFailed(t, gs)
              /\ \/ UNCHANGED <<ac, obj>>
                 \/ ac' = fetched /\ obj' = WithFetched(Range(sets) \ Range(ac.sets))
    /\ UNCHANGED <<azure, puts, opt>>

\* Nodes() of one group, which may list its instances; a throttled listing leaves the old ones
Nodes(t) ==
    /\ th[t].pc = "nodes" /\ th[t].todo # {}
    /\ \E g \in {CHOOSE h \in th[t].todo : TRUE} :
         IF Kind[g] # "vmss"
         THEN /\ IF Kind[g] = "standard" /\ g \notin DOMAIN ac.vms
                 THEN RegenerateFailed(t, gs)
                 ELSE /\ th' = [th EXCEPT ![t].todo = @ \ {g},
                                          ![t].acc = IF g \in DOMAIN ac.vms THEN PoolNodes(ac.vms[g]) @@ @ ELSE @]
                      /\ UNCHANGED <<gs, mgrAge, phase>>
              /\ UNCHANGED <<ac, obj, left>>
         ELSE /\ ~SizeLocked(t, g)
              /\ \E r \in ScaleSetSize(g) :
                   IF r.size = -2
                   THEN th' = [th EXCEPT ![t].todo = @ \ {g}] /\ UNCHANGED <<memory, phase, left>>
                   ELSE IF r.size = -1
                   THEN /\ left.fault >= r.faults /\ left' = [left EXCEPT !.fault = @ - r.faults]
                        /\ RegenerateFailed(t, gs) /\ UNCHANGED <<ac, obj>>
                   ELSE \E s \in IF Cardinality(DOMAIN r.s.ic) = r.size /\ r.s.icAge < InstancesPeriod THEN {r.s}
                                 ELSE {[r.s EXCEPT !.ic = updateInstanceCache(g, Listing(g), @), !.icAge = 0]}
                                      \cup IF left.fault > 0 THEN {[r.s EXCEPT !.icAge = -1]} ELSE {} :
                          /\ ac' = r.ac /\ obj' = r.obj
                          /\ IF s.icAge # -1
                             THEN /\ th' = [th EXCEPT ![t].todo = @ \ {g}, ![t].acc = s.ic @@ @]
                                  /\ gs' = [gs EXCEPT ![g] = s] /\ UNCHANGED <<mgrAge, phase, left>>
                             ELSE /\ Spend("fault")
                                  /\ \/ /\ th' = [th EXCEPT ![t].todo = @ \ {g}, ![t].acc = s.ic @@ @]
                                        /\ gs' = [gs EXCEPT ![g] = [s EXCEPT !.icAge = 0]] /\ UNCHANGED <<mgrAge, phase>>
                                     \/ RegenerateFailed(t, [gs EXCEPT ![g] = r.s])
    /\ UNCHANGED <<azure, puts, opt>>

StartObserving == /\ phase' = IF ac.reg = {} THEN "act" ELSE "observe"
                  /\ th' = [th EXCEPT !["main"] = [Idle EXCEPT !.todo = ac.reg]]
\* the end of regenerate, and of forceRefresh
Swap(t) ==
    /\ th[t].pc = "nodes" /\ th[t].todo = {}
    /\ ac' = Swapped(ac, th[t].acc)
    /\ th' = [th EXCEPT ![t].pc = "refreshed", ![t].acc = Empty]
    /\ UNCHANGED <<azure, obj, gs, mgrAge, puts, phase, left, opt>>
forceRefreshed(t) ==
    /\ th[t].pc = "refreshed"
    /\ mgrAge' = 0
    /\ gs' = IF th[t].call = "strict" THEN [gs EXCEPT ![th[t].g].icAge = InstancesPeriod] ELSE gs
    /\ IF t = "main" THEN StartObserving ELSE Return(t) /\ UNCHANGED phase
    /\ UNCHANGED <<azure, ac, obj, puts, left, opt>>

-----------------------------------------------------------------------------
\* Scale-up

Done == Return("main") /\ UNCHANGED <<puts, phase>>
\* ScaleSet.IncreaseSize up to the eager change of the cached object, and AtomicIncreaseSize without it
IncreaseScaleSet ==
    /\ th["main"].pc = "increase" /\ Kind[th["main"].g] = "vmss"
    /\ LET g == th["main"].g
           eager == th["main"].call = "IncreaseSize"
       IN  /\ ~SizeLocked("main", g)
           /\ \E r \in ScaleSetSize(g) :
                IF r.size < 0 \/ r.size + th["main"].n > MaxSize[g]
                THEN Take(g, r) /\ Return("main")
                ELSE \E ref \in {r.ac.sets[g]} :
                       /\ Take(g, IF eager THEN [r EXCEPT !.obj[ref].cap = r.size + th["main"].n] ELSE r)
                       /\ th' = [th EXCEPT !["main"] = [@ EXCEPT !.pc = "put", !.n = r.size + @, !.ref = ref, !.old = ref,
                                                                !.prev = r.obj[ref].cap, !.lag = r.size < r.obj[ref].cap]]
    /\ UNCHANGED <<azure, puts, phase, opt>>

\* Azure takes a capacity; without ETags it takes any
Accepted(g, n) == cap' = [cap EXCEPT ![g] = n] /\ etag' = [etag EXCEPT ![g] = @ + 1] /\ UNCHANGED <<vm, deployments>>
Matches(r) == opt.etag => obj[r].etag = etag[r[1]]
\* createOrUpdateInstances: the rejected capacity leaves the cached object
RolledBack(o) ==
    IF th["main"].call = "IncreaseSize" THEN [o EXCEPT ![th["main"].old].cap = th["main"].prev] ELSE o
\* initCreateOrUpdate
initCreateOrUpdate ==
    /\ th["main"].pc = "put"
    /\ LET me == th["main"]
       IN  \/ Matches(me.ref) /\ Accepted(me.g, me.n) /\ Goto("main", "publish") /\ UNCHANGED <<obj, left>>
           \/ ~Matches(me.ref) /\ Goto("main", "retryGet") /\ UNCHANGED <<azure, obj, left>>
           \/ Spend("fail") /\ obj' = RolledBack(obj) /\ Return("main") /\ UNCHANGED azure
    /\ UNCHANGED <<ac, gs, mgrAge, puts, phase, opt>>
\* invalidateForPreconditionFailure
invalidateForPreconditionFailure(g) ==
    /\ gs' = [gs EXCEPT ![g].icAge = InstancesPeriod, ![g].sizeAge = RefreshPeriod]
    /\ mgrAge' = RefreshPeriod
\* retryCreateOrUpdateWithFreshETag, first the GET and then the PUT with the ETag it returned
RetryGet ==
    /\ th["main"].pc = "retryGet"
    /\ LET g == th["main"].g
       IN  \/ \E r \in {NewRef(g)} :
                /\ ac' = setScaleSet(ac, g, r) /\ obj' = WithFetched({r})
                /\ gs' = [gs EXCEPT ![g].icAge = InstancesPeriod]
                /\ th' = [th EXCEPT !["main"] = [@ EXCEPT !.ref = r, !.pc = IF cap[g] >= th["main"].n THEN "publish" ELSE "retryPut",
                                                          !.call = IF cap[g] >= th["main"].n THEN "satisfied" ELSE @]]
                /\ UNCHANGED <<mgrAge, left>>
           \/ /\ Spend("fail") /\ obj' = RolledBack(obj) /\ invalidateForPreconditionFailure(g) /\ Return("main")
              /\ UNCHANGED ac
    /\ UNCHANGED <<azure, puts, phase, opt>>
RetryPut ==
    /\ th["main"].pc = "retryPut"
    /\ LET me == th["main"]
       IN  \/ Matches(me.ref) /\ Accepted(me.g, me.n) /\ Goto("main", "publish") /\ UNCHANGED <<gs, obj, mgrAge, left>>
           \/ /\ ~Matches(me.ref) \/ left.fail > 0
              /\ left' = IF Matches(me.ref) THEN [left EXCEPT !.fail = @ - 1] ELSE left
              /\ obj' = RolledBack(obj) /\ invalidateForPreconditionFailure(me.g) /\ Return("main") /\ UNCHANGED azure
    /\ UNCHANGED <<ac, puts, phase, opt>>

\* the size that is published, and the goroutine that waits for the update; AtomicIncreaseSize waits first
Publish ==
    /\ th["main"].pc = "publish"
    /\ LET me == th["main"]
           op == [g |-> me.g, ref |-> me.ref, etag |-> etag[me.g], n |-> me.n]
       IN  CASE me.call = "satisfied" ->
                  /\ gs' = [gs EXCEPT ![me.g].cur = obj[me.ref].cap, ![me.g].sizeAge = 0]
                  /\ Return("main") /\ UNCHANGED <<obj, puts>>
             [] me.call = "IncreaseSize" ->
                  /\ obj' = [obj EXCEPT ![me.ref].cap = me.n]
                  /\ gs' = [gs EXCEPT ![me.g].cur = me.n, ![me.g].sizeAge = 0]
                  /\ puts' = puts \cup {op} /\ Return("main")
             [] OTHER -> puts' = puts \cup {op} /\ Goto("main", "poll") /\ UNCHANGED <<obj, gs>>
    /\ UNCHANGED <<azure, ac, mgrAge, phase, left, opt>>

\* Azure has done what the update asked for, or another writer has asked for something else
UpdateDone(p) == \/ cap[p.g] # p.n \/ etag[p.g] # p.etag
                 \/ Cardinality(Live(p.g)) = cap[p.g] /\ \A i \in Of(p.g) : vm[i] # "creating"
Waiting(p) == th["main"].pc = "poll" /\ th["main"].ref = p.ref
\* waitForCreateOrUpdateInstances, and the end of AtomicIncreaseSize; a failed update leaves what was created
waitForCreateOrUpdateInstances(p) ==
    /\ p \in puts /\ ~SizeLocked("waiter", p.g)
    /\ puts' = puts \ {p}
    /\ \/ /\ UpdateDone(p)
          /\ obj' = [obj EXCEPT ![p.ref] = [cap |-> IF Waiting(p) THEN p.n ELSE @.cap, etag |-> IF opt.etag THEN p.etag ELSE @.etag]]
          /\ gs' = [gs EXCEPT ![p.g] = [@ EXCEPT !.icAge = InstancesPeriod, !.cur = IF Waiting(p) THEN p.n ELSE @,
                                                 !.sizeAge = IF Waiting(p) THEN 0 ELSE @]]
          /\ UNCHANGED <<azure, mgrAge, left>>
       \/ /\ Spend("fail")
          /\ cap' = [cap EXCEPT ![p.g] = Cardinality(Live(p.g))] /\ etag' = [etag EXCEPT ![p.g] = @ + 1]
          /\ invalidateForPreconditionFailure(p.g)
          /\ UNCHANGED <<vm, deployments, obj>>
    /\ IF Waiting(p) THEN Return("main") ELSE UNCHANGED th
    /\ UNCHANGED <<ac, phase, opt>>

\* getAllSucceededAndFailedDeployments and deleteOutdatedDeployments: the newest ones stay
deleteOutdatedDeployments == IF deployments > MaxDeployments THEN MaxDeployments ELSE deployments
\* AgentPool.IncreaseSize, which waits for the deployment: machines above the highest index in use
Offset(g) == 1 + Max({Index[i] : i \in DOMAIN ac.vms[g]})
IncreaseAgentPool ==
    /\ th["main"].pc = "increase" /\ Kind[th["main"].g] = "standard"
    /\ LET g == th["main"].g
           n == th["main"].n
       IN  IF gs[g].cur = -1 THEN UNCHANGED <<vm, deployments, gs, mgrAge, left>>
           ELSE /\ mgrAge' = RefreshPeriod
                /\ IF g \notin DOMAIN ac.vms \/ Cardinality(DOMAIN ac.vms[g]) + n > MaxSize[g]
                   THEN deployments' = deleteOutdatedDeployments /\ UNCHANGED <<vm, gs, left>>
                   ELSE \/ /\ vm' = [i \in Names |-> IF i \in Of(g) /\ Index[i] \in Offset(g)..(Offset(g) + n - 1) /\ vm[i] = "none"
                                                     THEN "running" ELSE vm[i]]
                           /\ deployments' = deleteOutdatedDeployments + 1
                           /\ gs' = [gs EXCEPT ![g].cur = Cardinality(DOMAIN ac.vms[g]) + n, ![g].sizeAge = 0]
                           /\ UNCHANGED left
                        \/ Spend("fail") /\ deployments' \in {deployments, deleteOutdatedDeployments} /\ UNCHANGED <<vm, gs>>
    /\ Done /\ UNCHANGED <<cap, etag, ac, obj, opt>>

\* VMPool.IncreaseSize: the count is computed from the cache, then the PUT is waited for
IncreaseVMPool ==
    /\ th["main"].pc = "increase" /\ Kind[th["main"].g] = "vms"
    /\ LET me == th["main"]
       IN  \E r \in VMPoolSize(me.g, TRUE) :
             IF r.size + me.n > MaxSize[me.g] THEN Return("main")
             ELSE th' = [th EXCEPT !["main"] = [@ EXCEPT !.pc = "putPool", !.n = r.size + @, !.lag = mgrAge >= RefreshPeriod]]
    /\ UNCHANGED <<azure, memory, puts, phase, left, opt>>
\* machines of a pool after a PUT of its count: machines that work are the last to go
Scaled(g, n) ==
    LET kept == CHOOSE S \in SUBSET Live(g) : /\ Cardinality(S) = (IF n < Cardinality(Live(g)) THEN n ELSE Cardinality(Live(g)))
                                              /\ S \subseteq Working(g) \/ Working(g) \subseteq S
        free == {i \in Of(g) : vm[i] = "none"}
        new == CHOOSE S \in SUBSET free : Cardinality(S) = (IF n > Cardinality(kept) THEN n - Cardinality(kept) ELSE 0)
    IN  [i \in Names |-> IF i \in kept \cup new THEN "running" ELSE IF i \in Live(g) THEN "none" ELSE vm[i]]
PutVMPool ==
    /\ th["main"].pc = "putPool"
    /\ \/ vm' = Scaled(th["main"].g, th["main"].n) /\ UNCHANGED left
       \/ Spend("fail") /\ UNCHANGED vm
    /\ mgrAge' = RefreshPeriod
    /\ Done /\ UNCHANGED <<cap, etag, deployments, ac, obj, gs, opt>>

\* DecreaseTargetSize: a scale set and a VMs pool only look again, an agent pool forgets what it expects
DecreaseTargetSize(g) ==
    /\ phase = "act" /\ th["main"] = Idle /\ g \in ac.reg /\ ~SizeLocked("main", g)
    /\ left.decrease > 0
    /\ CASE Kind[g] = "vmss" ->
              /\ \E r \in ScaleSetSize(g) :
                   /\ r.faults = 0
                   /\ gs' = [gs EXCEPT ![g] = [r.s EXCEPT !.icAge = InstancesPeriod]] /\ ac' = r.ac /\ obj' = r.obj
              /\ UNCHANGED mgrAge
         [] Kind[g] = "standard" ->
              /\ gs' = IF g \in DOMAIN ac.vms /\ gs[g].cur - 1 >= Cardinality(DOMAIN ac.vms[g])
                       THEN [gs EXCEPT ![g].cur = @ - 1, ![g].sizeAge = 0] ELSE gs
              /\ UNCHANGED <<ac, obj, mgrAge>>
         [] OTHER -> mgrAge' = RefreshPeriod /\ UNCHANGED <<ac, obj, gs>>
    /\ left' = [left EXCEPT !.decrease = @ - 1]
    /\ UNCHANGED <<azure, puts, th, phase, opt>>

-----------------------------------------------------------------------------
\* Deletion of a node: a goroutine of the actuator, and for a scale set the one that waits for Azure

\* DeleteNodes, its check and Belongs
DeleteNodes ==
    /\ th["deleter"].pc = "check"
    /\ LET me == th["deleter"]
       IN  /\ ~SizeLocked("deleter", me.g)
           /\ \E r \in TargetSize(me.g) :
                /\ Take(me.g, [r EXCEPT !.ac = Looked(@, me.i, opt.vmType)])
                /\ IF (me.call = "DeleteNodes" /\ r.size <= MinSize[me.g]) \/ ~Found(ac, me.i, opt.vmType)
                   THEN Return("deleter") ELSE Goto("deleter", "verify")
    /\ UNCHANGED <<azure, puts, phase, opt>>
\* DeleteInstances, its check; an instance that is being deleted is not deleted again
verifyNodeGroup ==
    /\ th["deleter"].pc = "verify" /\ Found(ac, th["deleter"].i, opt.vmType)
    /\ LET me == th["deleter"]
       IN  \E v \in IF Kind[me.g] = "vmss" THEN Validated(me.g) ELSE {<<gs[me.g], 0>>} :
             /\ left.fault >= v[2] /\ left' = [left EXCEPT !.fault = @ - v[2]]
             /\ gs' = [gs EXCEPT ![me.g] = v[1]]
             /\ IF Kind[me.g] = "vmss" /\ v[2] = 0 /\ me.i \in DOMAIN v[1].ic /\ v[1].ic[me.i] = "Deleting"
                THEN Return("deleter") ELSE Goto("deleter", "begin")
    /\ UNCHANGED <<azure, ac, obj, mgrAge, puts, phase, opt>>
\* the node group of the instance is gone since Belongs: its Id is read through a nil pointer
Restart ==
    /\ th["deleter"].pc = "verify" /\ ~Found(ac, th["deleter"].i, opt.vmType)
    /\ ac' = Register(newAzureCache(FirstRefs(cap), opt.pools), opt.explicit)
    /\ obj' = FirstObjects(cap, etag)
    /\ gs' = [g \in Groups |-> NewGroup(g, -1)] /\ mgrAge' = RefreshPeriod
    /\ puts' = {} /\ phase' = "refresh"
    /\ th' = [t \in Threads |-> Idle]
    /\ UNCHANGED <<azure, left, opt>>
\* deleteInstances
deleteInstances ==
    /\ th["deleter"].pc = "begin" /\ Kind[th["deleter"].g] = "vmss"
    /\ LET i == th["deleter"].i
       IN  \/ /\ vm[i] # "none" /\ vm' = [vm EXCEPT ![i] = "deleting"]
              /\ IF opt.strict
                 THEN th' = [th EXCEPT !["deleter"] = Idle, !["waiter"] = [th["deleter"] EXCEPT !.pc = "poll"]]
                 ELSE Goto("deleter", "decrement")
              /\ UNCHANGED left
           \/ /\ IF vm[i] = "none" THEN UNCHANGED left ELSE Spend("fail")
              /\ Return("deleter") /\ UNCHANGED vm
    /\ UNCHANGED <<cap, etag, deployments, memory, puts, phase, opt>>
\* the proactive decrement, not for nodes that never registered
Decrement ==
    /\ th["deleter"].pc = "decrement" /\ ~SizeLocked("deleter", th["deleter"].g)
    /\ LET g == th["deleter"].g
       IN  gs' = IF th["deleter"].call = "unregistered" THEN gs
                 ELSE IF gs[g].cur < 1 THEN [gs EXCEPT ![g].sizeAge = RefreshPeriod]
                 ELSE [gs EXCEPT ![g].cur = @ - 1, ![g].sizeAge = 0]
    /\ Goto("deleter", "mark")
    /\ UNCHANGED <<azure, ac, obj, mgrAge, puts, phase, left, opt>>
\* setInstanceStatusByProviderID and setInstanceStateByProviderID
Mark ==
    /\ th["deleter"].pc = "mark"
    /\ LET me == th["deleter"]
       IN  /\ \E v \in Validated(me.g) :
                /\ left.fault >= v[2] /\ left' = [left EXCEPT !.fault = @ - v[2]]
                /\ gs' = [gs EXCEPT ![me.g] = IF me.i \in DOMAIN v[1].ic THEN [v[1] EXCEPT !.ic[me.i] = "Deleting"] ELSE v[1]]
           /\ ac' = MarkedDeleting(ac, me.i)
           /\ th' = [th EXCEPT !["deleter"] = Idle, !["waiter"] = [me EXCEPT !.pc = "poll"]]
    /\ UNCHANGED <<azure, obj, mgrAge, puts, phase, opt>>

Gone(g, i) ==
    /\ vm' = [vm EXCEPT ![i] = "none"]
    /\ cap' = [cap EXCEPT ![g] = IF @ > 0 THEN @ - 1 ELSE @]
    /\ etag' = [etag EXCEPT ![g] = @ + 1]
\* waitForDeleteInstances: done, preempted and done at the second attempt, or failed
waitForDeleteInstances ==
    /\ th["waiter"].pc = "poll" /\ ~SizeLocked("waiter", th["waiter"].g)
    /\ LET me == th["waiter"]
           refresh == [me EXCEPT !.pc = "discover", !.call = IF opt.strict THEN "strict" ELSE "refresh"]
       IN  \/ /\ Gone(me.g, me.i)
              /\ IF opt.strict THEN th' = [th EXCEPT !["waiter"] = refresh] ELSE Return("waiter")
              /\ UNCHANGED <<gs, left>>
           \/ /\ Spend("fail") /\ Gone(me.g, me.i)
              /\ gs' = [gs EXCEPT ![me.g].icAge = InstancesPeriod] /\ Return("waiter")
           \/ /\ Spend("fail") /\ vm' = [vm EXCEPT ![me.i] = "running"]
              /\ gs' = [gs EXCEPT ![me.g].icAge = InstancesPeriod, ![me.g].sizeAge = RefreshPeriod]
              /\ th' = [th EXCEPT !["waiter"] = [refresh EXCEPT !.call = "refresh"]] /\ UNCHANGED <<cap, etag>>
    /\ UNCHANGED <<deployments, ac, obj, mgrAge, puts, phase, opt>>

\* deleteVirtualMachine: machine, interface, disk; an error after the machine is gone is one too
deleteVirtualMachine(i, ok) == vm' = [vm EXCEPT ![i] = IF ok THEN "none" ELSE @]
\* AgentPool.DeleteInstances from its first deletion on
DeleteAgentPoolInstances ==
    /\ th["deleter"].pc = "begin" /\ Kind[th["deleter"].g] = "standard"
    /\ LET i == th["deleter"].i
       IN  /\ \/ deleteVirtualMachine(i, TRUE) /\ UNCHANGED left
              \/ Spend("fail") /\ \E gone \in BOOLEAN : deleteVirtualMachine(i, gone)
           /\ ac' = IF opt.strict THEN ac ELSE MarkedDeleting(ac, i)
    /\ deployments' = deleteOutdatedDeployments
    /\ mgrAge' = RefreshPeriod
    /\ Return("deleter")
    /\ UNCHANGED <<cap, etag, obj, gs, puts, phase, opt>>
\* VMPool.DeleteNodes, which marks before it asks Azure and waits
MarkVMPool ==
    /\ th["deleter"].pc = "begin" /\ Kind[th["deleter"].g] = "vms"
    /\ ac' = IF opt.strict THEN ac ELSE MarkedDeleting(ac, th["deleter"].i)
    /\ Goto("deleter", "deleteMachines")
    /\ UNCHANGED <<azure, obj, gs, mgrAge, puts, phase, left, opt>>
DeleteMachines ==
    /\ th["deleter"].pc = "deleteMachines"
    /\ \/ vm' = [vm EXCEPT ![th["deleter"].i] = "none"] /\ UNCHANGED left
       \/ Spend("fail") /\ UNCHANGED vm
    /\ mgrAge' = RefreshPeriod
    /\ Return("deleter")
    /\ UNCHANGED <<cap, etag, deployments, ac, obj, gs, puts, phase, opt>>

-----------------------------------------------------------------------------
\* The loop, time, and Azure

MainIdle(p) == phase = p /\ th["main"] = Idle
Refresh ==
    /\ MainIdle("refresh")
    /\ IF mgrAge < RefreshPeriod
       THEN StartObserving
       ELSE UNCHANGED phase /\ th' = [th EXCEPT !["main"] = Call("Refresh", "discover", NoGroup, NoName, 0)]
    /\ UNCHANGED <<azure, memory, puts, left, opt>>
\* the sizes of all groups are read at the start of a loop; an error ends it
Observe ==
    /\ phase = "observe" /\ th["main"].todo # {}
    /\ \E g \in {CHOOSE h \in th["main"].todo : TRUE} :
         /\ ~SizeLocked("main", g)
         /\ \E r \in TargetSize(g) :
              /\ Take(g, r)
              /\ IF r.size < 0 THEN Return("main") /\ phase' = "refresh"
                 ELSE /\ th' = [th EXCEPT !["main"].todo = @ \ {g}]
                      /\ phase' = IF th["main"].todo = {g} THEN "act" ELSE phase
    /\ UNCHANGED <<azure, puts, opt>>
StartIncrease(g, d, call) ==
    /\ MainIdle("act") /\ g \in ac.reg /\ Spend(call)
    /\ th' = [th EXCEPT !["main"] = Call(call, "increase", g, NoName, d)]
    /\ UNCHANGED <<azure, memory, puts, phase, opt>>
EndLoop ==
    /\ MainIdle("act") /\ phase' = "refresh"
    /\ UNCHANGED <<azure, memory, puts, th, left, opt>>
\* one deletion at a time; a node that never registered is deleted without the check of the minimum
StartDelete(i, call) ==
    /\ th["deleter"] = Idle /\ th["waiter"] = Idle /\ vm[i] = (IF call = "unregistered" THEN "failed" ELSE "running")
    /\ Owner[i] \in ac.reg /\ i \in DOMAIN ac.owner
    /\ Spend("delete")
    /\ th' = [th EXCEPT !["deleter"] = Call(call, "check", Owner[i], i, 0)]
    /\ UNCHANGED <<azure, memory, puts, phase, opt>>

Older(a, period) == IF a < period THEN a + 1 ELSE a
Tick ==
    /\ th["main"] = Idle
    /\ mgrAge' = Older(mgrAge, RefreshPeriod)
    /\ gs' = [g \in Groups |-> [gs[g] EXCEPT !.sizeAge = Older(@, RefreshPeriod), !.icAge = Older(@, InstancesPeriod)]]
    /\ <<mgrAge, gs>>' # <<mgrAge, gs>>
    /\ UNCHANGED <<azure, ac, obj, puts, th, phase, left, opt>>

\* machines of a scale set follow its capacity
Evolve(g) ==
    \/ /\ Cardinality(Live(g)) < cap[g]
       /\ \E i \in Of(g) : /\ vm[i] = "none" /\ \A j \in Of(g) : vm[j] = "none" => Index[i] <= Index[j]
                           /\ vm' = [vm EXCEPT ![i] = "creating"]
       /\ UNCHANGED left
    \/ /\ Cardinality(Live(g)) > cap[g]
       /\ \E i \in Live(g) : vm' = [vm EXCEPT ![i] = "none"]
       /\ UNCHANGED left
    \/ /\ \E i \in Of(g) : \/ vm[i] = "creating" /\ vm' = [vm EXCEPT ![i] = "running"]
                           \/ vm[i] = "updating" /\ vm' = [vm EXCEPT ![i] = "running"]
       /\ UNCHANGED left
CloudMoves ==
    /\ \E g \in Groups : Kind[g] = "vmss" /\ Evolve(g)
    /\ UNCHANGED <<cap, etag, deployments, memory, puts, th, phase, opt>>
\* a machine fails to start, or is changed by Azure
CloudSpoils ==
    /\ \E i \in Names : \/ vm[i] = "creating" /\ vm' = [vm EXCEPT ![i] = "failed"] /\ Spend("spoil")
                        \/ vm[i] \in {"running", "deleting"} /\ Kind[Owner[i]] = "vmss"
                           /\ vm' = [vm EXCEPT ![i] = "updating"] /\ Spend("update")
    /\ UNCHANGED <<cap, etag, deployments, memory, puts, th, phase, opt>>
\* another client sets a capacity, or creates a scale set or deletes it
OtherClient ==
    /\ \E g \in opt.others : \E c \in -1..MaxSize[g] :
         /\ Kind[g] = "vmss" /\ c # cap[g] /\ cap' = [cap EXCEPT ![g] = c]
         /\ IF -1 \in {c, cap[g]} THEN g \in Auto /\ Spend("replace") ELSE Spend("user")
         /\ etag' = [etag EXCEPT ![g] = @ + 1]
    /\ UNCHANGED <<vm, deployments, memory, puts, th, phase, opt>>

\* createAzureManagerInternal: the cache is filled, then the explicit groups are registered
Init ==
    /\ \E s \in Starts :
         /\ vm = s.vm /\ cap = s.cap /\ left = s.left
         /\ opt = s.opt
         /\ etag = [g \in Groups |-> 0] /\ deployments = 0
         /\ ac = Register(newAzureCache(FirstRefs(s.cap), s.opt.pools), s.opt.explicit)
         /\ obj = FirstObjects(s.cap, [g \in Groups |-> 0])
    /\ gs = [g \in Groups |-> NewGroup(g, -1)] /\ mgrAge = RefreshPeriod
    /\ puts = {} /\ th = [t \in Threads |-> Idle] /\ phase = "refresh"

RefreshStep(t) == fetchAutoNodeGroups(t) \/ fetchAzureResources(t) \/ Nodes(t) \/ Swap(t) \/ forceRefreshed(t)
MainStep ==
    \/ RefreshStep("main") \/ Refresh \/ Observe \/ EndLoop
    \/ IncreaseScaleSet \/ initCreateOrUpdate \/ RetryGet \/ RetryPut \/ Publish
    \/ IncreaseAgentPool \/ IncreaseVMPool \/ PutVMPool
DeleterStep ==
    \/ DeleteNodes \/ verifyNodeGroup \/ Restart \/ deleteInstances \/ Decrement \/ Mark
    \/ DeleteAgentPoolInstances \/ MarkVMPool \/ DeleteMachines
WaiterStep == RefreshStep("waiter") \/ waitForDeleteInstances
PutStep == \E p \in puts : waitForCreateOrUpdateInstances(p)
Requests ==
    \/ \E g \in Groups : DecreaseTargetSize(g) \/ \E d \in Deltas, call \in {"IncreaseSize", "AtomicIncreaseSize"} : StartIncrease(g, d, call)
    \/ \E i \in Names, call \in {"DeleteNodes", "unregistered"} : StartDelete(i, call)
Next == MainStep \/ DeleterStep \/ WaiterStep \/ PutStep \/ Requests \/ Tick \/ CloudMoves \/ CloudSpoils \/ OtherClient

\* goroutines are scheduled, Azure answers and finishes what it was asked for, time passes
Fairness ==
    /\ WF_vars(MainStep) /\ WF_vars(DeleterStep) /\ WF_vars(WaiterStep) /\ WF_vars(PutStep)
    /\ SF_vars(Tick) /\ WF_vars(CloudMoves)
Spec == Init /\ [][Next]_vars /\ Fairness

-----------------------------------------------------------------------------
Actual(g) == IF Kind[g] = "vmss" THEN cap[g] ELSE Cardinality(Live(g))
Known(g) == IF Kind[g] = "vms" THEN Cardinality(VMsOfPool(IF g \in DOMAIN ac.vms THEN ac.vms[g] ELSE Empty, FALSE)) ELSE gs[g].cur

\* No request takes a node group above its maximum, although the sizes it is computed from lag
\* behind Azure and machines are created from an index that may be stale (IncreaseSize).
MaxSizeKept == \A g \in Groups : Actual(g) <= MaxSize[g]

\* An increase never costs a machine that works: with ETags a PUT carries no capacity below what
\* another client has set meanwhile (initCreateOrUpdate, retryCreateOrUpdateWithFreshETag), unless
\* the size in memory was below the capacity in the cache when the increase was computed.
KeepsMachines ==
    \A g \in Groups :
      (opt.etag /\ th["main"].pc \in {"put", "retryPut", "putPool"} /\ th["main"].g = g /\ ~th["main"].lag
       /\ th'["main"] # th["main"])
        => /\ cap'[g] # cap[g] => cap'[g] >= cap[g]
           /\ \A i \in Working(g) : vm'[i] # "none"

\* The size the provider reports is what Azure has (getCurSize, regenerate).
SizesAgree == \A g \in Groups : g \in ac.reg /\ Actual(g) >= 0 => Known(g) = Actual(g)

\* A machine that runs is to be found in its node group and not reported as gone, although a
\* failed deletion has marked it as being deleted (FindForInstance, HasInstance).
Runs(i) == vm[i] = "running" /\ Owner[i] \in ac.reg
Recognised(i) == Found(ac, i, opt.vmType) /\ HasInstance(ac, i)
==============================================================================
