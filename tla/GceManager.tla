----------------------------- MODULE GceManager -----------------------------
(***************************************************************************)
(* The GCE provider: gceMig and gceManagerImpl over the caching MIG info   *)
(* provider, called by three threads that share the cache:                 *)
(*   "main"     the autoscaler loop: Refresh, then what it observes of the *)
(*              groups, then the repair of sizes, then scale-ups;          *)
(*   "deleter"  the goroutine that deletes the nodes of a batch;           *)
(*   "regen"    the goroutine that regenerates the instance cache hourly.  *)
(* A thread's step is what it does between two critical sections or calls  *)
(* of the GCE API, so that a value it fetched may be stored after another  *)
(* thread has changed it.  vm, target and exists are the cloud:  *)
(* external, modelled from the calls made on it.  An API call may be       *)
(* refused, or take effect while its answer is lost.                       *)
(***************************************************************************)
EXTENDS Integers, FiniteSets, Functions, TLC, FiniteSetsExt

-----------------------------------------------------------------------------
(***************************************************************************)
(* GceCache: the maps under one mutex that the GCE provider keeps about    *)
(* its managed instance groups (MIGs).  A cache is a record of partial     *)
(* functions; an entry that is not cached is not in the domain.  Every     *)
(* operator is one method, hence one critical section.                     *)
(*                                                                         *)
(* The base name, the stability, the listing behaviour and the template    *)
(* name of a MIG are filled together and dropped together: `info' is the   *)
(* set of MIGs for which they are cached.                                  *)
(***************************************************************************)
Empty == << >>
Without(f, S) == Restrict(f, DOMAIN f \ S)
With(f, x, y) == (x :> y) @@ f

NewGceCache == [migs |-> {}, instances |-> Empty, instancesToMig |-> Empty, instancesFromUnknownMig |-> {},
                targetSize |-> Empty, stateCount |-> Empty, info |-> {}]

removeMigInstances(gc, m) ==
    LET its == {i \in DOMAIN gc.instancesToMig : gc.instancesToMig[i] = m}
    IN  [gc EXCEPT !.instancesToMig = Without(@, its), !.instancesFromUnknownMig = @ \ its]

\* RegisterMig: true if the group was not there before; configurations do not change
RegisterMigs(gc, ms) == [gc EXCEPT !.migs = @ \cup ms]

UnregisterMigs(gc, ms) ==
    LET its == {i \in DOMAIN gc.instancesToMig : gc.instancesToMig[i] \in ms}
    IN  [gc EXCEPT !.migs = @ \ ms, !.instancesToMig = Without(@, its), !.instancesFromUnknownMig = @ \ its]

\* SetMigInstances
SetMigInstances(gc, m, listed) ==
    LET cleared == removeMigInstances(gc, m)
    IN  [cleared EXCEPT !.instances = With(@, m, listed),
                        !.instancesToMig = [i \in listed |-> m] @@ @,
                        !.instancesFromUnknownMig = @ \ listed]

MarkInstanceMigUnknown(gc, i) == [gc EXCEPT !.instancesFromUnknownMig = @ \cup {i}]

InvalidateAllMigInstances(gc) == [gc EXCEPT !.instances = Empty]
InvalidateMigInstances(gc, m) == [gc EXCEPT !.instances = Without(@, {m})]
InvalidateAllInstancesToMig(gc) == [gc EXCEPT !.instancesToMig = Empty, !.instancesFromUnknownMig = {}]

IsMigTargetSizeCacheEmpty(gc) == DOMAIN gc.targetSize = {}
SetMigTargetSize(gc, m, size) == [gc EXCEPT !.targetSize = With(@, m, size)]
InvalidateMigTargetSize(gc, m) == [gc EXCEPT !.targetSize = Without(@, {m})]
InvalidateAllMigTargetSizes(gc) == [gc EXCEPT !.targetSize = Empty]

\* InvalidateAllMigIsStable, ...Basenames, ...ListManagedInstancesResults, ...InstanceTemplateNames
InvalidateAllInfo(gc) == [gc EXCEPT !.info = {}]

InvalidateMigInstancesStateCount(gc) == [gc EXCEPT !.stateCount = Empty]

\* createInstancesStateCount: what is not being created counts as running
createInstancesStateCount(target, creating, deleting) ==
    [creating |-> creating, deleting |-> deleting, running |-> target - creating]

-----------------------------------------------------------------------------
CONSTANTS Migs, Zone,
          Names,              \* names instances may have
          Owner,              \* the MIG that uses a name
          Matches,            \* the MIGs whose base name is a prefix of a name
          Unlabelled,         \* names whose instance carries no created-by metadata
          MinSize, MaxSize,
          Explicit,           \* MIGs configured by flag
          Deltas,             \* by how much a group is increased
          CreateLimit,        \* createInstancesRequestLimit
          Scenarios           \* what the run starts from; `left' bounds how often each call or event may happen

VARIABLES vm, target, exists,
          gc, th, phase, todo, bulk, left,
          recent,   \* history: what was true since the last Refresh
          listed,                    \* history: what existed when this loop began
          raced                      \* history: MIGs with a deletion since this loop began

cloudVars == <<vm, target, exists>>
history == <<recent, listed, raced>>
vars == <<cloudVars, gc, th, phase, todo, bulk, left, history>>

Threads == {"main", "deleter", "regen"}
Idle == [call |-> "none", pc |-> "idle"]
Call(name, pc, m, i, delta) ==
    [call |-> name, pc |-> pc, mig |-> m, inst |-> i, delta |-> delta, size |-> 0, need |-> "size",
     back |-> "", known |-> {}, got |-> << >>, todo |-> {}]
Spend(kind) == left[kind] > 0 /\ left' = [left EXCEPT ![kind] = @ - 1]

Live(m) == {i \in Names : Owner[i] = m /\ vm[i] \in {"creating", "running"}}
Listed(m) == {i \in Names : Owner[i] = m /\ vm[i] # "none"}

-----------------------------------------------------------------------------
\* The cloud between the calls

CloudStep(i) ==
    \/ vm[i] = "creating" /\ vm' = [vm EXCEPT ![i] = "running"]
    \/ vm[i] = "deleting" /\ vm' = [vm EXCEPT ![i] = "none"]
    \/ /\ vm[i] = "none" /\ i = CHOOSE j \in Names : Owner[j] = Owner[i] /\ vm[j] = "none"
       /\ target[Owner[i]] > Cardinality(Live(Owner[i])) /\ vm' = [vm EXCEPT ![i] = "creating"]
    \/ i \in Live(Owner[i]) /\ target[Owner[i]] < Cardinality(Live(Owner[i])) /\ vm' = [vm EXCEPT ![i] = "deleting"]
CloudMoves ==
    /\ \E i \in Names : CloudStep(i)
    /\ UNCHANGED <<target, exists, gc, th, phase, todo, bulk, left, history>>
GroupComesOrGoes(m) ==
    /\ Spend("user") /\ Listed(m) = {} /\ target[m] = 0
    /\ exists' = IF m \in exists THEN exists \ {m} ELSE exists \cup {m}
    /\ UNCHANGED <<vm, target, gc, th, phase, todo, bulk, history>>

SetTarget(m, n) ==
    /\ target' = [target EXCEPT ![m] = n]
    /\ recent' = [recent EXCEPT ![m] = @ \cup {n}]

-----------------------------------------------------------------------------
\* What a call brings back, and how it is stored

Info(m) == [size |-> target[m],
            count |-> createInstancesStateCount(target[m], Cardinality({i \in Live(m) : vm[i] = "creating"}),
                                                Cardinality({i \in Listed(m) : vm[i] = "deleting"}))]
\* fillMigInfoCache: the MIGs of the zones that answered and that are registered
FetchedAll(failed) == [m \in {x \in gc.migs \cap exists : Zone[x] \notin failed} |-> Info(m)]
setMigInfoCache(c, got) ==
    [c EXCEPT !.targetSize = [m \in DOMAIN got |-> got[m].size] @@ @,
              !.info = @ \cup DOMAIN got,
              !.stateCount = [m \in DOMAIN got |-> got[m].count] @@ @]

Zones == {Zone[m] : m \in gc.migs}
Failing == IF left["fault"] > 0 THEN SUBSET Zones ELSE {{}}
Charge(failed) == left' = IF failed = {} THEN left ELSE [left EXCEPT !["fault"] = @ - 1]

InfoPcs == {"storeAll", "single", "storeOne"}
\* migInfoMutex and migInstanceMutex
InfoLocked(t) == \E u \in Threads \ {t} : th[u].pc \in InfoPcs
LookupPcs == {"match", "mark", "listMatch", "storeMatch"}
LookupLocked(t) == \E u \in Threads \ {t} : th[u].pc \in LookupPcs

Step(t, pc) == th' = [th EXCEPT ![t].pc = pc]
Return(t) == th' = [th EXCEPT ![t] = Idle]
\* an API call that fails ends the call with its error
Fails(t) == Spend("fault") /\ Return(t)
KeepCloud == UNCHANGED cloudVars
KeepRest == UNCHANGED <<phase, todo, bulk>>

-----------------------------------------------------------------------------
\* GetMigTargetSize, and the getters of what else is known of a MIG

Cached(c, r) == r.mig \in IF r.need = "size" THEN DOMAIN c.targetSize ELSE c.info

\* what the caller does once the size, or the rest, is there
GotSize(r, size) ==
    CASE r.call = "IncreaseSize" ->
             IF size + r.delta > MaxSize[r.mig] THEN Idle ELSE [r EXCEPT !.size = size, !.pc = "nodes"]
      [] r.call = "DecreaseTargetSize" -> [r EXCEPT !.size = size, !.pc = "nodes"]
      [] r.call = "DeleteNodes" -> IF size <= MinSize[r.mig] THEN Idle ELSE [r EXCEPT !.pc = "lookup"]
      [] OTHER -> Idle
GotValue(c, r) ==
    IF r.need = "size" THEN GotSize(r, c.targetSize[r.mig])
    ELSE [r EXCEPT !.pc = "invalidate", !.got = << >>]

Get(t) ==
    /\ th[t].pc = "get" /\ ~InfoLocked(t)
    /\ IF Cached(gc, th[t])
       THEN th' = [th EXCEPT ![t] = GotValue(gc, th[t])] /\ UNCHANGED left
       ELSE IF th[t].need = "size" /\ ~IsMigTargetSizeCacheEmpty(gc)
       THEN Step(t, "single") /\ UNCHANGED left
       ELSE \E failed \in Failing :
              /\ Charge(failed)
              /\ th' = [th EXCEPT ![t].pc = "storeAll", ![t].got = FetchedAll(failed)]
    /\ KeepCloud /\ KeepRest /\ UNCHANGED <<gc, history>>

StoreAll(t) ==
    /\ th[t].pc = "storeAll"
    /\ \E c \in {setMigInfoCache(gc, th[t].got)} :
         /\ gc' = c
         /\ th' = [th EXCEPT ![t] = IF Cached(c, @) THEN GotValue(c, [@ EXCEPT !.got = << >>])
                                    ELSE [@ EXCEPT !.pc = "single", !.got = << >>]]
    /\ KeepCloud /\ KeepRest /\ UNCHANGED <<left, history>>

\* fillSingleMigInfo
FetchSingle(t) ==
    /\ th[t].pc = "single"
    /\ \/ /\ th[t].mig \in exists
          /\ th' = [th EXCEPT ![t].pc = "storeOne", ![t].got = th[t].mig :> Info(th[t].mig)]
          /\ UNCHANGED left
       \/ th[t].mig \notin exists /\ Return(t) /\ UNCHANGED left
       \/ Fails(t)
    /\ KeepCloud /\ KeepRest /\ UNCHANGED <<gc, history>>
StoreSingle(t) ==
    /\ th[t].pc = "storeOne"
    /\ \E c \in {setMigInfoCache(gc, th[t].got)} :
         gc' = c /\ th' = [th EXCEPT ![t] = GotValue(c, [@ EXCEPT !.got = << >>])]
    /\ KeepCloud /\ KeepRest /\ UNCHANGED <<left, history>>

-----------------------------------------------------------------------------
\* GetMigInstances, and fillMigInstances behind it

\* a mutant: only compares the new size with zero
GotNodesUnchecked(r, n) ==
    CASE r.call = "IncreaseSize" -> [r EXCEPT !.pc = "get", !.need = "info", !.known = n]
      [] r.call = "DecreaseTargetSize" -> IF r.size + r.delta < 0 THEN Idle ELSE [r EXCEPT !.pc = "invalidate"]
      [] OTHER -> Idle
GotNodes(r, n) ==
    CASE r.call = "IncreaseSize" -> [r EXCEPT !.pc = "get", !.need = "info", !.known = n]
      [] r.call = "DecreaseTargetSize" ->
             IF r.size + r.delta < Cardinality(n) THEN Idle ELSE [r EXCEPT !.pc = "invalidate"]
      [] OTHER -> Idle

GetNodes(t) ==
    /\ th[t].pc = "nodes"
    /\ \/ /\ th[t].mig \in DOMAIN gc.instances
          /\ th' = [th EXCEPT ![t] = GotNodes(@, gc.instances[@.mig])]
          /\ UNCHANGED left
       \/ /\ th[t].mig \notin DOMAIN gc.instances /\ th[t].mig \in exists
          /\ th' = [th EXCEPT ![t].pc = "storeNodes", ![t].known = Listed(th[t].mig)]
          /\ UNCHANGED left
       \/ th[t].mig \notin DOMAIN gc.instances /\ th[t].mig \notin exists /\ Return(t) /\ UNCHANGED left
       \/ th[t].mig \notin DOMAIN gc.instances /\ Fails(t)
    /\ KeepCloud /\ KeepRest /\ UNCHANGED <<gc, history>>
StoreNodes(t) ==
    /\ th[t].pc = "storeNodes"
    /\ gc' = SetMigInstances(gc, th[t].mig, th[t].known)
    /\ th' = [th EXCEPT ![t] = GotNodes([@ EXCEPT !.known = {}], @.known)]
    /\ KeepCloud /\ KeepRest /\ UNCHANGED <<left, history>>

-----------------------------------------------------------------------------
\* GetMigForInstance, under its own mutex

Missing == "nil"
\* getCachedMigForInstance: whether something is known, and the MIG
IsKnown(c, i) == i \in DOMAIN c.instancesToMig \/ i \in c.instancesFromUnknownMig
CachedMig(c, i) == IF i \in DOMAIN c.instancesToMig THEN c.instancesToMig[i] ELSE Missing

\* Belongs, and the second lookup of DeleteInstances; a nil MIG crashes there
GotMig(r, m) ==
    IF r.call # "DeleteNodes" THEN Idle
    ELSE IF m # Missing /\ m \notin gc.migs THEN Idle
    ELSE IF r.back = "belongs" THEN IF m = Missing THEN [r EXCEPT !.pc = "panic"] ELSE [r EXCEPT !.pc = "invalidate"]
    ELSE IF m # r.mig THEN Idle
    ELSE [r EXCEPT !.pc = "lookup", !.back = "belongs"]
Answer(t, m) == th' = [th EXCEPT ![t] = GotMig(@, m)]

Lookup(t) ==
    /\ th[t].pc = "lookup" /\ ~LookupLocked(t)
    /\ IF IsKnown(gc, th[t].inst) THEN Answer(t, CachedMig(gc, th[t].inst))
       ELSE Step(t, "match")
    /\ KeepCloud /\ KeepRest /\ UNCHANGED <<gc, left, history>>

\* findMigWithMatchingBasename, in the order of a map: any match may come first
FindMig(t) ==
    /\ th[t].pc = "match" /\ ~InfoLocked(t)
    /\ \E failed \in IF gc.migs \subseteq gc.info THEN {{}} ELSE Failing :
         LET c == IF gc.migs \subseteq gc.info THEN gc ELSE setMigInfoCache(gc, FetchedAll(failed))
             found == {m \in gc.migs \cap c.info : m \in Matches[th[t].inst]}
         IN  /\ gc' = c /\ Charge(failed)
             /\ IF found = {} THEN Answer(t, Missing)
                ELSE \E m \in found :
                       th' = [th EXCEPT ![t].pc = IF m \in DOMAIN gc.instances THEN "mark" ELSE "listMatch",
                                        ![t].got = <<m>>]
    /\ KeepCloud /\ KeepRest /\ UNCHANGED history
ListMatch(t) ==
    /\ th[t].pc = "listMatch"
    /\ \/ /\ th[t].got[1] \in exists
          /\ th' = [th EXCEPT ![t].pc = "storeMatch", ![t].known = Listed(th[t].got[1])]
          /\ UNCHANGED left
       \/ th[t].got[1] \notin exists /\ Return(t) /\ UNCHANGED left
       \/ Fails(t)
    /\ KeepCloud /\ KeepRest /\ UNCHANGED <<gc, history>>
StoreMatch(t) ==
    /\ th[t].pc = "storeMatch"
    /\ \E c \in {SetMigInstances(gc, th[t].got[1], th[t].known)} :
         /\ gc' = c
         /\ th' = [th EXCEPT ![t] = LET r == [@ EXCEPT !.known = {}, !.got = << >>]
                                    IN  IF IsKnown(c, @.inst) THEN GotMig(r, CachedMig(c, @.inst))
                                        ELSE [r EXCEPT !.pc = "mark"]]
    /\ KeepCloud /\ KeepRest /\ UNCHANGED <<left, history>>
MarkUnknown(t) ==
    /\ th[t].pc = "mark"
    /\ gc' = MarkInstanceMigUnknown(gc, th[t].inst)
    /\ th' = [th EXCEPT ![t] = GotMig([@ EXCEPT !.got = << >>], Missing)]
    /\ KeepCloud /\ KeepRest /\ UNCHANGED <<left, history>>

-----------------------------------------------------------------------------
\* CreateInstances, SetMigSize and DeleteInstances: invalidate, call, and store what is known then

\* a mutant: an increase leaves the size it has read in the cache
InvalidatedForOthers(r) ==
    IF r.call = "DeleteNodes" THEN InvalidateMigInstances(InvalidateMigTargetSize(gc, r.mig), r.mig)
    ELSE IF r.call = "IncreaseSize" THEN gc ELSE InvalidateMigTargetSize(gc, r.mig)
InvalidatedFor(r) ==
    IF r.call = "DeleteNodes" THEN InvalidateMigInstances(InvalidateMigTargetSize(gc, r.mig), r.mig)
    ELSE InvalidateMigTargetSize(gc, r.mig)
Invalidate(t) ==
    /\ th[t].pc = "invalidate"
    /\ gc' = InvalidatedFor(th[t])
    /\ Step(t, th[t].call)
    /\ KeepCloud /\ KeepRest /\ UNCHANGED <<left, history>>

\* one request of a scale-up; the names avoid the instances known when it began
NewNames(r) == {S \in SUBSET {i \in Names : Owner[i] = r.mig /\ i \notin r.known} :
                   Cardinality(S) = Min({r.delta, CreateLimit})}
Created(r, S) ==
    LET rest == [r EXCEPT !.delta = @ - Cardinality(S), !.known = @ \cup S]
    IN  IF rest.delta = 0 THEN Idle ELSE rest
CreateInstances(t) ==
    /\ th[t].pc = "IncreaseSize"
    /\ \E S \in NewNames(th[t]) :
         LET m == th[t].mig
             effect == /\ \A i \in S : vm[i] = "none"
                       /\ m \in exists
                       /\ vm' = [i \in Names |-> IF i \in S THEN "creating" ELSE vm[i]]
                       /\ SetTarget(m, target[m] + Cardinality(S))
         IN  \/ effect /\ th' = [th EXCEPT ![t] = Created(@, S)] /\ UNCHANGED left
             \/ effect /\ Fails(t)
             \/ Fails(t) /\ UNCHANGED <<vm, target, recent>>
             \/ ((\E i \in S : vm[i] # "none") \/ m \notin exists) /\ Return(t) /\ UNCHANGED <<vm, target, recent, left>>
    /\ KeepRest /\ UNCHANGED <<exists, gc, listed, raced>>

Resize(t) ==
    /\ th[t].pc = "DecreaseTargetSize"
    /\ LET effect == SetTarget(th[t].mig, th[t].size + th[t].delta)
       IN  \/ effect /\ Step(t, "setSize") /\ UNCHANGED left
           \/ effect /\ Fails(t)
           \/ Fails(t) /\ UNCHANGED <<target, recent>>
    /\ KeepRest /\ UNCHANGED <<vm, exists, gc, listed, raced>>
SetMigSize(t) ==
    /\ th[t].pc = "setSize"
    /\ gc' = SetMigTargetSize(gc, th[t].mig, th[t].size + th[t].delta)
    /\ Return(t)
    /\ KeepCloud /\ KeepRest /\ UNCHANGED <<left, history>>

\* instances that are not in the group are skipped
DeleteInstances(t) ==
    /\ th[t].pc = "DeleteNodes"
    /\ LET m == th[t].mig
       IN  \/ /\ th[t].inst \in Live(m)
              /\ vm' = [vm EXCEPT ![th[t].inst] = "deleting"]
              /\ SetTarget(m, target[m] - 1)
              /\ UNCHANGED left
           \/ th[t].inst \notin Live(m) /\ UNCHANGED <<vm, target, recent, left>>
           \/ Spend("fault") /\ UNCHANGED <<vm, target, recent>>
    /\ Return(t)
    /\ KeepRest /\ UNCHANGED <<exists, gc, listed, raced>>

\* a nil pointer ends the process, and it starts again
Restart(t) ==
    /\ th[t].pc = "panic"
    /\ gc' = RegisterMigs(NewGceCache, Explicit)
    /\ th' = [u \in Threads |-> Idle]
    /\ phase' = "discover" /\ todo' = {}
    /\ KeepCloud /\ UNCHANGED <<bulk, left, history>>

-----------------------------------------------------------------------------
\* What a loop asks for, in this order: nodes are looked up before their groups are listed
Order == <<"NodeGroupForNode", "TargetSize", "Nodes">>
Observations ==
    {<<1, i>> : i \in {x \in Names : vm[x] = "running"}} \cup {<<k, m>> : k \in 2..3, m \in gc.migs}
StartObserving == phase' = "observe" /\ todo' = Observations

-----------------------------------------------------------------------------
\* RegenerateMigInstancesCache

Regenerate1(t) ==
    /\ th[t].pc = "regen"
    /\ gc' = InvalidateAllMigInstances(gc) /\ Step(t, "regen2")
    /\ KeepCloud /\ KeepRest /\ UNCHANGED <<left, history>>
Regenerate2(t) ==
    /\ th[t].pc = "regen2"
    /\ gc' = IF bulk THEN InvalidateMigInstancesStateCount(InvalidateAllInstancesToMig(gc))
             ELSE InvalidateAllInstancesToMig(gc)
    /\ th' = [th EXCEPT ![t].pc = IF bulk THEN "bulk" ELSE "fill", ![t].todo = gc.migs]
    /\ KeepCloud /\ KeepRest /\ UNCHANGED <<left, history>>
\* bulkListMigInstances: fillMigInfoCache without its mutex, then the instances of all zones
BulkInfo(t) ==
    /\ th[t].pc = "bulk"
    /\ \/ \E failed \in Failing \ {Zones} :
             /\ Charge(failed)
             /\ th' = [th EXCEPT ![t].pc = "bulkStore", ![t].got = FetchedAll(failed)]
       \/ Spend("fault") /\ th' = [th EXCEPT ![t].pc = "fill", ![t].todo = {}, ![t].back = "error"]
    /\ KeepCloud /\ KeepRest /\ UNCHANGED <<gc, history>>
BulkStore(t) ==
    /\ th[t].pc = "bulkStore"
    /\ gc' = setMigInfoCache(gc, th[t].got)
    /\ th' = [th EXCEPT ![t].pc = "fill", ![t].got = << >>, ![t].size = 1,
                        ![t].known = {i \in Names : vm[i] # "none"} \ Unlabelled]
    /\ KeepCloud /\ KeepRest /\ UNCHANGED <<left, history>>

\* isMigInstancesConsistent and isMigCreatingOrDeletingInstances; size 1 marks a bulk listing
TakenFromBulk(r, m) ==
    /\ r.size = 1 /\ m \in DOMAIN gc.stateCount
    /\ LET n == gc.stateCount[m]
       IN  /\ n.running + n.creating + n.deleting = Cardinality({i \in r.known : Owner[i] = m})
           /\ n.creating = 0 /\ n.deleting = 0
FillFails(t, m) == th' = [th EXCEPT ![t].todo = @ \ {m}, ![t].back = "error"]
\* MinRefreshWaitTime: what another thread has listed meanwhile is left alone
FillNext(t) ==
    /\ th[t].pc = "fill" /\ th[t].todo # {}
    /\ \E m \in th[t].todo :
         \/ /\ TakenFromBulk(th[t], m)
            /\ gc' = SetMigInstances(gc, m, {i \in th[t].known : Owner[i] = m})
            /\ th' = [th EXCEPT ![t].todo = @ \ {m}] /\ UNCHANGED left
         \/ /\ ~TakenFromBulk(th[t], m)
            /\ IF m \in DOMAIN gc.instances THEN th' = [th EXCEPT ![t].todo = @ \ {m}]
               ELSE IF m \in exists THEN th' = [th EXCEPT ![t].pc = "storeFill", ![t].got = <<m, Listed(m)>>]
               ELSE FillFails(t, m)
            /\ UNCHANGED <<gc, left>>
         \/ ~TakenFromBulk(th[t], m) /\ Spend("fault") /\ FillFails(t, m) /\ UNCHANGED gc
    /\ KeepCloud /\ KeepRest /\ UNCHANGED history
StoreFill(t) ==
    /\ th[t].pc = "storeFill"
    /\ gc' = SetMigInstances(gc, th[t].got[1], th[t].got[2])
    /\ th' = [th EXCEPT ![t].pc = "fill", ![t].got = << >>, ![t].todo = @ \ {th[t].got[1]}]
    /\ KeepCloud /\ KeepRest /\ UNCHANGED <<left, history>>
Regenerated(t) ==
    /\ th[t].pc = "fill" /\ th[t].todo = {}
    /\ Return(t)
    /\ IF t = "regen" THEN UNCHANGED <<phase, todo>>
       ELSE IF th[t].back = "error" THEN phase' = "refresh" /\ UNCHANGED todo
       ELSE StartObserving
    /\ KeepCloud /\ UNCHANGED <<gc, bulk, left, history>>

-----------------------------------------------------------------------------
\* The loop

MainIdle(p) == phase = p /\ th["main"] = Idle

\* what a thread has fetched or set and will store
InFlight(m) ==
    {th[t].got[m].size : t \in {u \in Threads : th[u].pc \in {"storeAll", "storeOne", "bulkStore"} /\ m \in DOMAIN th[u].got}}
Invalidated(c) == InvalidateAllInfo(InvalidateAllMigTargetSizes(InvalidateAllMigInstances(c)))
\* Refresh, forced if the last forced one is refreshInterval ago
Refresh(forced) ==
    /\ MainIdle("refresh")
    /\ gc' = Invalidated(gc)
    /\ recent' = [m \in Migs |-> {target[m]} \cup InFlight(m)]
    /\ listed' = UNION {Live(m) : m \in Migs}
    /\ raced' = {th[t].mig : t \in {u \in {"deleter"} : th[u].call = "DeleteNodes"}}
    /\ IF forced THEN phase' = "discover" /\ todo' = {} ELSE StartObserving
    /\ KeepCloud /\ UNCHANGED <<th, bulk, left>>

\* forceRefresh up to the regeneration: explicitly configured MIGs stay registered whatever is found
FetchAutoMigs ==
    /\ MainIdle("discover")
    /\ \/ LET c == UnregisterMigs(RegisterMigs(gc, exists), gc.migs \ (exists \cup Explicit))
          IN  /\ gc' = c /\ UNCHANGED left
              /\ IF c.migs # gc.migs
                 THEN /\ th' = [th EXCEPT !["main"] = Call("Refresh", "regen", Missing, Missing, 0)]
                      /\ phase' = "regenerate" /\ UNCHANGED todo
                 ELSE StartObserving /\ UNCHANGED th
       \/ Spend("fault") /\ phase' = "refresh" /\ UNCHANGED <<gc, th, todo>>
    /\ KeepCloud /\ UNCHANGED <<bulk, history>>

\* a call that finds what it asks for in the cache returns at once
Found(k, x) == CASE k = 1 -> IsKnown(gc, x) [] k = 2 -> x \in DOMAIN gc.targetSize [] k = 3 -> x \in DOMAIN gc.instances
Observe ==
    /\ MainIdle("observe") /\ todo # {}
    /\ \E q \in {CHOOSE x \in todo : \A y \in todo : x[1] <= y[1]} :
         /\ todo' = todo \ {q}
         /\ th' = IF Found(q[1], q[2]) THEN th
                  ELSE [th EXCEPT !["main"] = IF q[1] = 1 THEN Call(Order[1], "lookup", Missing, q[2], 0)
                                              ELSE Call(Order[q[1]], <<"", "get", "nodes">>[q[1]], q[2], Missing, 0)]
    /\ KeepCloud /\ UNCHANGED <<gc, phase, bulk, left, history>>
Observed ==
    /\ MainIdle("observe") /\ todo = {}
    /\ phase' = "fix"
    /\ KeepCloud /\ UNCHANGED <<gc, th, todo, bulk, left, history>>
\* fixNodeGroupSize, which comes before any scale-up of the loop
StartDecrease(m) ==
    /\ MainIdle("fix") /\ m \in gc.migs /\ Spend("decrease")
    /\ th' = [th EXCEPT !["main"] = Call("DecreaseTargetSize", "get", m, Missing, -1)]
    /\ KeepCloud /\ KeepRest /\ UNCHANGED <<gc, history>>
\* in a salvo a group may be increased more than once; there are always names left to draw
StartIncrease(m, delta) ==
    /\ th["main"] = Idle /\ phase \in {"fix", "scaleUp"} /\ m \in gc.migs /\ Spend("increase")
    /\ Cardinality({i \in Names : Owner[i] = m}) >= 2 * MaxSize[m]
    /\ th' = [th EXCEPT !["main"] = Call("IncreaseSize", "get", m, Missing, delta)]
    /\ phase' = "scaleUp"
    /\ KeepCloud /\ UNCHANGED <<gc, todo, bulk, history>>
EndLoop ==
    /\ th["main"] = Idle /\ phase \in {"fix", "scaleUp"}
    /\ phase' = "refresh"
    /\ KeepCloud /\ UNCHANGED <<gc, th, todo, bulk, left, history>>
\* a batch of the node deletion goroutine
StartDelete(i) ==
    /\ th["deleter"] = Idle /\ vm[i] = "running" /\ Owner[i] \in gc.migs /\ Spend("delete")
    /\ th' = [th EXCEPT !["deleter"] = Call("DeleteNodes", "get", Owner[i], i, 0)]
    /\ raced' = raced \cup {Owner[i]}
    /\ KeepCloud /\ KeepRest /\ UNCHANGED <<gc, recent, listed>>
StartRegenerate ==
    /\ th["regen"] = Idle /\ Spend("regen")
    /\ th' = [th EXCEPT !["regen"] = Call("Regenerate", "regen", Missing, Missing, 0)]
    /\ KeepCloud /\ KeepRest /\ UNCHANGED <<gc, history>>

Init ==
    /\ \E s \in Scenarios :
         /\ exists = s.exists /\ vm = s.vm /\ target = s.target /\ bulk = s.bulk /\ left = s.left
         /\ recent = [m \in Migs |-> {s.target[m]}]
    /\ gc = RegisterMigs(NewGceCache, Explicit)
    /\ th = [t \in Threads |-> Idle]
    /\ phase = "discover" /\ todo = {} /\ listed = {} /\ raced = {}

ThreadStep(t) ==
    \/ Get(t) \/ StoreAll(t) \/ FetchSingle(t) \/ StoreSingle(t)
    \/ GetNodes(t) \/ StoreNodes(t)
    \/ Lookup(t) \/ FindMig(t) \/ ListMatch(t) \/ StoreMatch(t) \/ MarkUnknown(t)
    \/ Invalidate(t) \/ CreateInstances(t) \/ Resize(t) \/ SetMigSize(t) \/ DeleteInstances(t) \/ Restart(t)
    \/ Regenerate1(t) \/ Regenerate2(t) \/ BulkInfo(t) \/ BulkStore(t) \/ FillNext(t) \/ StoreFill(t) \/ Regenerated(t)
LoopStep ==
    \/ (\E forced \in BOOLEAN : Refresh(forced)) \/ FetchAutoMigs \/ Observe \/ Observed \/ EndLoop
    \/ \E m \in Migs : StartDecrease(m) \/ \E d \in Deltas : StartIncrease(m, d)
Next ==
    \/ \E t \in Threads : ThreadStep(t)
    \/ LoopStep
    \/ \E i \in Names : StartDelete(i)
    \/ StartRegenerate
    \/ CloudMoves
    \/ \E m \in Migs : GroupComesOrGoes(m)

\* threads are scheduled, calls of the API return, instances are created and deleted in the end, and
\* refreshInterval passes again and again
Fairness == /\ \A t \in Threads : WF_vars(ThreadStep(t))
            /\ WF_vars(LoopStep) /\ SF_vars(Refresh(TRUE)) /\ WF_vars(CloudMoves)
Spec == Init /\ [][Next]_vars /\ Fairness

-----------------------------------------------------------------------------

\* A size that is cached was the MIG's at some time since the last Refresh, or was on its way into
\* the cache then: Refresh drops what the loop before has seen (GceCache's doc: "need to be
\* refreshed each loop to guarantee their freshness").
SizesAreRecent ==
    \A m \in DOMAIN gc.targetSize : gc.targetSize[m] \in recent[m]

\* IncreaseSize never takes a MIG above its maximum, however often a loop increases it, unless a
\* deletion of the same MIG runs meanwhile (its read may put an old size back into the cache).
MaxSizeKept == \A m \in Migs : target[m] > MaxSize[m] => m \in raced

\* DecreaseTargetSize only gives up what was not there: the size it sets has room for every
\* instance that existed when the loop began and still does, unless a deletion of the same MIG runs
\* meanwhile (it may put an old listing back into the cache).
KeepsMachines ==
    \A m \in Migs \ raced : (\E t \in Threads : th[t].pc = "DecreaseTargetSize" /\ th[t].mig = m /\ target'[m] # target[m])
                            => target'[m] >= Cardinality(Live(m) \cap listed)

\* A node whose instance runs in a MIG is to be found to belong to it, although the base name of
\* another MIG matches it too and a lookup may have marked it as unknown.
Runs(i) == vm[i] = "running"
Recognised(i) == i \in DOMAIN gc.instancesToMig /\ gc.instancesToMig[i] = Owner[i]
==============================================================================
