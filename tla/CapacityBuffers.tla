-------------------------- MODULE CapacityBuffers --------------------------
(***************************************************************************)
(* Capacity buffers of one namespace (pkg/capacitybuffer,                  *)
(* pkg/processors/capacitybuffer).  The buffer controller translates every *)
(* buffer's spec into a managed pod template and a number of replicas,     *)
(* shares the namespace's resource quota among the buffers in the order of *)
(* their creation, and writes the decision into the buffers' statuses; the *)
(* autoscaler's loop injects as many fake pods as a status asks for and    *)
(* writes the Provisioning condition into the same status.  Both read      *)
(* informer caches that lag, both write with optimistic concurrency.       *)
(*                                                                         *)
(* A pod template is its resource request (one resource).  The managed     *)
(* template of a buffer is the sequence of all its versions: its           *)
(* generation is the length of the sequence, and a lister's copy is an     *)
(* index into it.                                                          *)
(***************************************************************************)
EXTENDS Integers, FiniteSets, SequencesExt

CONSTANTS
    Settings,   \* the deployments: what exists at first, what may change, how often
    None,       \* a nil pointer or an unset condition
    Absent      \* an object that does not exist

VARIABLES
    conf,           \* the deployment, with what is left of its budgets
    spec,           \* buffer -> its spec in the API server, or Absent
    status,         \* buffer -> its status in the API server
    source,         \* buffer -> the pod template or workload it refers to, or Absent
    managed,        \* buffer -> the requests of all versions of its managed template
    quota,          \* what the resource quota leaves (hard minus used), or Absent
    seen,           \* buffer -> the informer's copy [spec, status], or Absent
    stale,          \* buffers whose informer copy is not the server's version
    managedSeen,    \* buffer -> the generation of the managed template in the lister
    queued,         \* the namespace is in the work queue
    copy,           \* buffer -> the status the worker has computed
    behind,         \* buffers changed in the server since the worker's copy was read
    todo,           \* the buffers the worker has still to update
    failed,         \* an error of the current reconciliation
    fakes           \* buffer -> fake pods injected in the last loop

server == <<conf, spec, status, source, managed, quota>>
caches == <<seen, stale, managedSeen>>
worker == <<queued, copy, behind, todo, failed>>
vars == <<server, caches, worker, fakes>>

Buffers == DOMAIN spec

Nothing == [gen |-> None, replicas |-> None, strategy |-> None,
            ready |-> None, prov |-> None, limited |-> None]

-----------------------------------------------------------------------------
(* Number of replicas a spec asks for.                                     *)

replicasFromPercentage(percentage, replicas) ==
    IF percentage <= 0 \/ replicas <= 0 THEN 0 ELSE (percentage * replicas + 99) \div 100

Larger(a, b) == IF a < b THEN b ELSE a
Smaller(a, b) == IF a < b THEN a ELSE b

\* Limits that name no resource of the pod (here: the pod requests nothing)
\* are an error, and so is a spec that defines nothing.
getBufferNumberOfPods(s, size, replicas) ==
    LET fixed == IF s.replicas = None THEN -1 ELSE Larger(0, s.replicas)
        asked == IF s.percentage = None \/ replicas = None THEN fixed
                 ELSE Larger(fixed, replicasFromPercentage(s.percentage, replicas))
    IN  IF s.limit # None
        THEN IF size = 0 THEN None
             ELSE IF asked >= 0 THEN Smaller(asked, s.limit \div size)
                  ELSE s.limit \div size
        ELSE IF asked >= 0 THEN asked ELSE None

-----------------------------------------------------------------------------
(* What the client returns: the lister's copy, or for templates the API    *)
(* server's when the lister has none.                                      *)

\* A workload's newest live pod is preferred to its template, and is read
\* from the API server together with the workload's replicas.
useScaleResolver(b) == source[b].live # None

Resolved(b) ==
    IF source[b] = Absent THEN Absent
    ELSE IF seen[b].spec.kind = "template" THEN [size |-> source[b].size, replicas |-> None]
    ELSE [size |-> IF useScaleResolver(b) THEN source[b].live ELSE source[b].size,
          replicas |-> source[b].replicas]

\* Generation of the managed template as GetPodTemplate returns it; 0: none.
GetPodTemplate(b, versions) ==
    IF managedSeen[b] > 0 THEN managedSeen[b] ELSE Len(versions[b])

\* EnsurePodTemplate: create it, keep an equal one, or update the copy read,
\* which the API server refuses when it is not the latest version.
Known(b) == GetPodTemplate(b, managed)
SameTemplate(b, size) == Known(b) > 0 /\ managed[b][Known(b)] = size
UpdateRefused(b, size) == ~SameTemplate(b, size) /\ Known(b) < Len(managed[b])
Generation(b, size) == IF SameTemplate(b, size) THEN Known(b) ELSE Len(managed[b]) + 1
EnsurePodTemplate(b, size) ==
    IF SameTemplate(b, size) THEN managed[b] ELSE Append(managed[b], size)

-----------------------------------------------------------------------------
(* Translation of one buffer; broken is the set of buffers for which a     *)
(* call to the API server fails.                                           *)

CannotTranslate(b, broken) ==
    \/ b \in broken
    \/ Resolved(b) = Absent
    \/ UpdateRefused(b, Resolved(b).size)

SetBufferAsReadyForProvisioning(b, gen, n) ==
    [seen[b].status EXCEPT !.gen = gen, !.replicas = n, !.ready = TRUE,
                           !.strategy = seen[b].spec.strategy]

SetBufferAsNotReadyForProvisioning(b, gen) ==
    [seen[b].status EXCEPT !.gen = gen, !.replicas = None, !.ready = FALSE,
                           !.strategy = seen[b].spec.strategy]

Translate(b, broken) ==
    IF CannotTranslate(b, broken) THEN SetBufferAsNotReadyForProvisioning(b, None)
    ELSE LET r == Resolved(b)
             n == getBufferNumberOfPods(seen[b].spec, r.size, r.replicas)
             g == Generation(b, r.size)
         IN  IF n = None THEN SetBufferAsNotReadyForProvisioning(b, g)
             ELSE SetBufferAsReadyForProvisioning(b, g, n)

-----------------------------------------------------------------------------
(* Sharing the quota, in the order of the buffers' creation.               *)

UpdateBufferStatusLimitedByQuotas(st, isLimited) == [st EXCEPT !.limited = isLimited]

MarkBufferAsLimitedByQuota(st, allowed) ==
    [UpdateBufferStatusLimitedByQuotas(st, TRUE) EXCEPT !.replicas = allowed]

podMatchesQuotaScope(b) == quota # Absent /\ conf.scope[b] = "matches"

getMaxReplicasForQuota(size, reserved) ==
    IF quota - reserved < 0 THEN 0 ELSE (quota - reserved) \div size

\* Buffers the loop of Allocate skips: not translated, or without requests.
\* The request is that of the template GetPodTemplate returns now, which may
\* lag behind the version EnsurePodTemplate has just written.
Request(b, versions) == versions[b][GetPodTemplate(b, versions)]
Skipped(b, st, versions) == st.gen = None \/ st.replicas = None \/ Request(b, versions) = 0

Allowed(b, st, versions, reserved) ==
    IF podMatchesQuotaScope(b)
    THEN Smaller(st.replicas, getMaxReplicasForQuota(Request(b, versions), reserved))
    ELSE st.replicas

\* usages: what the first k buffers have reserved of the quota.
Usages(translated, versions) ==
    LET u[k \in 0..Len(translated)] ==
          IF k = 0 THEN 0
          ELSE u[k - 1] + IF Skipped(k, translated[k], versions) \/ ~podMatchesQuotaScope(k) THEN 0
                          ELSE Allowed(k, translated[k], versions, u[k - 1]) * Request(k, versions)
    IN  u

\* When the quotas cannot be listed the buffers stay as they were translated.
Allocate(translated, versions, usages, listFails) ==
    [b \in Buffers |->
       LET st == translated[b]
           n == Allowed(b, st, versions, usages[b - 1])
       IN  IF listFails \/ Skipped(b, st, versions) THEN st
           ELSE IF n < st.replicas THEN MarkBufferAsLimitedByQuota(st, n)
           ELSE UpdateBufferStatusLimitedByQuotas(st, FALSE)]

strategyFilter == {b \in Buffers : seen[b] # Absent /\ seen[b].spec.strategy = "active"}

AllocationErrors(listFails) ==
    listFails \/ (quota # Absent /\ \E b \in strategyFilter : conf.scope[b] = "error")

-----------------------------------------------------------------------------
(* Writes to the API server.                                               *)

\* UpdateStatus without a check of the resource version.
AcceptedBlindly(b, outdated) == spec[b] # Absent

\* UpdateStatus is refused when the object is gone or has changed since the
\* written copy was read.
UpdateCapacityBuffer(b, outdated) == spec[b] # Absent /\ b \notin outdated

\* A write that changes nothing creates no new version.
Written(new) == {b \in Buffers : new[b] # status[b]}

Spend(budget) == conf' = [conf EXCEPT ![budget] = @ - 1]
Calls == IF conf.faults > 0 THEN {FALSE, TRUE} ELSE {FALSE}
ChargeIf(fault) == conf' = IF fault THEN [conf EXCEPT !.faults = @ - 1] ELSE conf

-----------------------------------------------------------------------------
(* The controller.                                                         *)

\* reconcileNamespace up to the updates: list, filter, sort, translate,
\* allocate.  A buffer is the number of its place in the order of creation.
reconcileNamespace(broken, listFails) ==
    \E versions \in {[b \in Buffers |->
                        IF b \in strategyFilter /\ ~CannotTranslate(b, broken)
                        THEN EnsurePodTemplate(b, Resolved(b).size) ELSE managed[b]]} :
    \E translated \in {[b \in Buffers |-> IF b \in strategyFilter THEN Translate(b, broken)
                                           ELSE Nothing]} :
    \E usages \in {Usages(translated, versions)} :
        /\ copy' = Allocate(translated, versions, usages, listFails)
        /\ managed' = versions
        /\ todo' = SetToSortSeq(strategyFilter, <)
        /\ failed' = (\/ \E b \in strategyFilter : CannotTranslate(b, broken)
                      \/ AllocationErrors(listFails))

processNextItem ==
    /\ queued /\ todo = <<>>
    /\ queued' = FALSE
    /\ behind' = stale
    /\ UNCHANGED <<spec, status, source, quota, caches, fakes>>
    /\ \/ /\ strategyFilter = {}
          /\ UNCHANGED <<conf, copy, managed, todo, failed>>
       \/ /\ strategyFilter # {}
          /\ \/ reconcileNamespace({}, FALSE) /\ UNCHANGED conf
             \/ /\ conf.faults > 0
                /\ Spend("faults")
                /\ \/ \E b \in strategyFilter : reconcileNamespace({b}, FALSE)
                   \/ reconcileNamespace({}, TRUE)

\* StatusUpdater.Update, one buffer; after the last one an error of any
\* stage puts the namespace back into the queue.
UpdateOne ==
    /\ todo # <<>>
    /\ todo' = Tail(todo)
    /\ UNCHANGED <<spec, source, managed, quota, seen, managedSeen, fakes>>
    /\ \E fault \in Calls :
        LET b == Head(todo)
            ok == ~fault /\ UpdateCapacityBuffer(b, behind)
            now == IF ok THEN [status EXCEPT ![b] = copy[b]] ELSE status
            last == Len(todo) = 1
        IN  /\ ChargeIf(fault)
            /\ status' = now
            /\ stale' = stale \cup Written(now)
            /\ behind' = IF last THEN {} ELSE behind \cup Written(now)
            /\ failed' = IF last THEN FALSE ELSE failed \/ ~ok
            /\ queued' = (queued \/ (last /\ (failed \/ ~ok)))
            /\ copy' = [copy EXCEPT ![b] = Nothing]

-----------------------------------------------------------------------------
(* The pod list processor of the autoscaler's loop.                        *)

filterBuffersProvStrategy(b) == seen[b] # Absent /\ seen[b].status.strategy = "active"

statusFilter(b) == seen[b].status.ready = TRUE \/ seen[b].status.prov = "injected"

podTemplateGenerationChanged(b) ==
    /\ seen[b].status.gen # None
    /\ Known(b) > 0
    /\ Known(b) # seen[b].status.gen

Provisioned(b) ==
    /\ filterBuffersProvStrategy(b) /\ statusFilter(b) /\ ~podTemplateGenerationChanged(b)

NotReady(st) == st.gen = None \/ st.replicas = None \/ st.ready = FALSE

\* The Provisioning condition provision() sets, and the fake pods it makes.
provision(b) ==
    LET st == seen[b].status
    IN  IF NotReady(st) THEN [prov |-> "notReady", pods |-> 0]
        ELSE IF st.replicas = 0 THEN [prov |-> "empty", pods |-> 0]
        ELSE IF Known(b) = 0 THEN [prov |-> "noTemplate", pods |-> 0]
        ELSE [prov |-> "injected", pods |-> st.replicas]

\* The fake pods are injected whether or not the condition can be written.
Process ==
    /\ UNCHANGED <<spec, source, managed, quota, seen, managedSeen, queued, copy, todo, failed>>
    /\ \E fault \in Calls :
        LET now == [b \in Buffers |->
                      IF Provisioned(b) /\ ~fault /\ UpdateCapacityBuffer(b, stale)
                      THEN [seen[b].status EXCEPT !.prov = provision(b).prov]
                      ELSE status[b]]
        IN  /\ ChargeIf(fault)
            /\ status' = now
            /\ stale' = stale \cup Written(now)
            /\ behind' = IF todo = <<>> THEN {} ELSE behind \cup Written(now)
            /\ fakes' = [b \in Buffers |-> IF Provisioned(b) THEN provision(b).pods ELSE 0]

-----------------------------------------------------------------------------
(* Informers.                                                              *)

InServer(b) == IF spec[b] = Absent THEN Absent ELSE [spec |-> spec[b], status |-> status[b]]

\* Only a new generation (a changed spec) or a deletion enqueues the
\* namespace, a status written by anyone does not.
GenerationChanged(b) == seen[b] # Absent /\ seen[b].spec # spec[b]

DeliverBuffer(b) ==
    /\ b \in stale
    /\ seen' = [seen EXCEPT ![b] = InServer(b)]
    /\ stale' = stale \ {b}
    /\ queued' = (queued \/ GenerationChanged(b))
    /\ UNCHANGED <<server, managedSeen, copy, behind, todo, failed, fakes>>

DeliverManaged(b) ==
    /\ managedSeen[b] # Len(managed[b])
    /\ managedSeen' = [managedSeen EXCEPT ![b] = Len(managed[b])]
    /\ UNCHANGED <<server, seen, stale, worker, fakes>>

AllSeen ==
    /\ seen' = [b \in Buffers |-> InServer(b)]
    /\ stale' = {}
    /\ managedSeen' = [b \in Buffers |-> Len(managed[b])]

\* The handler of a resync, the update whose resource version is the old one.
ResyncEnqueues == queued \/ \E b \in Buffers : spec[b] # Absent

\* The resync period: everything sent before has arrived by then.
Resync ==
    /\ UNCHANGED <<server, copy, behind, todo, failed, fakes>>
    /\ queued' = ResyncEnqueues
    /\ AllSeen

\* A new process: caches are synced before the controller starts, and the
\* informers' add events enqueue the namespace.
Restart ==
    /\ conf.restarts > 0
    /\ Spend("restarts")
    /\ AllSeen
    /\ queued' = \E b \in Buffers : spec[b] # Absent
    /\ copy' = [b \in Buffers |-> Nothing]
    /\ behind' = {}
    /\ todo' = <<>>
    /\ failed' = FALSE
    /\ fakes' = [b \in Buffers |-> 0]
    /\ UNCHANGED <<spec, status, source, managed, quota>>

-----------------------------------------------------------------------------
(* Users and other controllers.                                            *)

\* A new generation: created, deleted, or anything but the pods changed.
enqueueBuffersReferencing(old, new) ==
    \/ old = Absent \/ new = Absent
    \/ <<old.size, old.replicas>> # <<new.size, new.replicas>>

EditSpec(b) ==
    /\ conf.edits > 0 /\ spec[b] # Absent
    /\ \E s \in conf.specs[b] \ {spec[b]} : spec' = [spec EXCEPT ![b] = s]
    /\ stale' = stale \cup {b}
    /\ behind' = IF todo = <<>> THEN {} ELSE behind \cup {b}
    /\ Spend("edits")
    /\ UNCHANGED <<status, source, managed, quota, seen, managedSeen,
                   queued, copy, todo, failed, fakes>>

\* A changed template or workload, or its live pods.  Only the controller
\* reads these and the quota, so a change is modelled when its event arrives.
\* The index of the buffers that refer to an object knows the reference in
\* the spec, never the managed template; pods have no handler.
EditSource(b) ==
    /\ conf.edits > 0
    /\ \E s \in conf.sources[b] \ {source[b]} :
        /\ source' = [source EXCEPT ![b] = s]
        /\ queued' = (queued \/ (seen[b] # Absent /\ enqueueBuffersReferencing(source[b], s)))
    /\ Spend("edits")
    /\ UNCHANGED <<spec, status, managed, quota, caches, copy, behind, todo, failed, fakes>>

EditQuota ==
    /\ conf.edits > 0
    /\ quota' \in conf.quotas \ {quota}
    /\ queued' = TRUE
    /\ Spend("edits")
    /\ UNCHANGED <<spec, status, source, managed, caches, copy, behind, todo, failed, fakes>>

-----------------------------------------------------------------------------

Init ==
    /\ conf \in Settings
    /\ spec = conf.spec0
    /\ source = conf.source0
    /\ quota = conf.quota0
    /\ status = [b \in DOMAIN spec |-> Nothing]
    /\ managed = [b \in DOMAIN spec |-> <<>>]
    /\ seen = [b \in DOMAIN spec |-> [spec |-> spec[b], status |-> Nothing]]
    /\ stale = {}
    /\ managedSeen = [b \in DOMAIN spec |-> 0]
    /\ queued = TRUE
    /\ copy = status
    /\ behind = {}
    /\ todo = <<>>
    /\ failed = FALSE
    /\ fakes = [b \in DOMAIN spec |-> 0]

Work == processNextItem \/ UpdateOne

Next ==
    \/ Work \/ Process \/ Resync \/ Restart \/ EditQuota
    \/ \E b \in Buffers : \/ DeliverBuffer(b) \/ DeliverManaged(b)
                          \/ EditSpec(b) \/ EditSource(b)

\* The worker and the loop are goroutines that run for ever; informers
\* resync periodically.
Fairness == WF_vars(Work) /\ WF_vars(Process) /\ WF_vars(Resync)

FairSpec == Init /\ [][Next]_vars /\ Fairness

-----------------------------------------------------------------------------

Decision(st) == <<st.gen, st.replicas, st.strategy, st.ready, st.limited>>

(***************************************************************************)
(* The controller and the loop write the same status objects from copies   *)
(* that lag.  No write carries an old value of what the other one owns:    *)
(* a step that changes the Provisioning condition (the loop's, see         *)
(* updateBufferStatus) leaves the controller's decision as it is, and a    *)
(* step that changes the decision (StatusUpdater.Update) leaves the        *)
(* condition as it is.                                                     *)
(***************************************************************************)
LeavesTheOthers ==
    \A b \in Buffers : \/ status'[b].prov = status[b].prov
                       \/ Decision(status'[b]) = Decision(status[b])

WritersDoNotUndo == [][LeavesTheOthers]_vars

Active == {b \in Buffers : spec[b] # Absent /\ spec[b].strategy = "active"}

\* What the specs, sources and quota in the API server call for.
CurrentSource(b) ==
    IF source[b] = Absent THEN Absent
    ELSE IF spec[b].kind = "template" THEN [size |-> source[b].size, replicas |-> None]
    ELSE [size |-> IF source[b].live # None THEN source[b].live ELSE source[b].size,
          replicas |-> source[b].replicas]

Wanted(b) ==
    IF CurrentSource(b) = Absent THEN None
    ELSE getBufferNumberOfPods(spec[b], CurrentSource(b).size, CurrentSource(b).replicas)

Limited(b) == quota # Absent /\ conf.scope[b] = "matches"

Taken(b) == IF Wanted(b) = None \/ ~Limited(b) THEN 0
            ELSE status[b].replicas * CurrentSource(b).size

RECURSIVE TakenBefore(_)
TakenBefore(b) ==
    IF b = 1 THEN 0
    ELSE TakenBefore(b - 1) + IF b - 1 \in Active THEN Taken(b - 1) ELSE 0

\* b has all it wants, or as much as earlier buffers have left of the quota.
HasItsShare(b) ==
    LET left == quota - TakenBefore(b)
        n == status[b].replicas
        size == CurrentSource(b).size
    IN  \/ n = Wanted(b) /\ (Limited(b) => n * size <= Larger(left, 0))
        \/ /\ Limited(b)
           /\ n < Wanted(b)
           /\ n * size <= Larger(left, 0) /\ (n + 1) * size > left

Settled(b) ==
    IF Wanted(b) = None THEN status[b].ready = FALSE /\ status[b].replicas = None
    ELSE /\ status[b].ready = TRUE
         /\ managed[b][status[b].gen] = CurrentSource(b).size
         /\ status[b].gen = Len(managed[b])
         /\ HasItsShare(b)

(***************************************************************************)
(* Once users stop changing things, every active buffer's status becomes   *)
(* and stays what its spec, its template and the quota call for: the       *)
(* buffers share the quota in the order of their creation, nothing fits    *)
(* that was left out, and the loop injects exactly the replicas of the     *)
(* status (reconcileNamespace, Process), whatever copies were stale,       *)
(* updates refused, or processes restarted on the way.                     *)
(***************************************************************************)
Converged ==
    \A b \in Active : /\ Settled(b)
                      /\ fakes[b] = IF Wanted(b) = None THEN 0 ELSE status[b].replicas

BuffersConverge == <>[]Converged
=============================================================================
