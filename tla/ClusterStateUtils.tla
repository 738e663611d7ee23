-------------------------- MODULE ClusterStateUtils --------------------------
(***************************************************************************)
(* Two helpers of the cluster state registry (clusterstate/utils).         *)
(*                                                                         *)
(* The cache of the instances of every node group                          *)
(* (CloudProviderNodeInstancesCache): a goroutine refreshes it, group by   *)
(* group, while iterations read it, fetch what is missing and invalidate   *)
(* what they change.  A list of instances is known by the number of the    *)
(* change that made it; the mutex is released between the call of the      *)
(* cloud provider and the update of the entry.                             *)
(*                                                                         *)
(* The status the autoscaler publishes: the conditions the registry builds *)
(* at the end of every iteration (GetStatus), the ConfigMap they are       *)
(* written to (WriteStatusConfigMap), which is also the object that events *)
(* are recorded on, and the gauges of the backoff.  Counts of nodes and    *)
(* messages are left out; times are iterations.                            *)
(***************************************************************************)
EXTENDS Integers, FiniteSets

CONSTANTS Groups, Missing, Failed,   \* no entry, and what Refresh stores after an error
          CloudChanges, CloudErrors

VARIABLES exists,    \* the node groups of the cloud provider
          instances, \* the instances of every group
          entries,   \* cloudProviderNodeInstances
          refresh,   \* Refresh: the groups still to do, and what was read for one of them
          fetch,     \* GetCloudProviderNodeInstances: what the goroutines read for the missing entries
          changes, errors

cacheVars == <<exists, instances, entries, refresh, fetch, changes, errors>>

NotRefreshing == [on |-> FALSE, todo |-> {}, group |-> Missing, read |-> Missing]

-----------------------------------------------------------------------------
\* Instances come and go, by the iteration's own doing or not; for its own
\* changes the iteration invalidates the entry (InvalidateCacheEntry).
Change(g) ==
  /\ changes > 0 /\ g \in exists
  /\ instances' = [instances EXCEPT ![g] = @ + 1]
  /\ entries' \in {entries, [entries EXCEPT ![g] = Missing]}
  /\ changes' = changes - 1
  /\ UNCHANGED <<exists, refresh, fetch, errors>>

GroupsChange(g) ==
  /\ changes > 0
  /\ exists' = IF g \in exists THEN exists \ {g} ELSE exists \cup {g}
  /\ changes' = changes - 1
  /\ UNCHANGED <<instances, entries, refresh, fetch, errors>>

-----------------------------------------------------------------------------
StartRefresh ==
  /\ ~refresh.on
  /\ refresh' = [NotRefreshing EXCEPT !.on = TRUE, !.todo = exists]
  /\ entries' = [g \in Groups |-> IF g \in exists THEN entries[g] ELSE Missing]
  /\ UNCHANGED <<exists, instances, fetch, changes, errors>>

\* An error is logged, and the entry gets the empty result all the same.
RefreshReads(g) ==
  /\ refresh.on /\ refresh.group = Missing /\ g \in refresh.todo
  /\ \/ /\ refresh' = [refresh EXCEPT !.group = g, !.read = instances[g]]
        /\ UNCHANGED errors
     \/ /\ errors > 0 /\ errors' = errors - 1
        /\ refresh' = [refresh EXCEPT !.group = g, !.read = Failed]
  /\ UNCHANGED <<exists, instances, entries, fetch, changes>>

RefreshStores ==
  /\ refresh.on /\ refresh.group # Missing
  /\ entries' = [entries EXCEPT ![refresh.group] = refresh.read]
  /\ refresh' = [refresh EXCEPT !.todo = @ \ {refresh.group}, !.group = Missing, !.read = Missing]
  /\ UNCHANGED <<exists, instances, fetch, changes, errors>>

RefreshDone ==
  /\ refresh.on /\ refresh.todo = {}
  /\ refresh' = NotRefreshing
  /\ UNCHANGED <<exists, instances, entries, fetch, changes, errors>>

-----------------------------------------------------------------------------
\* GetCloudProviderNodeInstances: what is missing is fetched, and an error
\* leaves it missing.
FetchReads(g) ==
  /\ g \in exists /\ entries[g] = Missing /\ fetch[g] = Missing
  /\ fetch' = [fetch EXCEPT ![g] = instances[g]]
  /\ UNCHANGED <<exists, instances, entries, refresh, changes, errors>>

FetchStores(g) ==
  /\ fetch[g] # Missing
  /\ entries' = [entries EXCEPT ![g] = fetch[g]]
  /\ fetch' = [fetch EXCEPT ![g] = Missing]
  /\ UNCHANGED <<exists, instances, refresh, changes, errors>>

CacheInit ==
  /\ exists = Groups
  /\ instances = [g \in Groups |-> 0]
  /\ entries = [g \in Groups |-> Missing]
  /\ refresh = NotRefreshing
  /\ fetch = [g \in Groups |-> Missing]
  /\ changes = CloudChanges /\ errors = CloudErrors

Refresh == StartRefresh \/ (\E g \in Groups : RefreshReads(g)) \/ RefreshStores \/ RefreshDone

CacheNext ==
  \/ \E g \in Groups : Change(g) \/ GroupsChange(g) \/ FetchReads(g) \/ FetchStores(g)
  \/ Refresh

\* wait.Until runs Refresh again and again, and a fetch that read stores.
CacheFairness == WF_cacheVars(Refresh) /\ \A g \in Groups : WF_cacheVars(FetchStores(g))
CacheSpec == CacheInit /\ [][CacheNext]_cacheVars /\ CacheFairness

-----------------------------------------------------------------------------
\* Whatever a refresh that was overtaken by changes and invalidations stored,
\* and whatever calls failed, the entries come to be what the cloud provider
\* has, and the groups that are gone have none.
Accurate == \A g \in Groups : entries[g] = IF g \in exists THEN instances[g] ELSE Missing
CacheCatchesUp == []<>Accurate

-----------------------------------------------------------------------------
\* The status of the cluster.
CONSTANTS Inputs,          \* what an iteration may find: the facts of the groups, whether the cluster is
                           \* healthy, and the scale-down candidates, if it comes to looking for them
          Nowhere,         \* no ConfigMap
          LastProbe, StatusTroubles

VARIABLES probeTime,  \* the iteration that runs or ran last; nothing new happens after LastProbe
          facts,      \* what the registry knows of the groups
          healthy,    \* IsClusterHealthy
          scaleDown,  \* candidatesForScaleDown, lastScaleDownUpdateTime
          lastStatus, \* of the registry
          gauges,     \* backoffReasonStatus of the metrics processor
          configMap,  \* the status shown, or Nowhere
          writing,    \* WriteStatusConfigMap between its two calls: the status, and what Get returned
          recorder,   \* statusObject of LogEventRecorder: "none", "current" or "stale" (deleted since)
          up,         \* the process runs
          troubles,   \* what the API server, other clients and the process may still do wrong
          published   \* history: the conditions of every status since the start of the process

statusVars == <<probeTime, facts, healthy, scaleDown, lastStatus, gauges, configMap, writing, recorder, up, troubles, published>>

Absent == [there |-> FALSE, upcoming |-> FALSE, healthy |-> FALSE, scalingUp |-> FALSE, code |-> "none"]
Never == 0
NoCondition == [status |-> "", probe |-> Never, transition |-> Never]
NoConditions == [health |-> NoCondition, scaleUp |-> NoCondition, scaleDown |-> NoCondition]
EmptyClusterAutoscalerStatus == [autoscaler |-> "Initializing", time |-> Never,
                                 clusterWide |-> NoConditions, groups |-> [g \in {} |-> NoConditions]]
NotWriting == [on |-> FALSE, status |-> EmptyClusterAutoscalerStatus, got |-> "", touched |-> FALSE]
NoCandidates == [count |-> [g \in Groups |-> 0], time |-> Never]
-----------------------------------------------------------------------------
\* A wrong variant: a condition keeps the time of its first transition.
DatedOnce(status, probe, last) ==
  [status |-> status, probe |-> probe,
   transition |-> IF last.status = "" THEN probe ELSE last.transition]

\* A condition keeps the time of its last transition while its status stays the same.
Dated(status, probe, last) ==
  [status |-> status, probe |-> probe,
   transition |-> IF last.status = status THEN last.transition ELSE probe]

buildHealthStatusNodeGroup(isHealthy, time, last) ==
  Dated(IF isHealthy THEN "Healthy" ELSE "Unhealthy", time, last)

buildScaleUpStatusNodeGroup(f, time, last) ==
  Dated(CASE f.scalingUp -> "InProgress"
          [] ~f.scalingUp /\ ~f.healthy -> "Unhealthy"
          [] ~f.scalingUp /\ f.healthy /\ f.code # "none" -> "Backoff"
          [] OTHER -> "NoActivity", time, last)

buildScaleDownStatusNodeGroup(candidates, lastProbed, last) ==
  Dated(IF candidates > 0 THEN "CandidatesPresent" ELSE "NoCandidates", lastProbed, last)

buildHealthStatusClusterwide(isHealthy, time, last) ==
  Dated(IF isHealthy THEN "Healthy" ELSE "Unhealthy", time, last)

buildScaleUpStatusClusterwide(groups, time, last) ==
  Dated(IF \E g \in DOMAIN groups : groups[g].scaleUp.status = "InProgress" THEN "InProgress" ELSE "NoActivity",
        time, last)

\* Over all groups with candidates, the ones that are not shown included.
buildScaleDownStatusClusterwide(candidates, lastProbed, last) ==
  Dated(IF \E g \in Groups : candidates[g] > 0 THEN "CandidatesPresent" ELSE "NoCandidates", lastProbed, last)

RunningGroups(f) == {g \in Groups : f[g].there /\ ~f[g].upcoming}

\* The status of what the registry knows; a group that was not shown last time starts afresh.
GetStatus(f, clusterHealthy, sd, time) ==
  LET last(g) == IF g \in DOMAIN lastStatus.groups THEN lastStatus.groups[g] ELSE NoConditions
      wide == lastStatus.clusterWide
      groups == [g \in RunningGroups(f) |->
                   [health |-> buildHealthStatusNodeGroup(f[g].healthy, time, last(g).health),
                    scaleUp |-> buildScaleUpStatusNodeGroup(f[g], time, last(g).scaleUp),
                    scaleDown |-> buildScaleDownStatusNodeGroup(sd.count[g], sd.time, last(g).scaleDown)]]
  IN [autoscaler |-> "Running", time |-> time, groups |-> groups,
      clusterWide |-> [health |-> buildHealthStatusClusterwide(clusterHealthy, time, wide.health),
                       scaleUp |-> buildScaleUpStatusClusterwide(groups, time, wide.scaleUp),
                       scaleDown |-> buildScaleDownStatusClusterwide(sd.count, sd.time, wide.scaleDown)]]

\* The candidates of this pass replace the ones before; nodes without a group are not counted.
UpdateScaleDownCandidates(count, time) == [count |-> count, time |-> time]
-----------------------------------------------------------------------------
\* The first call of WriteStatusConfigMap, Get; an error other than NotFound ends the write.
StartWrite(status) ==
  \/ /\ writing' = [on |-> TRUE, status |-> status, touched |-> FALSE,
                    got |-> IF configMap = Nowhere THEN "missing" ELSE "found"]
     /\ UNCHANGED troubles
  \/ /\ troubles > 0 /\ troubles' = troubles - 1
     /\ writing' = [NotWriting EXCEPT !.on = TRUE, !.status = status, !.got = "error"]

\* The second call, Update or Create: it fails when the map was changed, deleted or created
\* since Get, and it may fail by itself.  Only a success reaches the recorder.
Written == writing.got # "error" /\ ~writing.touched

WrittenTo(object) ==
  /\ configMap' = writing.status
  /\ object' = "current"

\* The gauges of a group: all reasons are reset, then the present one is set.
updateNodeGroupBackoffStatusMetrics(reasons, code) ==
  [r \in DOMAIN reasons \cup ({code} \ {"none"}) |-> r = code]

Process ==
  [g \in Groups |-> IF facts[g].there THEN updateNodeGroupBackoffStatusMetrics(gauges[g], facts[g].code) ELSE gauges[g]]

StatusInit ==
  /\ probeTime = 1
  /\ facts = [g \in Groups |-> Absent] /\ healthy = FALSE
  /\ scaleDown = NoCandidates
  /\ lastStatus = EmptyClusterAutoscalerStatus
  /\ gauges = [g \in Groups |-> [r \in {} |-> FALSE]]
  /\ configMap \in {Nowhere, EmptyClusterAutoscalerStatus}
  /\ writing = NotWriting
  /\ recorder = "none"
  /\ up = FALSE
  /\ troubles = StatusTroubles
  /\ published = {}

\* NewStatusMapRecorder while the process starts: it shows Initializing.
Start ==
  /\ ~up /\ ~writing.on
  /\ StartWrite([EmptyClusterAutoscalerStatus EXCEPT !.time = probeTime])
  /\ UNCHANGED <<probeTime, facts, healthy, scaleDown, lastStatus, gauges, configMap, recorder, up, published>>

\* The process starts when the map was written, and otherwise exits and is started again.
Started ==
  /\ ~up /\ writing.on
  /\ writing' = NotWriting
  /\ \/ /\ Written /\ WrittenTo(recorder)
        /\ up' = TRUE
        /\ UNCHANGED troubles
     \/ /\ ~Written
        /\ UNCHANGED <<configMap, recorder, up, troubles>>
     \/ /\ Written /\ troubles > 0
        /\ troubles' = troubles - 1
        /\ UNCHANGED <<configMap, recorder, up>>
  /\ UNCHANGED <<probeTime, facts, healthy, scaleDown, lastStatus, gauges, published>>

Conditions(status) ==
  UNION {{<<g, a, status.groups[g][a].probe, status.groups[g][a].status>> : a \in {"health", "scaleUp", "scaleDown"}}
           : g \in DOMAIN status.groups}

\* An iteration up to the status it publishes: the registry is updated, scale-down may run and find
\* candidates, GetStatus is called and the write begins.
Run ==
  /\ up /\ ~writing.on
  /\ \/ /\ probeTime < LastProbe
        /\ probeTime' = probeTime + 1
        /\ \E i \in Inputs :
             /\ facts' = i.facts /\ healthy' = i.healthy
             /\ scaleDown' = IF i.looks THEN UpdateScaleDownCandidates(i.candidates, probeTime') ELSE scaleDown
     \/ /\ probeTime = LastProbe
        /\ UNCHANGED <<probeTime, facts, healthy, scaleDown>>
  /\ lastStatus' = GetStatus(facts', healthy', scaleDown', probeTime')
  /\ StartWrite(lastStatus')
  /\ published' = published \cup Conditions(lastStatus')
  /\ UNCHANGED <<gauges, configMap, recorder, up>>

\* An iteration that finds no nodes, or no ready ones: it shows Initializing, and that is all
\* (OnEmptyCluster).
RunOnEmptyCluster ==
  /\ up /\ ~writing.on /\ probeTime < LastProbe
  /\ probeTime' = probeTime + 1
  /\ StartWrite([EmptyClusterAutoscalerStatus EXCEPT !.time = probeTime'])
  /\ UNCHANGED <<facts, healthy, scaleDown, lastStatus, gauges, configMap, recorder, up, published>>

\* The write ends; an error is logged, and the next iteration writes again.  The status processor
\* follows it, also after an iteration that failed later on.
Finish ==
  /\ up /\ writing.on
  /\ writing' = NotWriting
  /\ \/ /\ Written /\ WrittenTo(recorder)
        /\ UNCHANGED troubles
     \/ /\ ~Written
        /\ UNCHANGED <<configMap, recorder, troubles>>
     \/ /\ Written /\ troubles > 0
        /\ troubles' = troubles - 1
        /\ UNCHANGED <<configMap, recorder>>
  /\ gauges' = IF writing.status.autoscaler = "Running" THEN Process ELSE gauges
  /\ UNCHANGED <<probeTime, facts, healthy, scaleDown, lastStatus, up, published>>

Gone(r) == IF r = "current" THEN "stale" ELSE r

\* Another client deletes the map, or edits something of it.
OthersWrite ==
  /\ troubles > 0 /\ troubles' = troubles - 1
  /\ configMap # Nowhere
  /\ writing' = [writing EXCEPT !.touched = writing.on]
  /\ \/ configMap' = Nowhere /\ recorder' = Gone(recorder)
     \/ UNCHANGED <<configMap, recorder>>
  /\ UNCHANGED <<probeTime, facts, healthy, scaleDown, lastStatus, gauges, up, published>>

\* The process exits: on a signal it deletes the map (ExitCleanUp), which may fail; a crash leaves it.
Exit ==
  /\ up /\ troubles > 0 /\ troubles' = troubles - 1
  /\ up' = FALSE
  /\ configMap' \in {Nowhere, configMap}
  /\ recorder' = "none"
  /\ writing' = NotWriting
  /\ facts' = [g \in Groups |-> Absent] /\ healthy' = FALSE
  /\ scaleDown' = NoCandidates
  /\ lastStatus' = EmptyClusterAutoscalerStatus
  /\ gauges' = [g \in Groups |-> [r \in {} |-> FALSE]]
  /\ published' = {}
  /\ UNCHANGED probeTime

StatusLoop == Start \/ Started \/ Run \/ Finish
StatusNext == StatusLoop \/ RunOnEmptyCluster \/ OthersWrite \/ Exit
StatusSpec == StatusInit /\ [][StatusNext]_statusVars
-----------------------------------------------------------------------------
\* The statuses the registry builds are dated truly: what a condition of a group says has been
\* published ever since its LastTransitionTime, and was published at that time (the build*Status
\* functions of the registry); between two iterations the gauges of a group that is shown name no
\* other reason than the one it is backed off for (updateNodeGroupBackoffStatusMetrics).
TransitionsDated ==
  \A g \in DOMAIN lastStatus.groups, a \in {"health", "scaleUp", "scaleDown"} :
    LET c == lastStatus.groups[g][a]
    IN /\ c.transition <= c.probe
       /\ <<g, a, c.transition, c.status>> \in published
       /\ \A p \in published : p[1] = g /\ p[2] = a /\ p[3] >= c.transition => p[4] = c.status
GaugesAreCurrent ==
  up /\ ~writing.on => \A g \in DOMAIN lastStatus.groups : \A r \in DOMAIN gauges[g] : gauges[g][r] => r = facts[g].code
StatusIsTrue == TransitionsDated /\ GaugesAreCurrent

\* The status of the last iteration is shown in the end, and events go to the object that shows it.
Shown ==
  /\ up /\ configMap # Nowhere /\ configMap.autoscaler = "Running" /\ configMap.time = LastProbe
  /\ recorder = "current"
==============================================================================
