-------------------------- MODULE AutoscalerProcess --------------------------
(***************************************************************************)
(* The life of the replicas of the autoscaler (main.go): they compete for  *)
(* the lease, the leader builds the autoscaler and iterates, the health    *)
(* check watches the iterations, and the kubelet restarts a replica that   *)
(* ended or whose health check failed.  Time is counted in retry periods   *)
(* of the leader election.                                                 *)
(*                                                                         *)
(* The second part is the trigger of the iterations (loop/trigger.go,      *)
(* FrequentLoopsEnabled): the next one starts at once after a productive   *)
(* one, when an unschedulable pod appears, or after the scan interval.     *)
(* The informer of StartPodObserver may lag.                               *)
(*                                                                         *)
(* The last part is the debugging snapshot: an HTTP handler asks for it,   *)
(* the next iteration of the loop collects the data, and the handler       *)
(* answers with them.  The two meet in the state of the snapshotter, under *)
(* its mutex, and in the Trigger channel, whose capacity is 1.  A piece of *)
(* data is known by the iteration that set it: the present or an earlier   *)
(* one.                                                                    *)
(***************************************************************************)
EXTENDS Integers, FiniteSets

CONSTANTS Replicas, None,
          LeaseDuration, RenewDeadline,                          \* leaderElectionConfiguration
          MaxInactivityTime, MaxFailingTime, MaxStartupTime,     \* options of the health check
          Troubles                                               \* what may go wrong, and how often

\* What the leader election library asks of its configuration (NewLeaderElector
\* refuses a lease that does not outlast the deadline to renew it, and a
\* deadline shorter than a retry period), and that None is no replica.
ASSUME LeaseAssumption ==
  LeaseDuration \in Nat /\ RenewDeadline \in 1..(LeaseDuration - 1) /\ None \notin Replicas

VARIABLES trouble,   \* the troubles still to come
          reachable, \* the API server answers
          lease,     \* the holder of the lease
          phase,     \* every replica: "waiting", "building", "idle", "running", "hung" or "down"
          sinceLease,\* the leader's last renewal, or the last change of the lease a candidate saw
          unread,    \* the replicas that have not read the last change of the lease
          health     \* HealthCheck of every replica

replicaVars == <<trouble, reachable, lease, phase, sinceLease, unread, health>>

Longest == 1 + LeaseDuration
Later(age) == IF age < Longest THEN age + 1 ELSE age
Acting(r) == phase[r] \in {"building", "idle", "running", "hung"}

-----------------------------------------------------------------------------
\* HealthCheck: the ages of the last activity and of the last success.
NewHealthCheck ==
  [checkTimeout |-> FALSE, initializationComplete |-> FALSE, lastActivity |-> 0, lastSuccessfulRun |-> 0]
StartMonitoring(h) == [h EXCEPT !.checkTimeout = TRUE, !.lastActivity = 0, !.lastSuccessfulRun = 0]
UpdateLastActivity(h) == [h EXCEPT !.lastActivity = 0]
UpdateLastSuccessfulRun(h) ==
  [h EXCEPT !.lastSuccessfulRun = 0, !.lastActivity = 0, !.initializationComplete = TRUE]

\* Mutant: only failures of the iterations count, not that there are none.
TimedOutBySuccess(h) ==
  h.checkTimeout /\ h.initializationComplete /\ h.lastActivity = 0 /\ h.lastSuccessfulRun > MaxFailingTime

\* ServeHTTP: the first iteration has a time-out of its own.
TimedOut(h) ==
  LET activityTimeout == IF h.initializationComplete THEN MaxInactivityTime ELSE MaxStartupTime
      successTimeout == IF h.initializationComplete THEN MaxFailingTime ELSE MaxStartupTime
  IN  h.checkTimeout /\ (h.lastActivity > activityTimeout \/ h.lastSuccessfulRun > successTimeout)

-----------------------------------------------------------------------------
\* Leader election.  A candidate that has read the lease unchanged for its
\* whole duration, or finds it free or its own (the identity is the host name,
\* which a restart keeps), takes it and starts to lead.
TryToAcquire(r) ==
  /\ phase[r] = "waiting" /\ reachable
  /\ IF lease \in {None, r} \/ (r \notin unread /\ sinceLease[r] >= LeaseDuration)
     THEN /\ lease' = r
          /\ unread' = (unread \cup Replicas) \ {r}
          /\ phase' = [phase EXCEPT ![r] = "building"]
          /\ sinceLease' = [sinceLease EXCEPT ![r] = 0]
     ELSE /\ r \in unread
          /\ unread' = unread \ {r}
          /\ sinceLease' = [sinceLease EXCEPT ![r] = 0]
          /\ UNCHANGED <<lease, phase>>
  /\ UNCHANGED <<trouble, reachable, health>>

Renew(r) ==
  /\ Acting(r) /\ lease = r /\ reachable /\ sinceLease[r] > 0
  /\ sinceLease' = [sinceLease EXCEPT ![r] = 0]
  /\ unread' = Replicas \ {r}
  /\ UNCHANGED <<trouble, reachable, lease, phase, health>>

\* Mutant: the loop goes on after the lease was lost.
LosesLeaseOnly(r) ==
  /\ Acting(r) /\ sinceLease[r] >= RenewDeadline /\ lease = r
  /\ lease' = None
  /\ sinceLease' = [sinceLease EXCEPT ![r] = 0]
  /\ unread' = Replicas
  /\ UNCHANGED <<trouble, reachable, phase, health>>

\* OnStoppedLeading: a leader that could not renew within the deadline releases
\* the lease if it can (ReleaseOnCancel), and the process ends.
LostMaster(r) ==
  /\ Acting(r) /\ sinceLease[r] >= RenewDeadline
  /\ phase' = [phase EXCEPT ![r] = "down"]
  /\ \/ reachable /\ lease' = None /\ unread' = Replicas
     \/ ~reachable /\ UNCHANGED <<lease, unread>>
  /\ UNCHANGED <<trouble, reachable, sinceLease, health>>

-----------------------------------------------------------------------------
\* run: the autoscaler is built, which waits until the caches are filled and
\* ends the process on an error; then the monitoring starts.
BuildDone(r) ==
  /\ phase[r] = "building" /\ reachable
  /\ phase' = [phase EXCEPT ![r] = "idle"]
  /\ health' = [health EXCEPT ![r] = StartMonitoring(@)]
  /\ UNCHANGED <<trouble, reachable, lease, sinceLease, unread>>

BuildFails(r) ==
  /\ phase[r] = "building" /\ trouble.crashes > 0
  /\ phase' = [phase EXCEPT ![r] = "down"]
  /\ trouble' = [trouble EXCEPT !.crashes = @ - 1]
  /\ UNCHANGED <<reachable, lease, sinceLease, unread, health>>

\* RunAutoscalerOnce.
StartIteration(r) ==
  /\ phase[r] = "idle"
  /\ phase' = [phase EXCEPT ![r] = "running"]
  /\ health' = [health EXCEPT ![r] = UpdateLastActivity(@)]
  /\ UNCHANGED <<trouble, reachable, lease, sinceLease, unread>>

\* A transient error is as good as a success.
IterationSucceeds(r) ==
  /\ phase[r] = "running"
  /\ phase' = [phase EXCEPT ![r] = "idle"]
  /\ health' = [health EXCEPT ![r] = UpdateLastSuccessfulRun(@)]
  /\ UNCHANGED <<trouble, reachable, lease, sinceLease, unread>>

\* Iterations fail, one after the other, until the trouble is over.
IterationFails(r) ==
  /\ phase[r] = "running" /\ trouble.failing
  /\ phase' = [phase EXCEPT ![r] = "idle"]
  /\ UNCHANGED <<trouble, reachable, lease, sinceLease, unread, health>>

\* An iteration does not return, as on a lock or a call without a time-out.
IterationHangs(r) ==
  /\ phase[r] = "running" /\ trouble.hangs > 0
  /\ phase' = [phase EXCEPT ![r] = "hung"]
  /\ trouble' = [trouble EXCEPT !.hangs = @ - 1]
  /\ UNCHANGED <<reachable, lease, sinceLease, unread, health>>

\* A signal: ExitCleanUp, and the process ends without giving up the lease.
Terminated(r) ==
  /\ phase[r] # "down" /\ trouble.crashes > 0
  /\ phase' = [phase EXCEPT ![r] = "down"]
  /\ trouble' = [trouble EXCEPT !.crashes = @ - 1]
  /\ UNCHANGED <<reachable, lease, sinceLease, unread, health>>

-----------------------------------------------------------------------------
\* The kubelet probes /health-check and restarts.
Probe(r) ==
  /\ phase[r] # "down" /\ TimedOut(health[r])
  /\ phase' = [phase EXCEPT ![r] = "down"]
  /\ UNCHANGED <<trouble, reachable, lease, sinceLease, unread, health>>

\* main lists the nodes before it becomes a candidate, and ends on an error.
Restart(r) ==
  /\ phase[r] = "down" /\ reachable
  /\ phase' = [phase EXCEPT ![r] = "waiting"]
  /\ health' = [health EXCEPT ![r] = NewHealthCheck]
  /\ unread' = unread \cup {r}
  /\ UNCHANGED <<trouble, reachable, lease, sinceLease>>

Outage ==
  /\ reachable /\ trouble.outages > 0
  /\ reachable' = FALSE
  /\ trouble' = [trouble EXCEPT !.outages = @ - 1]
  /\ UNCHANGED <<lease, phase, sinceLease, unread, health>>

OutageEnds ==
  /\ ~reachable
  /\ reachable' = TRUE
  /\ UNCHANGED <<trouble, lease, phase, sinceLease, unread, health>>

TroubleOver ==
  /\ trouble.failing
  /\ trouble' = [trouble EXCEPT !.failing = FALSE]
  /\ UNCHANGED <<reachable, lease, phase, sinceLease, unread, health>>

\* A leader renews its lease every period while the API server answers, and is
\* never so late that it misses its own deadline; an iteration that does not
\* hang, and the wait before it, take at most one period each.
OnTime(r) ==
  /\ Acting(r) => IF reachable THEN sinceLease[r] = 0 ELSE sinceLease[r] < RenewDeadline
  /\ phase[r] \in {"idle", "running"} => health[r].lastActivity = 0

TimePasses ==
  /\ \A r \in Replicas : OnTime(r)
  /\ sinceLease' = [r \in Replicas |-> Later(sinceLease[r])]
  /\ health' = [r \in Replicas |->
                  IF health[r].checkTimeout
                  THEN [health[r] EXCEPT !.lastActivity = Later(@), !.lastSuccessfulRun = Later(@)]
                  ELSE health[r]]
  /\ UNCHANGED <<trouble, reachable, lease, phase, unread>>

ReplicasInit ==
  /\ trouble \in Troubles
  /\ reachable = TRUE
  /\ lease = None
  /\ phase = [r \in Replicas |-> "waiting"]
  /\ sinceLease = [r \in Replicas |-> 0]
  /\ unread = Replicas
  /\ health = [r \in Replicas |-> NewHealthCheck]

Elect(r) == TryToAcquire(r) \/ Renew(r) \/ LostMaster(r)
Iterate(r) == BuildDone(r) \/ StartIteration(r) \/ IterationSucceeds(r) \/ IterationFails(r)

ReplicasNext ==
  \/ \E r \in Replicas : Elect(r) \/ Iterate(r) \/ BuildFails(r) \/ IterationHangs(r) \/ Terminated(r)
                           \/ Probe(r) \/ Restart(r)
  \/ Outage \/ OutageEnds \/ TroubleOver
  \/ TimePasses

\* Every goroutine of a replica and the kubelet run, time passes, and troubles
\* do not last.
ReplicasFairness ==
  /\ \A r \in Replicas : WF_replicaVars(Elect(r)) /\ WF_replicaVars(Iterate(r)) /\ WF_replicaVars(Probe(r) \/ Restart(r))
  /\ WF_replicaVars(OutageEnds) /\ WF_replicaVars(TroubleOver) /\ WF_replicaVars(TimePasses)
ReplicasSpec == ReplicasInit /\ [][ReplicasNext]_replicaVars /\ ReplicasFairness

-----------------------------------------------------------------------------
\* Two replicas never act on the cluster at the same time: "we are committing a
\* suicide after losing mastership" (main), at the latest when the lease may
\* be taken.
OneReplicaActs == \A r, s \in Replicas : Acting(r) /\ Acting(s) => r = s

\* Whatever happens to the replicas, iterations go on succeeding: a hung or
\* failing leader is found out and restarted, and a lost one replaced.
Succeeded == \E r \in Replicas : phase[r] = "idle" /\ health[r].initializationComplete
                                   /\ health[r].lastSuccessfulRun = 0
IterationsGoOn == []<>Succeeded

-----------------------------------------------------------------------------
\* The trigger of the iterations.
CONSTANTS Pods, Productive      \* the pods that may appear, and how many iterations scale or process a request

VARIABLES pod,       \* every pod: its age for the API server, and who knows it
          podChan,   \* unschedulablePodChan holds a signal
          loop,      \* the loop: "waiting" in Wait, or "running"
          runs,      \* whether the last iteration, and the one before it, were productive
          productive \* productive iterations still to come

triggerVars == <<pod, podChan, loop, runs, productive>>

NoPod == [age |-> "absent", signalled |-> FALSE, missed |-> FALSE]

-----------------------------------------------------------------------------
\* The scheduler marks a pod unschedulable; after maxPodChangeAge it is old.
Unschedulable(p) ==
  /\ pod[p].age = "absent"
  /\ pod' = [pod EXCEPT ![p].age = "recent"]
  /\ UNCHANGED <<podChan, loop, runs, productive>>

GrowsOld(p) ==
  /\ pod[p].age = "recent"
  /\ pod' = [pod EXCEPT ![p].age = "old"]
  /\ UNCHANGED <<podChan, loop, runs, productive>>

\* The pod is scheduled, finished or deleted: it leaves the informer.
Leaves(p) ==
  /\ pod[p].age # "absent"
  /\ pod' = [pod EXCEPT ![p] = NoPod]
  /\ UNCHANGED <<podChan, loop, runs, productive>>

\* Mutant: the signal is lost unless the loop is waiting for it.
SignalUnbuffered(p) ==
  /\ pod[p].age # "absent" /\ ~pod[p].signalled
  /\ pod' = [pod EXCEPT ![p].signalled = TRUE, ![p].missed = pod[p].age = "recent"]
  /\ podChan' = (podChan \/ (pod[p].age = "recent" /\ loop = "waiting"))
  /\ UNCHANGED <<loop, runs, productive>>

\* The observer's handler, for a pod isRecentUnschedulablePod accepts: the
\* signal is dropped only when one is there already.
Signal(p) ==
  /\ pod[p].age # "absent" /\ ~pod[p].signalled
  /\ pod' = [pod EXCEPT ![p].signalled = TRUE, ![p].missed = pod[p].age = "recent"]
  /\ podChan' = (podChan \/ pod[p].age = "recent")
  /\ UNCHANGED <<loop, runs, productive>>

-----------------------------------------------------------------------------
\* An iteration starts; missed: pods signalled since the last one started.
WaitEnds ==
  /\ loop = "waiting" /\ loop' = "running"
  /\ pod' = [p \in Pods |-> [pod[p] EXCEPT !.missed = FALSE]]
  /\ UNCHANGED <<runs, productive>>

\* Wait is given the start of the iteration before the last one.
WaitedNot == (runs[1] \/ runs[2]) /\ podChan' = FALSE /\ WaitEnds
WaitForPod == ~(runs[1] \/ runs[2]) /\ podChan /\ podChan' = FALSE /\ WaitEnds
\* select may choose the timer although a signal is there, which then stays.
WaitForTimer == ~(runs[1] \/ runs[2]) /\ WaitEnds /\ UNCHANGED podChan

EndIteration ==
  /\ loop = "running" /\ loop' = "waiting"
  /\ \/ runs' = <<FALSE, runs[1]>> /\ UNCHANGED productive
     \/ productive > 0 /\ runs' = <<TRUE, runs[1]>> /\ productive' = productive - 1
  /\ UNCHANGED <<pod, podChan>>

TriggerInit ==
  /\ pod = [p \in Pods |-> NoPod]
  /\ podChan = FALSE /\ loop = "waiting" /\ runs = <<FALSE, FALSE>>
  /\ productive = Productive

Wait == WaitedNot \/ WaitForPod \/ WaitForTimer

TriggerNext ==
  \/ \E p \in Pods : Unschedulable(p) \/ GrowsOld(p) \/ Leaves(p) \/ Signal(p)
  \/ Wait \/ EndIteration

TriggerSpec == TriggerInit /\ [][TriggerNext]_triggerVars

-----------------------------------------------------------------------------
\* No wake-up is lost: while the loop waits for the whole scan interval, no pod
\* was signalled since the last iteration started.
NoWakeUpLost ==
  loop = "waiting" /\ ~(runs[1] \/ runs[2]) /\ ~podChan => \A p \in Pods : ~pod[p].missed

-----------------------------------------------------------------------------
\* The debugging snapshot.
CONSTANTS Clients, Requests     \* the handlers, and how many requests they make

Pieces == {"NodeList", "UnscheduledPodsCanBeScheduled", "TemplateNodes"}

VARIABLES state,     \* *d.State
          trigger,   \* d.Trigger holds a token
          snapshot,  \* DebuggingSnapshotImpl: the pieces, and the error message
          handler,   \* the pc of every handler: "none", "waiting", "triggered" or "cancelled"
          cancelled, \* the handlers whose context is done
          iteration, \* where the loop is
          covered,   \* handlers whose request came before the present iteration began
          requests   \* requests still to come

debuggingVars == <<state, trigger, snapshot, handler, cancelled, iteration, covered, requests>>

NoSnapshot == [piece |-> [p \in Pieces |-> "none"], error |-> FALSE]

-----------------------------------------------------------------------------
\* ResponseHandler: one request at a time.
Request(h) ==
  /\ handler[h] = "none" /\ requests > 0
  /\ requests' = requests - 1
  /\ \/ state # "LISTENING" /\ UNCHANGED <<state, handler>>
     \/ /\ state = "LISTENING"
        /\ state' = "TRIGGER_ENABLED"
        /\ handler' = [handler EXCEPT ![h] = "waiting"]
  /\ UNCHANGED <<trigger, snapshot, cancelled, iteration, covered>>

\* The client goes away, or Cleanup cancels the request.
Cancel(h) ==
  /\ handler[h] = "waiting" /\ h \notin cancelled
  /\ cancelled' = cancelled \cup {h}
  /\ UNCHANGED <<state, trigger, snapshot, handler, iteration, covered, requests>>

Select(h) ==
  /\ handler[h] = "waiting"
  /\ \/ trigger /\ trigger' = FALSE /\ handler' = [handler EXCEPT ![h] = "triggered"]
     \/ h \in cancelled /\ handler' = [handler EXCEPT ![h] = "cancelled"] /\ UNCHANGED trigger
  /\ UNCHANGED <<state, snapshot, cancelled, iteration, covered, requests>>

Done(h) ==
  /\ state' = "LISTENING"
  /\ snapshot' = NoSnapshot
  /\ handler' = [handler EXCEPT ![h] = "none"]
  /\ cancelled' = cancelled \ {h}
  /\ covered' = covered \ {h}

Answer(h) ==
  /\ handler[h] = "triggered"
  /\ Done(h)
  /\ UNCHANGED <<trigger, iteration, requests>>

\* Mutant: a token that came too late stays in the channel.
AbortKeepsToken(h) ==
  /\ handler[h] = "cancelled"
  /\ Done(h)
  /\ UNCHANGED <<trigger, iteration, requests>>

Abort(h) ==
  /\ handler[h] = "cancelled"
  /\ Done(h)
  /\ trigger' = FALSE
  /\ UNCHANGED <<iteration, requests>>

-----------------------------------------------------------------------------
IsDataCollectionAllowedNoLock == state \in {"START_DATA_COLLECTION", "DATA_COLLECTED"}

\* A handler that was woken is done before the next iteration begins.
HandlersServed == \A h \in Clients : handler[h] # "none" => handler[h] = "waiting" /\ h \notin cancelled /\ ~trigger

\* RunOnce begins.
StartDataCollection ==
  /\ iteration = "none"
  /\ HandlersServed
  /\ iteration' = "templates"
  /\ covered' = {h \in Clients : handler[h] # "none"}
  /\ state' = IF state = "TRIGGER_ENABLED" THEN "START_DATA_COLLECTION" ELSE state
  /\ snapshot' = [snapshot EXCEPT !.piece = [p \in Pieces |-> IF @[p] = "none" THEN "none" ELSE "earlier"]]
  /\ UNCHANGED <<trigger, handler, cancelled, requests>>

SetPiece(p, collected) ==
  IF IsDataCollectionAllowedNoLock
  THEN /\ snapshot' = [snapshot EXCEPT !.piece[p] = "present"]
       /\ state' = collected
  ELSE UNCHANGED <<snapshot, state>>

SetTemplateNodes ==
  /\ iteration = "templates" /\ iteration' = "pods"
  /\ SetPiece("TemplateNodes", state)
  /\ UNCHANGED <<trigger, handler, cancelled, covered, requests>>

\* Set only when pods fit on the nodes there are.
SetUnscheduledPodsCanBeScheduled ==
  /\ iteration = "pods" /\ iteration' = "nodes"
  /\ \/ SetPiece("UnscheduledPodsCanBeScheduled", "DATA_COLLECTED")
     \/ UNCHANGED <<snapshot, state>>
  /\ UNCHANGED <<trigger, handler, cancelled, covered, requests>>

SetClusterNodes ==
  /\ iteration = "nodes" /\ iteration' = "end"
  /\ SetPiece("NodeList", "DATA_COLLECTED")
  /\ UNCHANGED <<trigger, handler, cancelled, covered, requests>>

\* The deferred Flush: RunOnce may return anywhere.
Flush ==
  /\ iteration # "none" /\ iteration' = "none"
  /\ IF IsDataCollectionAllowedNoLock
     THEN /\ ~trigger /\ trigger' = TRUE
          /\ snapshot' = [snapshot EXCEPT !.error = @ \/ state = "START_DATA_COLLECTION"]
     ELSE UNCHANGED <<trigger, snapshot>>
  /\ UNCHANGED <<state, handler, cancelled, covered, requests>>

-----------------------------------------------------------------------------
DebuggingInit ==
  /\ state = "LISTENING" /\ trigger = FALSE /\ snapshot = NoSnapshot
  /\ handler = [h \in Clients |-> "none"]
  /\ cancelled = {} /\ covered = {} /\ iteration = "none"
  /\ requests = Requests

Handle(h) == Select(h) \/ Answer(h) \/ Abort(h)
Collect == StartDataCollection \/ SetTemplateNodes \/ SetUnscheduledPodsCanBeScheduled \/ SetClusterNodes
         \/ Flush
DebuggingNext ==
  \/ \E h \in Clients : Request(h) \/ Cancel(h) \/ Handle(h)
  \/ Collect

\* The handlers' goroutines run, and the loop goes on.
DebuggingFairness == (\A h \in Clients : WF_debuggingVars(Handle(h))) /\ WF_debuggingVars(Collect)
DebuggingSpec == DebuggingInit /\ [][DebuggingNext]_debuggingVars /\ DebuggingFairness

-----------------------------------------------------------------------------
\* A snapshot that is answered without an error was collected by one iteration,
\* from its start, which began after the request, and holds some data: "the
\* trigger can be called mid-loop leading to partial data collection"
\* (StartDataCollection) is avoided, whatever requests are cancelled.
AnswerOfOneLoop(h) ==
  handler[h] = "triggered" /\ handler'[h] = "none" /\ ~snapshot.error =>
     /\ h \in covered
     /\ \A p \in Pieces : snapshot.piece[p] # "earlier"
     /\ snapshot.piece["NodeList"] = "present" \/ snapshot.piece["UnscheduledPodsCanBeScheduled"] = "present"
AnswersOfOneLoop == [][\A h \in Clients : AnswerOfOneLoop(h)]_debuggingVars

\* Every request that was accepted is answered or aborted.
Answered == \A h \in Clients : handler[h] = "none"
RequestsAnswered == []<>Answered
==============================================================================
