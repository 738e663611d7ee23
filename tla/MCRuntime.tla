------------------------------ MODULE MCRuntime ------------------------------
(* What lives as long as the process and runs beside the iterations: the backoff of the node groups  *)
(* (Backoff), the replicas with their lease and health check, the trigger of the next iteration and  *)
(* the debugging snapshot (AutoscalerProcess), the cache of the instances and the published status   *)
(* (ClusterStateUtils).  They share no state, so the run starts with a choice of one of them, and    *)
(* the others stay as they were made.                                                                *)
EXTENDS Backoff, AutoscalerProcess, ClusterStateUtils

CONSTANTS r1, r2

VARIABLE part

allVars == <<part, vars, replicaVars, triggerVars, debuggingVars, cacheVars, statusVars>>
-----------------------------------------------------------------------------
\* Two replicas: one hangs and one crashes; the API server is away while iterations fail, or while a
\* replica crashes.  The lease lasts longer than the deadline to renew it, as 15s do to 10s.
Troubling(c, h, o, f) == [crashes |-> c, hangs |-> h, outages |-> o, failing |-> f]
SomeTroubles == {Troubling(1, 1, 0, FALSE), Troubling(0, 0, 1, TRUE), Troubling(1, 0, 1, FALSE)}
NoTrouble == Troubling(1, 0, 1, FALSE)
TwoPods == {"p", "q"}

\* A group in all its states, and one that comes and goes; either has candidates for scale-down.
Fact(t, u, h, s, c) == [there |-> t, upcoming |-> u, healthy |-> h, scalingUp |-> s, code |-> c]
Calm == Fact(TRUE, FALSE, TRUE, FALSE, "none")
BusyGroup == CHOOSE g \in Groups : TRUE
Input(x, y, looks, x1, y1) ==
    [facts |-> [g \in Groups |-> IF g = BusyGroup THEN x ELSE y], healthy |-> x.healthy,
     looks |-> looks, candidates |-> [g \in Groups |-> IF g = BusyGroup THEN x1 ELSE y1]]
SomeInputs ==
    {Input(Fact(TRUE, TRUE, FALSE, FALSE, "none"), Calm, TRUE, 0, 1), Input(Calm, Absent, TRUE, 1, 1),
     Input(Fact(TRUE, FALSE, TRUE, TRUE, "none"), Calm, FALSE, 0, 0), Input(Calm, Absent, FALSE, 0, 0),
     Input(Fact(TRUE, FALSE, TRUE, FALSE, "quota"), Calm, TRUE, 0, 0),
     Input(Fact(TRUE, FALSE, FALSE, FALSE, "unknown"), Calm, FALSE, 0, 0)}
-----------------------------------------------------------------------------
RuntimeInit ==
    /\ part \in {"backoff", "replicas", "trigger", "debugging", "cache", "status"}
    /\ Init /\ ReplicasInit /\ TriggerInit /\ DebuggingInit /\ CacheInit /\ StatusInit
    /\ part # "replicas" => trouble = NoTrouble
    /\ part # "status" => configMap = Nowhere

Only(p, step, others) == part = p /\ step /\ UNCHANGED <<part, others>>
Replicating(step) == Only("replicas", step, <<vars, triggerVars, debuggingVars, cacheVars, statusVars>>)
Debugging(step) == Only("debugging", step, <<vars, replicaVars, triggerVars, cacheVars, statusVars>>)
Caching(step) == Only("cache", step, <<vars, replicaVars, triggerVars, debuggingVars, statusVars>>)
Showing(step) == Only("status", step, <<vars, replicaVars, triggerVars, debuggingVars, cacheVars>>)
RuntimeNext ==
    \/ Only("backoff", Next, <<replicaVars, triggerVars, debuggingVars, cacheVars, statusVars>>)
    \/ Replicating(ReplicasNext)
    \/ Only("trigger", TriggerNext, <<vars, replicaVars, debuggingVars, cacheVars, statusVars>>)
    \/ Debugging(DebuggingNext)
    \/ Caching(CacheNext)
    \/ Showing(StatusNext)

\* Every goroutine of the replicas and the kubelet run, time passes, and troubles do not last; the HTTP
\* handlers run, and the loop goes on; the refresh of the cache is repeated, and a fetch stores; every
\* iteration writes the status.
OneRuns(r) ==
    \/ Replicating(Iterate(r))
    \/ Debugging(Handle(r))
RuntimeSpec ==
    /\ RuntimeInit /\ [][RuntimeNext]_allVars
    /\ \A r \in {r1, r2} :
         /\ WF_allVars(OneRuns(r))
         /\ WF_allVars(Replicating(Elect(r)))
         /\ WF_allVars(Replicating(Probe(r) \/ Restart(r)))
    /\ WF_allVars(Replicating(TimePasses) \/ Debugging(Collect) \/ Caching(Refresh) \/ Showing(StatusLoop))
    /\ WF_allVars(Replicating(OutageEnds))
    /\ WF_allVars(Replicating(TroubleOver))
    /\ \A g \in Groups : WF_allVars(Caching(FetchStores(g)))
-----------------------------------------------------------------------------
\* The process gets over its troubles: iterations go on succeeding, although replicas hang, fail, crash
\* and lose the lease; requests for snapshots are answered; the cached instances catch up with the
\* cloud, whatever overtaken refreshes and failed calls stored; the status is shown although its
\* ConfigMap is edited and deleted and the API server fails.
RuntimeGoesOn ==
    []<>( /\ part = "replicas" => Succeeded
          /\ part = "debugging" => Answered
          /\ part = "cache" => Accurate
          /\ part = "status" => Shown )
==============================================================================
