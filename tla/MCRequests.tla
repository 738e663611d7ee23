------------------------------ MODULE MCRequests ------------------------------
(* Room asked for ahead of pods: provisioning requests, and capacity buffers.  Neither reads the  *)
(* other's objects, so the run starts with a choice of one of the two and of a deployment of it,  *)
(* and the state of the other stays unused.                                                       *)
EXTENDS Integers, TLC

CONSTANTS None, Absent

VARIABLES service, conf, stale,
          server, cache, age, templates, backoff, scheduled, regular, capacity, pc, mode, injected,
          unhelped, free, productive, left, blind, overlooked, lastSide,          \* requests
          spec, status, source, managed, quota, seen, managedSeen, queued, copy, behind, todo, failed, fakes   \* buffers

requestsOnly == <<server, cache, age, templates, backoff, scheduled, regular, capacity, pc, mode, injected,
                  unhelped, free, productive, left, blind, overlooked, lastSide>>
buffersOnly == <<spec, status, source, managed, quota, seen, managedSeen, queued, copy, behind, todo, failed, fakes>>
vars == <<service, conf, stale, requestsOnly, buffersOnly>>
-----------------------------------------------------------------------------
\* Two requests.  Durations in scan intervals: 1 is the first retry and the booking, 2 the longest
\* retry and the life of a finished request; 9 never comes.
Names == {"a", "b"}
Req(p, c, i, n, nr) == [prefix |-> p, class |-> c, instance |-> i, count |-> n, noRetry |-> nr]
Check(n) == Req("", "check-capacity", "", n, FALSE)
Once(n) == Req("", "check-capacity", "", n, TRUE)
Atom(n) == Req("", "best-effort-atomic", "", n, FALSE)
Two(x, y) == [r \in Names |-> IF r = "a" THEN x ELSE y]
Budget == [faults |-> 0, edits |-> 0, templates |-> 0, restarts |-> 0, regular |-> 0]
Deployment == [spec |-> Two(Check(1), Check(2)), instance |-> "", batch |-> 2, maxUpdated |-> 1, expirationTime |-> 9,
               capacity |-> 2, maxCapacity |-> 2, left |-> [Budget EXCEPT !.edits = 1]]
RequestSettings ==
    {Deployment,
     [Deployment EXCEPT !.spec = Two(Check(1), Atom(1)), !.batch = 0, !.maxUpdated = 2, !.expirationTime = 2,
                        !.capacity = 1, !.maxCapacity = 2, !.left = [Budget EXCEPT !.faults = 1]],
     [Deployment EXCEPT !.spec = Two(Once(1), Atom(1)), !.expirationTime = 2, !.capacity = 0, !.maxCapacity = 1,
                        !.left = [Budget EXCEPT !.faults = 1, !.templates = 1]],
     [Deployment EXCEPT !.spec = Two(Req("x", "check-capacity", "", 1, FALSE), Req("", "check-capacity", "x", 1, FALSE)),
                        !.instance = "x", !.batch = 1, !.maxUpdated = 2, !.expirationTime = 1, !.capacity = 1,
                        !.maxCapacity = 2, !.left = [Budget EXCEPT !.restarts = 1, !.regular = 1]]}
PR == INSTANCE ProvisioningRequests WITH
    Requests <- Names, Settings <- RequestSettings, InitialRetry <- 1, MaxBackoff <- 2, ReservationTime <- 1, TerminalTTL <- 2

\* Buffers on pod templates and on workloads; sizes in units of the quota.
OnTemplate(n) == [kind |-> "template", replicas |-> n, percentage |-> None, limit |-> None, strategy |-> "active"]
OnWorkload(p, l) == [kind |-> "workload", replicas |-> None, percentage |-> p, limit |-> l, strategy |-> "active"]
Src(size, replicas, live) == [size |-> size, replicas |-> replicas, live |-> live]
Template(size) == Src(size, 0, None)
BufferSettings ==
    {[spec0 |-> <<OnTemplate(2), OnTemplate(1)>>,
      specs |-> <<{OnTemplate(3)}, {[OnTemplate(1) EXCEPT !.strategy = "other"], Absent}>>,
      source0 |-> <<Template(1), Template(1)>>, sources |-> <<{Template(2)}, {Absent}>>,
      quota0 |-> 4, quotas |-> {2}, scope |-> <<"matches", "matches">>, edits |-> 1, faults |-> 0, restarts |-> 0],
     [spec0 |-> <<OnWorkload(50, 4)>>, specs |-> <<{OnWorkload(None, 3), OnWorkload(None, None), Absent}>>,
      source0 |-> <<Src(1, 3, None)>>, sources |-> <<{Src(1, 3, 2), Absent}>>,
      quota0 |-> 2, quotas |-> {Absent, -1}, scope |-> <<"matches">>, edits |-> 1, faults |-> 1, restarts |-> 0],
     [spec0 |-> <<OnTemplate(2)>>, specs |-> <<{}>>,
      source0 |-> <<Template(1)>>, sources |-> <<{Template(2), Template(1), Template(0)}>>,
      quota0 |-> 3, quotas |-> {}, scope |-> <<"matches">>, edits |-> 2, faults |-> 0, restarts |-> 1],
     [spec0 |-> <<OnTemplate(2), OnTemplate(2)>>, specs |-> <<{}, {}>>,
      source0 |-> <<Template(1), Absent>>, sources |-> <<{}, {Template(1)}>>,
      quota0 |-> 3, quotas |-> {}, scope |-> <<"matches", "error">>, edits |-> 1, faults |-> 1, restarts |-> 0]}
CB == INSTANCE CapacityBuffers WITH Settings <- BufferSettings
-----------------------------------------------------------------------------
Off == "unused"
RequestsOff == /\ server = Off /\ cache = Off /\ age = Off /\ templates = Off /\ backoff = Off /\ scheduled = Off
               /\ regular = Off /\ capacity = Off /\ pc = Off /\ mode = Off /\ injected = Off /\ unhelped = Off /\ free = Off
               /\ productive = Off /\ left = Off /\ blind = Off /\ overlooked = Off /\ lastSide = Off
BuffersOff == /\ spec = Off /\ status = Off /\ source = Off /\ managed = Off /\ quota = Off /\ seen = Off /\ managedSeen = Off
              /\ queued = Off /\ copy = Off /\ behind = Off /\ todo = Off /\ failed = Off /\ fakes = Off

Init ==
    \/ service = "requests" /\ PR!Init /\ BuffersOff
    \/ service = "buffers" /\ CB!Init /\ RequestsOff

RequestsKeep == UNCHANGED <<service, buffersOnly>>
BuffersKeep == UNCHANGED <<service, requestsOnly>>
Next ==
    \/ service = "requests" /\ PR!Next /\ RequestsKeep
    \/ service = "buffers" /\ CB!Next /\ BuffersKeep

MainStep ==
    \/ service = "requests" /\ PR!Loop /\ RequestsKeep
    \/ service = "buffers" /\ CB!Work /\ BuffersKeep
InjectStep == service = "buffers" /\ CB!Process /\ BuffersKeep
\* a scan interval, or a resync period, in which the events sent before arrive
TimePasses ==
    \/ service = "requests" /\ PR!WaitScanInterval /\ RequestsKeep
    \/ service = "buffers" /\ CB!Resync /\ BuffersKeep
Fairness == WF_vars(MainStep) /\ WF_vars(InjectStep) /\ SF_vars(TimePasses)
Spec == Init /\ [][Next]_vars /\ Fairness
-----------------------------------------------------------------------------
\* The room promised to requests fits into the cluster together (see PR!BookingsFit).
BookingsFit == service = "requests" => PR!BookingsFit

\* The two writers of a buffer's status do not undo each other (see CB!WritersDoNotUndo).
WritersDoNotUndo == [][service = "buffers" => CB!LeavesTheOthers]_vars

\* Every request ends up provisioned, failed or deleted on the server (see PR!RequestsSettle), and
\* buffers end up with what their specs, templates and the quota call for (see CB!BuffersConverge).
RequestsSettle ==
    /\ \A r \in Names : []<>(service = "requests" /\ PR!SupportedProvisioningClass(r) => PR!Settled(server[r]))
    /\ <>[](service = "buffers" => CB!Converged)
=============================================================================
