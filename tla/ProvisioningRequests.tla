------------------------ MODULE ProvisioningRequests ------------------------
(***************************************************************************)
(* Provisioning requests: a user asks for room for a number of pods at     *)
(* once.  The loop keeps the conditions of the requests (Refresh), books   *)
(* the room of the provisioned ones in its snapshot and injects the pods   *)
(* of the next request (Process), and lets the provisioning class of that  *)
(* request look for room, or the usual scale-up help the other pods, each  *)
(* in its turn (ScaleUp).                                                  *)
(*                                                                         *)
(* The loop reads requests from an informer's cache and changes the        *)
(* conditions of the cached objects in place before it writes them, so     *)
(* cache and server differ in both directions: an event that has not       *)
(* arrived, and a condition whose write failed.  Pods of a request are     *)
(* alike and room is a number of pods.  Durations are in scan intervals;   *)
(* an age stops growing once it exceeds every duration.                    *)
(***************************************************************************)
EXTENDS Integers, FiniteSets, SequencesExt

CONSTANTS
  Requests,
  Settings,          \* the deployments to start from, see Setting
  InitialRetry, MaxBackoff,
  ReservationTime, TerminalTTL,
  None, Absent

(* A deployment: the spec of each request, and the options of the autoscaler. *)
Setting ==
  [spec: [Requests -> [prefix: STRING, class: STRING, instance: STRING, count: Nat, noRetry: BOOLEAN]],
   instance: STRING,      \* CheckCapacityProcessorInstance
   batch: Nat,            \* largest batch of check-capacity requests; 0: batch processing is off
   maxUpdated: Nat,       \* conditions written by one refresh
   expirationTime: Nat,
   capacity: Nat, maxCapacity: Nat,
   left: [faults: Nat, edits: Nat, templates: Nat, restarts: Nat, regular: Nat]]

VARIABLES
  conf,        \* the Setting
  server,      \* [Requests -> status or Absent], as the API server has it
  cache,       \* the informer's objects, with the changes made in place
  stale,       \* requests whose object on the server is newer than the cached one
  age,         \* time since the creation of each request
  templates,   \* requests whose pod templates exist
  backoff,     \* backoffDuration of the injector
  scheduled,   \* real pods of each request that run
  regular,     \* other pods: [pending, bound]
  capacity,    \* pods the nodes of the cluster can hold
  pc, mode,    \* phase of the loop; ProvisioningRequestScaleUpMode
  injected,    \* request whose pods are in the list of unschedulable pods
  unhelped,    \* whether another pod is in that list
  free,        \* room left in the snapshot
  productive,  \* whether the next loop starts at once
  left,        \* budgets of the environment
  blind,       \* history: the bookings that were not in view when room was booked
  overlooked,  \* history: room was given away while a booking was not in view
  lastSide     \* history: whose turn the last scale-up was

vars == <<conf, server, cache, stale, age, templates, backoff, scheduled, regular, capacity,
          pc, mode, injected, unhelped, free, productive, left, blind, overlooked, lastSide>>

world == <<scheduled, regular, capacity, templates, age>>
-----------------------------------------------------------------------------
New == [prov |-> "none", provAge |-> 0, failed |-> FALSE, failedAge |-> 0, expired |-> FALSE]

Old == Max({MaxBackoff, ReservationTime, TerminalTTL}) + 1

Of(r) == conf.spec[r]

Count(r) == Of(r).count

SupportedCheckCapacityClass(r) ==
  LET s == Of(r) IN
  /\ s.class = "check-capacity"
  /\ IF conf.instance = "" THEN s.instance = "" /\ s.prefix = ""
     ELSE IF s.instance # "" THEN s.instance = conf.instance /\ s.prefix = ""
     ELSE s.prefix = conf.instance

SupportedProvisioningClass(r) ==
  IF Of(r).class = "best-effort-atomic" /\ Of(r).prefix = ""
  THEN conf.instance = "" ELSE SupportedCheckCapacityClass(r)

(* AddOrUpdateCondition.  Nothing reads the Accepted condition, so only the *)
(* writing of it is kept.                                                    *)
Provisioned(s) == [s EXCEPT !.prov = "true", !.provAge = 0]
NotProvisioned(s) == [s EXCEPT !.prov = "false", !.provAge = 0]
Failed(s) == [s EXCEPT !.failed = TRUE, !.failedAge = 0]
BookingExpired(s) == [s EXCEPT !.expired = TRUE]

Booked(s) == s # Absent /\ ~s.failed /\ ~s.expired /\ s.prov = "true"

ShouldCapacityBeBooked(r, s) == SupportedProvisioningClass(r) /\ Booked(s)

Settled(s) == s = Absent \/ s.prov = "true" \/ s.failed

Pods(R) == MapThenSumSet(Count, R)

Used == MapThenSumSet(LAMBDA r : scheduled[r], Requests) + regular.bound
-----------------------------------------------------------------------------
(* UpdateStatus of the objects `new' of the requests U: refused for an object *)
(* that is not the newest.  Calls of `bad' fail, those of `lost' after taking *)
(* effect.                                                                    *)
Accepts(r) == server[r] # Absent /\ r \notin stale

Refused(bad) == {r \in Requests : ~Accepts(r)} \cup bad

Wrote(U, bad, lost) == {r \in U : Accepts(r)} \ (bad \ lost)

UpdateProvisioningRequests(U, new, bad, lost) ==
  LET W == Wrote(U, bad, lost) IN
  /\ server' = [r \in Requests |-> IF r \in W THEN new[r] ELSE server[r]]
  /\ stale' = stale \cup W

Faults(U, bad, lost) ==
  /\ bad \subseteq U /\ lost \subseteq bad
  /\ Cardinality(bad) <= left.faults
  /\ left' = [left EXCEPT !.faults = @ - Cardinality(bad)]

Cached == {r \in Requests : cache[r] # Absent}

(* Bookings the server shows and the cache does not. *)
Unseen == {r \in Requests : Booked(server[r]) /\ ~Booked(cache[r])}

Admits(A) == overlooked' = (overlooked \/ \E r \in A : blind \ {r} # {})
-----------------------------------------------------------------------------
(* Refresh, at the start of a loop: bookings expire, requests nobody could *)
(* serve fail, and old ones are deleted.                                    *)
Open(r) == SupportedProvisioningClass(r) /\ ~cache[r].expired /\ ~cache[r].failed

ToExpire == {r \in Cached : Open(r) /\ cache[r].prov = "true" /\ cache[r].provAge > ReservationTime}

ToFail == {r \in Cached : Open(r) /\ cache[r].prov # "true" /\ age[r] > conf.expirationTime}

(* In whatever order the lister gives them, up to maxUpdated are written. *)
Chosen(expired, failed) ==
  /\ Cardinality(expired) = Min({Cardinality(ToExpire), conf.maxUpdated})
  /\ Cardinality(failed) <= conf.maxUpdated
  /\ Cardinality(ToExpire) < conf.maxUpdated
       => Cardinality(failed) >= Min({Cardinality(ToFail), conf.maxUpdated - Cardinality(ToExpire)})

DeleteOldProvisioned(c) ==
  {r \in Cached : c[r].prov # "none" /\ c[r].provAge > TerminalTTL}

DeleteOldProvReqs(c) ==
  {r \in Cached : \/ c[r].prov # "none" /\ c[r].provAge > TerminalTTL
                  \/ c[r].failed /\ c[r].failedAge > TerminalTTL}

Refresh ==
  /\ pc = "refresh"
  /\ \E expired \in SUBSET ToExpire, failed \in SUBSET ToFail :
       LET c == [r \in Requests |-> IF r \in expired THEN BookingExpired(cache[r])
                                    ELSE IF r \in failed THEN Failed(cache[r]) ELSE cache[r]]
           gone == DeleteOldProvReqs(c)
           U == expired \cup failed
       IN /\ Chosen(expired, failed)
          /\ \E bad \in SUBSET (U \cup gone), lost \in SUBSET (U \cup gone) :
               LET dead == gone \ (bad \ lost) IN
               /\ Faults(U \cup gone, bad, lost)
               /\ server' = [r \in Requests |-> IF r \in dead THEN Absent
                                                ELSE IF r \in Wrote(U, bad, lost) THEN c[r] ELSE server[r]]
               /\ stale' = stale \cup Wrote(U, bad, lost) \cup {r \in dead : server[r] # Absent}
          /\ cache' = c
  /\ pc' = "process" /\ productive' = FALSE
  /\ UNCHANGED <<conf, backoff, mode, injected, unhelped, free, blind, overlooked, lastSide>> /\ UNCHANGED world
-----------------------------------------------------------------------------
(* The injector: which request may be tried, and how long the next one waits. *)
RetryTime(b, r) == IF r \in DOMAIN b THEN b[r] ELSE InitialRetry

IsAvailableForProvisioning(b, r) ==
  LET s == cache[r] IN
  ~s.failed /\ \/ s.prov = "none"
               \/ s.prov = "false" /\ s.provAge > RetryTime(b, r)

(* The durations after the requests R were asked whether they are available. *)
BackoffAfter(b, R) ==
  LET done == {r \in R : cache[r].failed \/ cache[r].prov = "true"}
      again == {r \in R \ done : cache[r].prov = "false" /\ IsAvailableForProvisioning(b, r)}
  IN [r \in (DOMAIN b \ done) \cup again |->
        IF r \in again THEN Min({2 * RetryTime(b, r), MaxBackoff}) ELSE b[r]]

Candidate(b, r) == SupportedProvisioningClass(r) /\ IsAvailableForProvisioning(b, r)

shouldMarkAsAccepted(r) == conf.batch = 0 \/ ~SupportedCheckCapacityClass(r)

(* GetPodsFromNextRequest walks over the requests in any order: it passes  *)
(* over `passed', of which it fails those without templates and cannot     *)
(* accept the others, and takes `next'.                                    *)
Walk(passed, next, bad) ==
  /\ next = None => passed = Cached
  /\ \A r \in passed : Candidate(backoff, r) /\ r \in templates =>
        shouldMarkAsAccepted(r) /\ r \in Refused(bad)
  /\ next # None => /\ Candidate(backoff, next) /\ next \in templates
                    /\ shouldMarkAsAccepted(next) => next \notin Refused(bad)

(* bookCapacity *)
ToBook == {r \in Cached : ShouldCapacityBeBooked(r, cache[r])}

Consumed == {r \in ToBook : scheduled[r] >= Count(r)}

(* Pods that belong to a request wait for their booking and are filtered   *)
(* out, so only other pods are left without help.                          *)
Unhelped(helped) == regular.pending > helped

(* The pod list processors in their order: other pods that fit are taken   *)
(* off the list, the pods of the next request join it, and the room of     *)
(* provisioned requests is booked.                                         *)
Process ==
  /\ pc = "process"
  /\ \E passed \in SUBSET Cached, next \in Cached \cup {None} :
       LET asked == {r \in passed \cup ({next} \ {None}) : SupportedProvisioningClass(r)}
           tried == {r \in passed : Candidate(backoff, r)}
           accepted == {r \in (tried \cap templates) \cup ({next} \ {None}) : shouldMarkAsAccepted(r)}
           broken == (tried \ templates) \cup (ToBook \ (Consumed \cup templates))
           c == [r \in Requests |-> IF r \in broken THEN Failed(cache[r])
                                    ELSE IF r \in Consumed THEN BookingExpired(cache[r]) ELSE cache[r]]
           U == broken \cup accepted \cup Consumed
           room == capacity - Used
           helped == Min({room, regular.pending})
       IN /\ next \notin passed
          /\ \E bad \in SUBSET U, lost \in SUBSET U :
               /\ Faults(U, bad, lost)
               /\ Walk(passed, next, bad)
               /\ UpdateProvisioningRequests(U, c, bad, lost)
               /\ productive' = (next # None \/ tried \ templates # {})
          /\ cache' = c
          /\ backoff' = BackoffAfter(backoff, asked)
          /\ injected' = next /\ blind' = Unseen
          /\ unhelped' = Unhelped(helped)
          /\ free' = Max({0, room - helped - Pods((ToBook \ Consumed) \cap templates)})
  /\ pc' = "scaleup"
  /\ UNCHANGED <<conf, mode, overlooked, lastSide>> /\ UNCHANGED world
-----------------------------------------------------------------------------
(* checkCapacity of the requests of a batch one after the other, each on    *)
(* what the ones before it left; `batch' is a sequence.                     *)
FitsAlone(batch, i) == Count(batch[i]) <= free

FitsAfter(batch, i) ==
  LET before[j \in 0 .. i] ==
        IF j = 0 THEN free
        ELSE IF Count(batch[j]) <= before[j - 1] THEN before[j - 1] - Count(batch[j]) ELSE before[j - 1]
  IN Count(batch[i]) <= before[i - 1]

NoRoom(r) == IF Of(r).noRetry THEN Failed(cache[r]) ELSE NotProvisioned(cache[r])

Checked(batch, i) ==
  IF FitsAfter(batch, i) THEN Provisioned(cache[batch[i]]) ELSE NoRoom(batch[i])

(* Provision of the check-capacity class for a batch: every request of the *)
(* batch is accepted, the first `done' are checked before the timebox ends *)
(* and written, except that the check of `error' failed after it set the   *)
(* condition; requests of `broken' have no templates.                      *)
CheckCapacity(batch, done, error, broken) ==
  LET at(r) == CHOOSE i \in DOMAIN batch : batch[i] = r
      c == [r \in Requests |->
              IF r \in broken THEN Failed(cache[r])
              ELSE IF r \notin Range(batch) \/ at(r) > done THEN cache[r]
              ELSE IF r \in error THEN NoRoom(r) ELSE Checked(batch, at(r))]
      U == (broken \cup {batch[i] : i \in 1 .. done}) \ error
      found == {r \in U \ broken : c[r].prov = "true"}
  IN /\ cache' = c
     /\ Admits(found)
     /\ \E bad \in SUBSET U, lost \in SUBSET U :
          /\ lost \subseteq bad
          /\ Cardinality(bad) + Cardinality(error) <= left.faults
          /\ left' = [left EXCEPT !.faults = @ - Cardinality(bad) - Cardinality(error)]
          /\ UpdateProvisioningRequests(U, c, bad, lost)
     /\ productive' = (productive \/ conf.batch > 0 \/ found # {})
     /\ UNCHANGED capacity

isBatchEnabled == conf.batch > 1

(* The request the injected pods belong to, as long as the lister has it. *)
ProvisioningRequestsForPods == {injected} \cap Cached

CheckOne ==
  /\ ~isBatchEnabled
  /\ \E r \in ProvisioningRequestsForPods :
       /\ SupportedCheckCapacityClass(r)
       /\ \E error \in SUBSET {r} : CheckCapacity(<<r>>, 1, error, {})
  /\ UNCHANGED backoff

(* GetCheckCapacityBatch asks the requests `asked', in the lister's order, *)
(* until the batch is full.                                                *)
CheckClass == {r \in Cached : SupportedCheckCapacityClass(r)}

Ready == {r \in CheckClass : IsAvailableForProvisioning(backoff, r)}

CheckBatch ==
  /\ isBatchEnabled
  /\ \E asked \in SUBSET CheckClass :
       LET R == asked \cap Ready \cap templates IN
       /\ R # {} /\ Cardinality(R) <= conf.batch
       /\ Cardinality(R) < conf.batch => asked = CheckClass
       /\ backoff' = BackoffAfter(backoff, asked)
       /\ \E batch \in SetToSeqs(R), done \in 1 .. Cardinality(R), error \in SUBSET R :
            CheckCapacity(batch, done, error, (asked \cap Ready) \ templates)

NothingToCheck ==
  IF isBatchEnabled THEN Ready \cap templates = {}
  ELSE \A r \in ProvisioningRequestsForPods : ~SupportedCheckCapacityClass(r)

(* In a batch that stays empty, the requests were asked all the same. *)
AskedInVain ==
  LET broken == Ready \ templates IN
  IF isBatchEnabled
  THEN /\ backoff' = BackoffAfter(backoff, CheckClass)
       /\ cache' = [r \in Requests |-> IF r \in broken THEN Failed(cache[r]) ELSE cache[r]]
       /\ \E bad \in SUBSET broken, lost \in SUBSET broken :
            /\ Faults(broken, bad, lost)
            /\ UpdateProvisioningRequests(broken, cache', bad, lost)
       /\ productive' = (productive \/ broken # {})
  ELSE UNCHANGED <<backoff, cache, left, server, stale, productive>>

(* Provision of the best-effort-atomic class: what does not fit is         *)
(* requested from the provider, all or nothing, and the outcome is applied *)
(* to the server without regard to versions.                               *)
ApplyProvisioningRequest(r, s, bad, lost) ==
  LET done == server[r] # Absent /\ r \notin bad \ lost IN
  /\ server' = IF done THEN [server EXCEPT ![r] = s] ELSE server
  /\ stale' = IF done THEN stale \cup {r} ELSE stale

Atomic(r) ==
  LET missing == Max({0, Count(r) - free})
      possible == capacity + missing <= conf.maxCapacity
  IN \E outcome \in {"room", "grown", "none"}, bad \in SUBSET {r}, lost \in SUBSET {r} :
       LET faults == Cardinality(bad) + (IF outcome = "none" /\ possible THEN 1 ELSE 0) IN
       /\ outcome = "room" => missing = 0
       /\ outcome = "grown" => missing > 0 /\ possible
       /\ lost \subseteq bad /\ faults <= left.faults
       /\ left' = [left EXCEPT !.faults = @ - faults]
       /\ ApplyProvisioningRequest(r, IF outcome = "none" THEN NotProvisioned(server[r]) ELSE Provisioned(server[r]), bad, lost)
       /\ Admits({q \in {r} : outcome # "none"})
       /\ capacity' = IF outcome = "grown" THEN capacity + missing ELSE capacity
       /\ productive' = (productive \/ (outcome = "grown" /\ bad = {} /\ server[r] # Absent))
       /\ UNCHANGED <<backoff, cache>>

AtomicClass == {r \in ProvisioningRequestsForPods : Of(r).class = "best-effort-atomic" /\ Of(r).prefix = ""}

(* Whose turn it is when both sides wait. *)
RequestsTurn == injected # None /\ (unhelped => mode)

(* The list of unschedulable pods and the snapshot end with the loop. *)
ListDone == injected' = None /\ unhelped' = FALSE /\ free' = 0 /\ blind' = {}

(* The classes are tried in order until one had something to do. *)
ScaleUpRequests ==
  /\ pc = "scaleup" /\ RequestsTurn
  /\ \/ (CheckOne \/ CheckBatch) /\ pc' = "wait" /\ ListDone
     \/ /\ NothingToCheck /\ AskedInVain /\ pc' = "atomic"
        /\ UNCHANGED <<capacity, injected, unhelped, free, blind, overlooked>>
  /\ mode' = FALSE
  /\ lastSide' = "requests"
  /\ UNCHANGED <<conf, age, templates, scheduled, regular>>

ScaleUpAtomic ==
  /\ pc = "atomic"
  /\ IF AtomicClass = {}
     THEN UNCHANGED <<server, cache, stale, backoff, capacity, productive, left, overlooked>>
     ELSE \E r \in AtomicClass : Atomic(r)
  /\ pc' = "wait" /\ ListDone
  /\ UNCHANGED <<conf, mode, age, templates, scheduled, regular, lastSide>>

(* The usual scale-up, or nothing to scale up for. *)
ScaleUpPods ==
  /\ pc = "scaleup" /\ ~RequestsTurn
  /\ IF unhelped
     THEN /\ mode' = TRUE
          /\ lastSide' = "pods"
          /\ capacity' = Min({capacity + 1, conf.maxCapacity})
          /\ productive' = (productive \/ capacity < conf.maxCapacity)
     ELSE UNCHANGED <<mode, lastSide, capacity, productive>>
  /\ pc' = "wait" /\ ListDone
  /\ UNCHANGED <<conf, server, cache, stale, backoff, age, templates, scheduled, regular, left, overlooked>>

(* LoopTrigger.Wait: at once after a productive loop or for a new pod ... *)
StartAtOnce ==
  /\ pc = "wait" /\ (productive \/ regular.pending > 0)
  /\ pc' = "refresh"
  /\ UNCHANGED <<conf, server, cache, stale, backoff, mode, injected, unhelped, free, productive, left, blind, overlooked, lastSide>>
  /\ UNCHANGED world

Older(s) ==
  IF s = Absent THEN s
  ELSE [s EXCEPT !.provAge = IF s.prov = "none" THEN 0 ELSE Min({@ + 1, Old}),
                 !.failedAge = IF s.failed THEN Min({@ + 1, Old}) ELSE 0]

(* ... and otherwise after the scan interval, in which events arrive. *)
WaitScanInterval ==
  /\ pc = "wait"
  /\ pc' = "refresh"
  /\ server' = [r \in Requests |-> Older(server[r])]
  /\ cache' = [r \in Requests |-> Older(IF r \in stale THEN server[r] ELSE cache[r])]
  /\ stale' = {}
  /\ age' = [r \in Requests |-> IF server[r] = Absent THEN age[r] ELSE Min({age[r] + 1, Old})]
  /\ UNCHANGED <<conf, backoff, templates, scheduled, regular, capacity, mode, injected, unhelped,
                 free, productive, left, blind, overlooked, lastSide>>
-----------------------------------------------------------------------------
(* The environment: users, the informer, the scheduler. *)
loopVars == <<conf, backoff, pc, mode, injected, unhelped, free, productive, blind, overlooked, lastSide>>

Deliver(r) ==
  /\ r \in stale
  /\ cache' = [cache EXCEPT ![r] = server[r]]
  /\ stale' = stale \ {r}
  /\ UNCHANGED <<server, left>> /\ UNCHANGED world /\ UNCHANGED loopVars

(* The user changes the object, or deletes it. *)
Edit(r) ==
  /\ left.edits > 0 /\ server[r] # Absent
  /\ left' = [left EXCEPT !.edits = @ - 1]
  /\ stale' = stale \cup {r}
  /\ \E s \in {server[r], Absent} : server' = [server EXCEPT ![r] = s]
  /\ UNCHANGED cache /\ UNCHANGED world /\ UNCHANGED loopVars

LoseTemplate(r) ==
  /\ left.templates > 0 /\ r \in templates
  /\ left' = [left EXCEPT !.templates = @ - 1]
  /\ templates' = templates \ {r}
  /\ UNCHANGED <<server, cache, stale, scheduled, regular, capacity, age>> /\ UNCHANGED loopVars

StartPod(r) ==
  /\ Booked(server[r]) /\ scheduled[r] < Count(r) /\ Used < capacity
  /\ scheduled' = [scheduled EXCEPT ![r] = @ + 1]
  /\ UNCHANGED <<server, cache, stale, left, regular, capacity, templates, age>> /\ UNCHANGED loopVars

OtherPod ==
  /\ \/ /\ left.regular > 0
        /\ left' = [left EXCEPT !.regular = @ - 1]
        /\ regular' = [regular EXCEPT !.pending = @ + 1]
     \/ /\ regular.pending > 0 /\ Used < capacity
        /\ regular' = [pending |-> regular.pending - 1, bound |-> regular.bound + 1]
        /\ UNCHANGED left
  /\ UNCHANGED <<server, cache, stale, scheduled, capacity, templates, age>> /\ UNCHANGED loopVars

Restart ==
  /\ left.restarts > 0
  /\ left' = [left EXCEPT !.restarts = @ - 1]
  /\ cache' = server /\ stale' = {}
  /\ backoff' = <<>> /\ mode' = FALSE /\ pc' = "refresh"
  /\ productive' = FALSE /\ ListDone
  /\ lastSide' = None
  /\ UNCHANGED <<conf, server, overlooked>> /\ UNCHANGED world
-----------------------------------------------------------------------------
Init ==
  /\ conf \in Settings
  /\ server = [r \in Requests |-> New] /\ cache = server /\ stale = {}
  /\ age = [r \in Requests |-> 0] /\ templates = Requests
  /\ backoff = <<>>
  /\ scheduled = [r \in Requests |-> 0] /\ regular = [pending |-> 0, bound |-> 0]
  /\ capacity = conf.capacity
  /\ pc = "refresh" /\ mode = FALSE /\ injected = None /\ unhelped = FALSE /\ free = 0
  /\ productive = FALSE /\ left = conf.left /\ blind = {} /\ overlooked = FALSE
  /\ lastSide = None

Loop == Refresh \/ Process \/ ScaleUpRequests \/ ScaleUpAtomic \/ ScaleUpPods

Next ==
  \/ Loop \/ StartAtOnce \/ WaitScanInterval
  \/ OtherPod \/ Restart
  \/ \E r \in Requests : Deliver(r) \/ Edit(r) \/ LoseTemplate(r) \/ StartPod(r)

(* The loop goes on, and time passes between loops again and again. *)
Fairness == WF_vars(Loop) /\ SF_vars(WaitScanInterval)

FairSpec == Init /\ [][Next]_vars /\ Fairness
-----------------------------------------------------------------------------
(* The rooms that the autoscaler has promised to requests, and still holds *)
(* for them, fit into the cluster together: neither the requests of one     *)
(* batch nor a later request are given room that another one has booked.    *)
(* Excepted are promises made while a booking was not in the cache: one     *)
(* applied to the server whose event had not arrived, or one whose expiry   *)
(* was set in place and could not be written (checkCapacity, bookCapacity). *)
BookingsFit == overlooked \/ Pods({r \in Requests : Booked(cache[r])}) <= capacity

(* Every request ends up provisioned, failed or deleted on the server,     *)
(* although conditions set in the cached object hide it from the loop when  *)
(* their write fails (IsAvailableForProvisioning, refresh,                  *)
(* DeleteOldProvReqs).                                                      *)
RequestsSettle ==
  \A r \in Requests : [](SupportedProvisioningClass(r) => <>Settled(server[r]))

(* When pods of a request and other pods both wait, the side that did not  *)
(* have the last scale-up has this one (WrapperOrchestrator.ScaleUp).       *)
TakesTurns ==
  pc = "scaleup" /\ pc' # "refresh" /\ pc' # pc /\ injected # None /\ unhelped => lastSide' # lastSide

TurnsAlternate == [][TakesTurns]_vars
=============================================================================
