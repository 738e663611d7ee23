------------------------------ MODULE NodeDrain ------------------------------
(***************************************************************************)
(* GroupDeletionScheduler.scheduleDeletion up to the hand-over to the      *)
(* batcher: the pods of one node are evicted group by group in the order   *)
(* of their priorities, one goroutine per pod, while the pods terminate,   *)
(* are replaced elsewhere or are protected by a disruption budget; then    *)
(* the deletion waits for the delay annotations.  What happens to the node *)
(* afterwards is in ScaleDownActuation.                                    *)
(***************************************************************************)
EXTENDS Integers, Sequences, FiniteSets, FiniteSetsExt, Functions

CONSTANT Drains  \* the nodes to drain, with the options they are drained under

\* NewActuator gives every Evictor at least one priority group: the configured
\* ones, or the single one of SingleRuleDrainConfig.
ASSUME DrainsAssumption ==
  \A drain \in Drains :
    /\ {"pods", "periods"} \subseteq DOMAIN drain
    /\ drain.periods \in Seq(Int) /\ drain.periods # <<>>
    /\ \A p \in DOMAIN drain.pods : drain.pods[p].priority \in Int

VARIABLES task,      \* the drain of this behaviour
          pod,       \* every pod: "here", "terminating", "gone" or, for a pod that keeps its name, "elsewhere"
          phase,     \* "evict", "wait", "delay" or how the deletion went on
          prioGroup,     \* the priority group being evicted
          evictor,   \* the goroutine of every pod: "none", "first", "retry", its result, "confirmed"
          result,    \* evictionResults, by the name of the pod
          expired,   \* the time the current phase may take has passed
          annotated, \* the node carries a delay-deletion annotation
          faults     \* API errors still to come

drainVars == <<task, pod, phase, prioGroup, evictor, result, expired, annotated, faults>>

Pods == DOMAIN task.pods
OnNode(p) == pod[p] \in {"here", "terminating"}

-----------------------------------------------------------------------------
\* The pods to evict and their groups.

\* daemonset.PodsToEvict: the annotation of the pod overrides the option.
DaemonPodsToEvict(evictByDefault) ==
  {p \in Pods : /\ task.pods[p].kind = "daemon"
                /\ task.pods[p].annotation = "true" \/ (task.pods[p].annotation = "none" /\ evictByDefault)}

\* podsToEvict, drainNode, EvictDaemonSetPods: neither mirror pods nor fakes.
PlainPods == {p \in Pods : task.pods[p].kind = "plain"}
FullEvictionPods ==
  IF ~task.drain THEN {}
  ELSE PlainPods \cup (IF task.fullDsEviction THEN DaemonPodsToEvict(task.evictDsOccupied) ELSE {})
BestEffortPods ==
  IF ~task.drain THEN DaemonPodsToEvict(task.evictDsEmpty)
  ELSE IF task.fullDsEviction THEN {} ELSE DaemonPodsToEvict(task.evictDsOccupied)

\* NewEvictor sorts the groups by their priorities, once.
Sorts(s, order) == \A i, j \in DOMAIN s : i < j => s[order[i]] <= s[order[j]]
Sorted(s) ==
  LET order == CHOOSE f \in Bijection(DOMAIN s, DOMAIN s) : Sorts(s, f)
  IN  [i \in DOMAIN s |-> s[order[i]]]
NewEvictor(drain) == [drain EXCEPT !.periods = Sorted(drain.periods)]
Periods == task.periods

\* Mutant: a priority between two groups is put in the higher one.
GroupAbove(priority) ==
  LET above == {i \in DOMAIN Periods : Periods[i] >= priority}
  IN  IF above = {} THEN Len(Periods) ELSE Min(above)

\* groupIndex: the search finds the first group not below the priority; a pod
\* between two groups belongs to the lower one, a pod above all to the last.
GroupIndex(priority) ==
  LET above == {i \in DOMAIN Periods : Periods[i] >= priority}
      index == Min(above)
  IN  IF above = {} THEN Len(Periods)
      ELSE IF index > 1 /\ Periods[index] > priority THEN index - 1
      ELSE index

\* groupByPriority
GroupPods(g, S) == {p \in S : GroupIndex(task.pods[p].priority) = g}
InGroup == GroupPods(prioGroup, FullEvictionPods \cup BestEffortPods)
FullInGroup == GroupPods(prioGroup, FullEvictionPods)
NamesOf(S) == {task.pods[p].name : p \in S}

-----------------------------------------------------------------------------
\* The cluster around the drain.

\* The API server accepts the eviction of a pod of the disruption budget only
\* while no other pod of it is disrupted; a pod is one until it is replaced.
BudgetAllows(p) ==
  task.pods[p].guarded =>
    \A q \in Pods \ {p} : task.pods[q].guarded => pod[q] \in {"here", "elsewhere"}

\* What a pod that is told to go becomes.
Terminated(p) == IF pod[p] = "here" THEN [pod EXCEPT ![p] = "terminating"] ELSE pod

PodStops(p) ==
  /\ pod[p] = "terminating" /\ ~(task.pods[p].stuck)
  /\ pod' = [pod EXCEPT ![p] = "gone"]
  /\ UNCHANGED <<task, phase, prioGroup, evictor, result, expired, annotated, faults>>

\* The controller of a guarded pod starts its replacement on another node.
PodReplaced(p) ==
  /\ pod[p] = "gone" /\ task.pods[p].guarded
  /\ pod' = [pod EXCEPT ![p] = "elsewhere"]
  /\ UNCHANGED <<task, phase, prioGroup, evictor, result, expired, annotated, faults>>

\* Somebody else deletes a pod.
PodDeleted(p) ==
  /\ pod[p] = "here" /\ task.pods[p].shortLived
  /\ pod' = [pod EXCEPT ![p] = "terminating"]
  /\ UNCHANGED <<task, phase, prioGroup, evictor, result, expired, annotated, faults>>

AnnotationRemoved ==
  /\ annotated
  /\ annotated' = FALSE
  /\ UNCHANGED <<task, pod, phase, prioGroup, evictor, result, expired, faults>>

\* MaxPodEvictionTime, the grace period with its headroom, or the delay timeout.
TimePasses ==
  /\ phase \in {"evict", "wait", "delay"} /\ ~expired
  /\ expired' = TRUE
  /\ UNCHANGED <<task, pod, phase, prioGroup, evictor, result, annotated, faults>>

-----------------------------------------------------------------------------
\* initiateEviction and evictPod.

\* A goroutine attempts the eviction once, and again until the time is over.
MayAttempt(p) == evictor[p] = "first" \/ (evictor[p] = "retry" /\ ~expired)

\* Accepted, or the pod is not found: RegisterEviction, and success.
EvictionAccepted(p) ==
  /\ phase = "evict" /\ MayAttempt(p)
  /\ BudgetAllows(p) \/ ~OnNode(p)
  /\ pod' = Terminated(p)
  /\ evictor' = [evictor EXCEPT ![p] = "evicted"]
  /\ UNCHANGED <<task, phase, prioGroup, result, expired, annotated, faults>>

EvictionRefused(p) ==
  /\ phase = "evict" /\ MayAttempt(p)
  /\ ~BudgetAllows(p) /\ OnNode(p)
  /\ evictor' = [evictor EXCEPT ![p] = "retry"]
  /\ UNCHANGED <<task, pod, phase, prioGroup, result, expired, annotated, faults>>

\* The call fails, before or after the server has accepted the eviction.
EvictionError(p) ==
  /\ phase = "evict" /\ MayAttempt(p) /\ faults > 0
  /\ \/ pod' = pod
     \/ BudgetAllows(p) /\ pod' = Terminated(p)
  /\ evictor' = [evictor EXCEPT ![p] = "retry"]
  /\ faults' = faults - 1
  /\ UNCHANGED <<task, phase, prioGroup, result, expired, annotated>>

\* The time is over: a forced deletion of a full eviction pod deletes the pod
\* itself, and fails as well when the pod has meanwhile gone.
EvictionGivenUp(p) ==
  /\ phase = "evict" /\ evictor[p] = "retry" /\ expired
  /\ UNCHANGED <<task, phase, prioGroup, result, expired, annotated>>
  /\ \/ /\ task.force /\ p \in FullEvictionPods
        /\ OnNode(p)
        /\ pod' = Terminated(p)
        /\ evictor' = [evictor EXCEPT ![p] = "evicted"]
        /\ UNCHANGED faults
     \/ /\ task.force /\ p \in FullEvictionPods
        /\ OnNode(p) => faults > 0
        /\ faults' = IF OnNode(p) THEN faults - 1 ELSE faults
        /\ evictor' = [evictor EXCEPT ![p] = "failed"]
        /\ UNCHANGED pod
     \/ /\ ~(task.force /\ p \in FullEvictionPods)
        /\ evictor' = [evictor EXCEPT ![p] = "failed"]
        /\ UNCHANGED <<pod, faults>>

\* The drain takes the confirmations as they come; pods of the same name
\* share an entry of the results.
Confirmed(p) ==
  /\ phase = "evict" /\ evictor[p] \in {"evicted", "failed"}
  /\ result' = IF p \in FullEvictionPods
               THEN [result EXCEPT ![task.pods[p].name] = evictor[p]] ELSE result
  /\ evictor' = [evictor EXCEPT ![p] = "confirmed"]
  /\ UNCHANGED <<task, pod, phase, prioGroup, expired, annotated, faults>>

\* The first group after g with a pod to evict, or one past the last.
NextGroup(g) ==
  Min({k \in g + 1 .. Len(Periods) : GroupPods(k, FullEvictionPods \cup BestEffortPods) # {}}
        \cup {Len(Periods) + 1})

\* drainNodeWithPodsBasedOnPodPriority goes on to group g: initiateEviction
\* starts a goroutine per pod; after the last group WaitForDelayDeletion looks
\* at the node it was given.
StartGroup(g) ==
  /\ prioGroup' = g
  /\ expired' = FALSE
  /\ IF g <= Len(Periods)
     THEN LET started == GroupPods(g, FullEvictionPods \cup BestEffortPods)
          IN  /\ phase' = "evict"
              /\ evictor' = [p \in Pods |-> IF p \in started THEN "first" ELSE evictor[p]]
              /\ result' = [n \in DOMAIN result |->
                              IF n \in NamesOf(GroupPods(g, FullEvictionPods)) THEN "started" ELSE result[n]]
     ELSE /\ phase' = IF task.delayed THEN "delay" ELSE "batched"
          /\ UNCHANGED <<evictor, result>>

\* prepareNodeForDeletion failed: the deletion is aborted or, when it is
\* forced, the node is deleted at once and handed to the batcher all the same.
Fail ==
  \/ ~task.force /\ phase' = "aborted" /\ UNCHANGED faults
  \/ task.force /\ phase' = "forced" /\ UNCHANGED faults
  \/ task.force /\ faults > 0 /\ phase' = "aborted" /\ faults' = faults - 1

EvictionsCollected ==
  /\ phase = "evict" /\ \A p \in InGroup : evictor[p] = "confirmed"
  /\ expired' = FALSE
  /\ UNCHANGED <<task, pod, prioGroup, evictor, result, annotated>>
  /\ IF \A p \in FullInGroup : result[task.pods[p].name] = "evicted"
     THEN phase' = "wait" /\ UNCHANGED faults
     ELSE Fail

-----------------------------------------------------------------------------
\* waitPodsToDisappear

\* Mutant: a pod that cannot be read counts as gone.
UnreadableIsGone ==
  /\ phase = "wait" /\ ~expired
  /\ \/ (\A p \in FullInGroup : ~OnNode(p)) /\ UNCHANGED faults
     \/ faults > 0 /\ FullInGroup # {} /\ faults' = faults - 1
  /\ StartGroup(NextGroup(prioGroup))
  /\ UNCHANGED <<task, pod, annotated>>

\* A poll that finds every pod gone from the node ends the wait.  One that
\* finds a pod, or cannot read one, changes nothing.
AllGone ==
  /\ phase = "wait" /\ ~expired
  /\ \A p \in FullInGroup : ~OnNode(p)
  /\ UNCHANGED <<task, pod, annotated, faults>>
  /\ StartGroup(NextGroup(prioGroup))

\* Mutant: a wait that is over starts again.
WaitsAgain ==
  /\ phase = "wait" /\ expired
  /\ expired' = FALSE
  /\ UNCHANGED <<task, pod, phase, prioGroup, evictor, result, annotated, faults>>

\* At the deadline every pod is read once more for its result, the last one of
\* a name for good; the drain fails even if all of them have gone by then.
WaitTimedOut ==
  /\ phase = "wait" /\ expired
  /\ result' = [n \in DOMAIN result |->
                  IF n \in NamesOf(FullInGroup)
                  THEN IF OnNode(Max({p \in FullInGroup : task.pods[p].name = n}))
                       THEN "timedOut" ELSE "evicted"
                  ELSE result[n]]
  /\ expired' = FALSE
  /\ UNCHANGED <<task, pod, prioGroup, evictor, annotated>>
  /\ Fail

-----------------------------------------------------------------------------
\* WaitForDelayDeletion polls the lister; a timeout is as good as the removal,
\* while a node the lister does not know is an error.
DelayEnds ==
  /\ phase = "delay"
  /\ ~annotated \/ expired
  /\ phase' = "batched"
  /\ expired' = FALSE
  /\ UNCHANGED <<task, pod, prioGroup, evictor, result, annotated, faults>>

DelayFails ==
  /\ phase = "delay" /\ faults > 0
  /\ expired' = FALSE
  /\ UNCHANGED <<task, pod, prioGroup, evictor, result, annotated>>
  /\ \/ ~task.force /\ phase' = "aborted" /\ faults' = faults - 1
     \/ task.force /\ phase' = "forced" /\ faults' = faults - 1
     \/ task.force /\ faults > 1 /\ phase' = "aborted" /\ faults' = faults - 2

\* scheduleDeletion: the options of the node group are read first; with an
\* error the deletion is aborted before the drain.
Begin ==
  /\ phase = "begin"
  /\ UNCHANGED <<task, pod, annotated>>
  /\ \/ StartGroup(NextGroup(0)) /\ UNCHANGED faults
     \/ /\ faults > 0
        /\ phase' = "aborted" /\ faults' = faults - 1
        /\ UNCHANGED <<prioGroup, evictor, result, expired>>

DrainInit ==
  /\ task \in {NewEvictor(drain) : drain \in Drains}
  /\ pod = [p \in Pods |-> "here"]
  /\ phase = "begin" /\ prioGroup = 0
  /\ evictor = [p \in Pods |-> "none"]
  /\ result = [n \in NamesOf(FullEvictionPods) |-> "notAttempted"]
  /\ expired = FALSE
  /\ annotated = task.delayed
  /\ faults = task.faults

EvictorStep(p) ==
  EvictionAccepted(p) \/ EvictionRefused(p) \/ EvictionError(p) \/ EvictionGivenUp(p)
DrainStep ==
  Begin \/ (\E p \in Pods : Confirmed(p)) \/ EvictionsCollected \/ AllGone \/ WaitTimedOut
    \/ DelayEnds \/ DelayFails
Ended == phase \in {"batched", "forced", "aborted"}

ClusterStep ==
  /\ ~Ended
  /\ (\E p \in Pods : PodStops(p) \/ PodReplaced(p) \/ PodDeleted(p)) \/ AnnotationRemoved

DrainNext ==
  \/ DrainStep
  \/ \E p \in Pods : EvictorStep(p)
  \/ TimePasses
  \/ ClusterStep
  \/ Ended /\ UNCHANGED drainVars

\* Every goroutine runs, and time passes: nothing is assumed of the pods.
DrainFairness ==
  /\ WF_drainVars(DrainStep \/ TimePasses)
  /\ WF_drainVars(\E p \in Pods : EvictorStep(p))
DrainSpec == DrainInit /\ [][DrainNext]_drainVars /\ DrainFairness

-----------------------------------------------------------------------------
\* A node that is handed over after a drain that did not fail carries none of
\* the pods that had to be evicted, even where two pods of the same name
\* overwrite each other's result (initiateEviction, waitPodsToDisappear).
DrainedMeansGone ==
  phase = "batched" => \A p \in FullEvictionPods : ~OnNode(p)

\* p has to be off the node before q is evicted: a boundary between groups
\* lies above the priority of p and not above that of q.
Precedes(p, q) ==
  \E i \in DOMAIN task.periods :
    /\ task.pods[p].priority < task.periods[i] /\ task.periods[i] <= task.pods[q].priority
    /\ \E k \in DOMAIN task.periods : task.periods[k] < task.periods[i]

\* "evicts pods in the ascending order of priorities" (DrainNode): when a pod's
\* eviction succeeds, every pod of a lower priority group that had to be
\* evicted has left the node.
RespectsPriorities ==
  \A q \in Pods : evictor[q] # "evicted" /\ evictor'[q] = "evicted" =>
    \A p \in FullEvictionPods : Precedes(p, q) => ~OnNode(p)
PriorityOrder == [][RespectsPriorities]_drainVars

\* A drain ends: neither a budget that never allows an eviction, nor a pod that
\* never stops, nor an annotation nobody removes holds the node for ever.
DrainEnds == <>Ended
==============================================================================
