------------------------- MODULE ClusterStateProofs -------------------------
(***************************************************************************)
(* Proofs about the registry inside the main loop (ClusterStateLoop), for  *)
(* any node groups and instances, any bounds on what fails or is lost, and *)
(* whatever the instances cache hands out; and that the status of the      *)
(* cluster it publishes is true and dated right (ClusterStateUtils), for   *)
(* any groups and any course of the loop.                                  *)
(***************************************************************************)
EXTENDS ClusterStateLoop, ClusterStateUtils, TLAPS

(* The life cycle of an instance only goes forward: what once failed is    *)
(* failed, being deleted or gone, and an instance that was ever listed has *)
(* been created.                                                           *)
AfterFailure == {"failed", "deleting", "gone"}

(* What is typed of the state, as far as the proofs need it. *)
CsrTypeOK ==
  /\ inst \in [Instances -> InstanceStates]
  /\ cloudProviderNodeInstances.expected \subseteq Instances
  /\ cloudProviderNodeInstances.failed \subseteq Instances
  /\ unregisteredNodes \in [Instances -> {Unseen} \cup Ages]
  /\ instAge \in [Instances -> Ages]
  /\ charged \in [Instances -> Nat]

(* The registry of a process that has not updated it yet: nothing is       *)
(* cached, so that the first update reads every group afresh, and there is *)
(* no request that a failed instance could be taken off.                   *)
Blank == pc = "idle" /\ cached = {} /\ \A g \in NodeGroups : scaleUpRequests[g].Increase = 0

ListedOK ==
  /\ \A i \in cloudProviderNodeInstances.failed : inst[i] \in AfterFailure
  /\ \A i \in cloudProviderNodeInstances.expected : inst[i] # "none"

ChargesOK ==
  \A i \in Instances :
    /\ charged[i] <= 1
    /\ charged[i] = 1 => inst[i] \in AfterFailure
    /\ charged[i] = 1 /\ inst[i] = "failed" => i \in cloudProviderNodeInstances.failed \/ Blank

(* An instance is not older to the registry than it is. *)
AgesOK ==
  \A i \in Instances :
    unregisteredNodes[i] # Unseen => /\ inst[i] # "none"
                                     /\ Exists(i) => unregisteredNodes[i] <= instAge[i]

CsrInv == CsrTypeOK /\ ListedOK /\ ChargesOK /\ AgesOK

-----------------------------------------------------------------------------
(* Steps that leave the registry's view of the instances alone and move    *)
(* instances forward at most.                                              *)
LEMMA InstancesMove ==
    ASSUME CsrInv, inst' \in [Instances -> InstanceStates],
           \A i \in Instances :
             /\ inst[i] \in AfterFailure => inst'[i] \in AfterFailure
             /\ inst[i] \in AfterFailure /\ inst'[i] = "failed" => inst[i] = "failed"
             /\ inst[i] # "none" => inst'[i] # "none"
             /\ Exists(i)' => Exists(i) \/ inst[i] = "none",
           Blank => Blank',
           UNCHANGED <<cloudProviderNodeInstances, unregisteredNodes, instAge, charged>>
    PROVE  CsrInv'
<1>1. CsrTypeOK'
  BY DEF CsrInv, CsrTypeOK
<1>2. ListedOK'
  BY DEF CsrInv, CsrTypeOK, ListedOK
<1>3. ChargesOK'
  BY DEF CsrInv, ChargesOK
<1>4. AgesOK'
  BY DEF CsrInv, AgesOK
<1> QED BY <1>1, <1>2, <1>3, <1>4 DEF CsrInv

LEMMA StaysBlank ==
    ASSUME UNCHANGED <<inst, cloudProviderNodeInstances, unregisteredNodes, instAge, charged>>,
           CsrInv, Blank => Blank'
    PROVE  CsrInv'
<1>1. inst' \in [Instances -> InstanceStates]
  BY DEF CsrInv, CsrTypeOK
<1>2. \A i \in Instances : Exists(i)' => Exists(i)
  BY DEF Exists
<1> QED BY <1>1, <1>2, InstancesMove

(* What an update lists was listed before or is read now. *)
LEMMA ListsAreSound ==
    ASSUME CsrInv, NEW fresh
    PROVE  /\ CachedInstances(fresh).failed \subseteq Instances
           /\ CachedInstances(fresh).expected \subseteq Instances
           /\ \A i \in CachedInstances(fresh).failed :
                /\ inst[i] \in AfterFailure
                /\ i \in cloudProviderNodeInstances.failed \/ inst[i] = "failed"
           /\ \A i \in CachedInstances(fresh).expected : inst[i] # "none"
           /\ \A i \in Instances :
                inst[i] = "failed" /\ (i \in cloudProviderNodeInstances.failed \/ GroupOf[i] \in fresh)
                  => i \in CachedInstances(fresh).failed
BY DEF CsrInv, CsrTypeOK, ListedOK, CachedInstances, expectedToRegister, withCreationError, AfterFailure

(* No instance is charged to a request of a blank registry, which has none. *)
LEMMA BlankChargesNobody ==
    ASSUME Blank, NEW allListed, NEW r, NEW ranges, NEW timedOut
    PROVE  GroupsWithCreationErrors(allListed, r, ranges, updateScaleRequests(r, ranges, timedOut)) = {}
BY DEF Blank, GroupsWithCreationErrors, updateScaleRequests, IsNodeGroupScalingUp, NoRequest,
       RunningNodeGroups

LEMMA UpdateInductive ==
    ASSUME CsrInv, NEW fresh, NEW refused, UpdateNodes(fresh, refused), pc = "idle", UNCHANGED instAge
    PROVE  CsrInv'
<1> DEFINE allListed == CachedInstances(fresh)
           unregistered == updateUnregisteredNodes(allListed)
           r == updateReadinessStats(unregistered)
           ranges1 == updateAcceptableRanges(target, r, scaleUpRequests)
           requests1 == updateScaleRequests(r, ranges1, TimedOutGroups(r, ranges1))
           errs == GroupsWithCreationErrors(allListed, r, ranges1, requests1)
<1>1. /\ MustReadAfresh \subseteq fresh
      /\ cloudProviderNodeInstances' = allListed
      /\ unregisteredNodes' = unregistered
      /\ charged' = [i \in Instances |->
           IF GroupOf[i] \in errs /\ i \in UnseenErrors(allListed, GroupOf[i])
           THEN charged[i] + 1 ELSE charged[i]]
      /\ inst' = inst
  BY Zenon DEF UpdateNodes
<1> HIDE DEF unregistered, r, ranges1, requests1, errs
<1>2. /\ allListed.failed \subseteq Instances /\ allListed.expected \subseteq Instances
      /\ \A i \in allListed.failed : /\ inst[i] \in AfterFailure
                                     /\ i \in cloudProviderNodeInstances.failed \/ inst[i] = "failed"
      /\ \A i \in allListed.expected : inst[i] # "none"
      /\ \A i \in Instances :
           inst[i] = "failed" /\ (i \in cloudProviderNodeInstances.failed \/ GroupOf[i] \in fresh)
             => i \in allListed.failed
  BY ListsAreSound
<1> HIDE DEF allListed
<1>3. Blank => errs = {} /\ NodeGroups \subseteq fresh
  <2>1. Blank => errs = {}
    BY BlankChargesNobody DEF errs, requests1
  <2>2. Blank => NodeGroups \subseteq fresh
    BY <1>1 DEF Blank, MustReadAfresh
  <2> QED BY <2>1, <2>2
<1>4. ASSUME NEW i \in Instances
      PROVE  /\ charged'[i] \in Nat
             /\ charged'[i] <= 1
             /\ charged'[i] = 1 => inst[i] \in AfterFailure
             /\ charged'[i] = 1 /\ inst[i] = "failed" => i \in allListed.failed
  <2>1. charged[i] \in {0, 1}
    BY DEF CsrInv, CsrTypeOK, ChargesOK
  <2>2. CASE GroupOf[i] \in errs /\ i \in UnseenErrors(allListed, GroupOf[i])
    <3>1. i \in allListed.failed /\ i \notin cloudProviderNodeInstances.failed /\ ~Blank
      BY <2>2, <1>3 DEF UnseenErrors
    <3>2. charged[i] = 0
      BY <3>1, <2>1, <1>2 DEF CsrInv, ChargesOK
    <3> QED BY <2>2, <3>1, <3>2, <1>1, <1>2
  <2>3. CASE ~(GroupOf[i] \in errs /\ i \in UnseenErrors(allListed, GroupOf[i]))
    <3>1. charged'[i] = charged[i]
      BY <2>3, <1>1
    <3>2. GroupOf[i] \in NodeGroups
      BY CsrAssumption
    <3> QED BY <2>1, <3>1, <3>2, <1>2, <1>3 DEF CsrInv, ChargesOK
  <2> QED BY <2>2, <2>3
<1>5. ASSUME NEW i \in Instances
      PROVE  /\ unregistered[i] \in {Unseen} \cup Ages
             /\ unregistered[i] # Unseen => /\ inst[i] # "none"
                                            /\ Exists(i) => unregistered[i] <= instAge[i]
  <2>1. /\ instAge[i] \in Ages /\ unregisteredNodes[i] \in {Unseen} \cup Ages
        /\ MaxNodeProvisionTime \in Nat
    BY CsrAssumption DEF CsrInv, CsrTypeOK
  <2>2. unregistered[i] \in {Unseen, 0, unregisteredNodes[i]}
        /\ (unregistered[i] # Unseen => i \in allListed.expected)
    BY DEF unregistered, updateUnregisteredNodes
  <2> QED BY <2>1, <2>2, <1>2 DEF CsrInv, AgesOK, Ages, Expired
<1>6. CsrTypeOK'
  <2>1. unregistered \in [Instances -> {Unseen} \cup Ages]
    BY <1>5 DEF unregistered, updateUnregisteredNodes
  <2>2. charged' \in [Instances -> Nat]
    BY <1>1, <1>4
  <2> QED BY <1>1, <1>2, <2>1, <2>2 DEF CsrInv, CsrTypeOK
<1>7. ListedOK'
  BY <1>1, <1>2 DEF ListedOK
<1>8. ChargesOK'
  BY <1>1, <1>4 DEF ChargesOK
<1>9. AgesOK'
  BY <1>1, <1>5 DEF AgesOK, Exists
<1> QED BY <1>6, <1>7, <1>8, <1>9 DEF CsrInv

LEMMA TickInductive == ASSUME CsrInv, Tick PROVE CsrInv'
<1>1. /\ unregisteredNodes' = [i \in Instances |-> Older(unregisteredNodes[i])]
      /\ instAge' = [i \in Instances |-> IF Exists(i) THEN Older(instAge[i]) ELSE 0]
      /\ scaleUpRequests' = [g \in NodeGroups |->
           IF scaleUpRequests[g].Increase > 0
           THEN [scaleUpRequests[g] EXCEPT !.age = Older(@)] ELSE scaleUpRequests[g]]
      /\ UNCHANGED <<inst, cloudProviderNodeInstances, cached, charged, pc>>
  BY DEF Tick, CsrTick, cloudVars
<1>2. ASSUME NEW i \in Instances
      PROVE  /\ Older(unregisteredNodes[i]) \in {Unseen} \cup Ages
             /\ instAge'[i] \in Ages
             /\ Older(unregisteredNodes[i]) # Unseen =>
                  /\ unregisteredNodes[i] # Unseen
                  /\ unregisteredNodes[i] <= instAge[i] => Older(unregisteredNodes[i]) <= Older(instAge[i])
  <2>1. /\ instAge[i] \in Ages /\ unregisteredNodes[i] \in {Unseen} \cup Ages
        /\ MaxNodeProvisionTime \in Nat
    BY CsrAssumption DEF CsrInv, CsrTypeOK
  <2> QED BY <2>1, <1>1 DEF Older, Ages, Expired, Unseen
<1>3. CsrTypeOK'
  BY <1>1, <1>2 DEF CsrInv, CsrTypeOK
<1>4. ListedOK'
  BY <1>1 DEF CsrInv, ListedOK
<1>5. Blank => Blank'
  BY <1>1 DEF Blank
<1>6. ChargesOK'
  BY <1>1, <1>5 DEF CsrInv, ChargesOK
<1>7. AgesOK'
  BY <1>1, <1>2 DEF CsrInv, AgesOK, Exists
<1> QED BY <1>3, <1>4, <1>6, <1>7 DEF CsrInv

LEMMA RestartInductive == ASSUME CsrInv, Restart PROVE CsrInv'
<1>1. /\ scaleUpRequests' = [g \in NodeGroups |-> NoRequest]
      /\ unregisteredNodes' = [i \in Instances |-> Unseen]
      /\ cloudProviderNodeInstances' = NoInstances
      /\ cached' = {} /\ pc' = "idle"
      /\ UNCHANGED <<inst, charged, instAge>>
  BY DEF Restart, CsrRestart, Goto, cloudVars
<1>2. Blank'
  BY <1>1 DEF Blank, NoRequest
<1>3. CsrTypeOK'
  BY <1>1 DEF CsrInv, CsrTypeOK, NoInstances
<1>4. ListedOK'
  BY <1>1 DEF ListedOK, NoInstances
<1>5. ChargesOK'
  BY <1>1, <1>2 DEF CsrInv, ChargesOK
<1>6. AgesOK'
  BY <1>1 DEF AgesOK
<1> QED BY <1>3, <1>4, <1>5, <1>6 DEF CsrInv

(* DeleteNodes moves instances that are there to "deleting". *)
LEMMA DeletionsMove ==
    ASSUME CsrInv, NEW doomed, DeleteNodes(doomed), Blank => Blank',
           UNCHANGED <<cloudProviderNodeInstances, unregisteredNodes, instAge, charged>>
    PROVE  CsrInv'
<1>1. \A i \in Instances : inst'[i] = inst[i] \/ (Exists(i) /\ inst'[i] = "deleting")
  BY DEF DeleteNodes
<1>2. inst' \in [Instances -> InstanceStates]
  BY DEF CsrInv, CsrTypeOK, DeleteNodes, InstanceStates
<1>3. \A i \in Instances :
        /\ inst[i] \in AfterFailure => inst'[i] \in AfterFailure
        /\ inst[i] \in AfterFailure /\ inst'[i] = "failed" => inst[i] = "failed"
        /\ inst[i] # "none" => inst'[i] # "none"
        /\ Exists(i)' => Exists(i) \/ inst[i] = "none"
  BY <1>1 DEF AfterFailure, Exists
<1> QED BY <1>2, <1>3, InstancesMove

(* The cloud moves an instance from one state of its life to a later one. *)
Later ==
  {<<"none", "creating">>, <<"creating", "running">>, <<"creating", "failed">>,
   <<"running", "preempted">>, <<"deleting", "gone">>, <<"failed", "gone">>}

LEMMA OneInstanceMoves ==
    ASSUME CsrInv, NEW i \in Instances, NEW to, <<inst[i], to>> \in Later,
           inst' = [inst EXCEPT ![i] = to],
           UNCHANGED <<cloudProviderNodeInstances, unregisteredNodes, instAge, charged, pc, cached,
                       scaleUpRequests>>
    PROVE  CsrInv'
<1>1. inst \in [Instances -> InstanceStates]
  BY DEF CsrInv, CsrTypeOK
<1>2. inst' \in [Instances -> InstanceStates]
  BY <1>1 DEF Later, InstanceStates
<1>3. \A j \in Instances :
        /\ inst[j] \in AfterFailure => inst'[j] \in AfterFailure
        /\ inst[j] \in AfterFailure /\ inst'[j] = "failed" => inst[j] = "failed"
        /\ inst[j] # "none" => inst'[j] # "none"
        /\ Exists(j)' => Exists(j) \/ inst[j] = "none"
  BY <1>1 DEF AfterFailure, Exists, Later
<1>4. Blank => Blank'
  BY DEF Blank
<1> QED BY <1>2, <1>3, <1>4, InstancesMove

LEMMA CloudInductive == ASSUME CsrInv, NEW i \in Instances, Cloud(i) PROVE CsrInv'
<1> DEFINE Still == UNCHANGED <<cloudProviderNodeInstances, unregisteredNodes, instAge, charged, pc,
                                cached, scaleUpRequests>>
<1>1. ASSUME UNCHANGED inst, Still PROVE CsrInv'
  BY <1>1, StaysBlank DEF Blank
<1>2. CASE CloudCreate(i)
  <2>1. Still /\ inst' = [inst EXCEPT ![i] = "creating"] /\ <<inst[i], "creating">> \in Later
    BY <1>2 DEF CloudCreate, loopVars, csrVars, Later
  <2> QED BY <2>1, OneInstanceMoves, Zenon
<1>3. ASSUME NEW from, NEW to, CloudAdvance(i, from, to), <<from, to>> \in Later PROVE CsrInv'
  <2>1. Still /\ inst' = [inst EXCEPT ![i] = to] /\ <<inst[i], to>> \in Later
    BY <1>3 DEF CloudAdvance, loopVars, csrVars
  <2> QED BY <2>1, OneInstanceMoves, Zenon
<1>4. CASE CloudPreempt(i)
  <2>1. Still /\ inst' = [inst EXCEPT ![i] = "preempted"] /\ <<inst[i], "preempted">> \in Later
    BY <1>4 DEF CloudPreempt, csrVars, Later
  <2> QED BY <2>1, OneInstanceMoves, Zenon
<1>5. CASE CloudDrop(i)
  <2>1. Still /\ inst' = [inst EXCEPT ![i] = "gone"] /\ <<inst[i], "gone">> \in Later
    BY <1>5 DEF CloudDrop, csrVars, Later
  <2> QED BY <2>1, OneInstanceMoves, Zenon
<1>6. CASE NodeRegister(i) \/ (\E s \in TurnsTo : NodeTurns(i, s)) \/ NodeVanish(i)
  <2>1. UNCHANGED inst /\ Still
    BY <1>6 DEF NodeRegister, NodeTurns, NodeVanish, loopVars, csrVars
  <2> QED BY <2>1, <1>1
<1>7. CASE ScaleDownNode(i)
  <2>1. DeleteNodes({i}) /\ Still
    BY <1>7, Zenon DEF ScaleDownNode, csrVars
  <2>2. Blank => Blank'
    BY <2>1 DEF Blank
  <2> QED BY <2>1, <2>2, DeletionsMove, Zenon
<1>8. CASE CloudAdvance(i, "creating", "running") \/ CloudAdvance(i, "creating", "failed")
           \/ CloudFinishDelete(i)
  BY <1>8, <1>3 DEF CloudFinishDelete, Later
<1> QED BY <1>2, <1>4, <1>5, <1>6, <1>7, <1>8 DEF Cloud

LEMMA CsrInductive == CsrInv /\ [Next]_vars => CsrInv'
<1> SUFFICES ASSUME CsrInv, [Next]_vars PROVE CsrInv'
  OBVIOUS
<1> DEFINE Still == UNCHANGED <<cloudProviderNodeInstances, unregisteredNodes, instAge, charged>>
<1>1. CASE UpdateClusterState
  BY <1>1, UpdateInductive DEF UpdateClusterState
<1>2. CASE removeOldUnregisteredNodes
  <2>1. PICK doomed : DeleteNodes(doomed)
    BY <1>2 DEF removeOldUnregisteredNodes
  <2>2. Still /\ ~Blank
    BY <1>2 DEF removeOldUnregisteredNodes, Blank
  <2> QED BY <2>1, <2>2, DeletionsMove
<1>3. CASE deleteCreatedNodesWithErrors
  <2>1. PICK doomed : DeleteNodes(doomed)
    BY <1>3 DEF deleteCreatedNodesWithErrors
  <2>2. Still /\ ~Blank
    BY <1>3 DEF deleteCreatedNodesWithErrors, Blank
  <2> QED BY <2>1, <2>2, DeletionsMove
<1>4. CASE fixNodeGroupSize \/ NoScaleUp
           \/ \E g \in NodeGroups : \E increase \in 1 .. MaxSize : ScaleUp(g, increase)
  <2>1. UNCHANGED inst /\ Still /\ ~Blank
    BY <1>4, Zenon DEF fixNodeGroupSize, NoScaleUp, ScaleUp, Blank, csrVars, cloudVars
  <2> QED BY <2>1, StaysBlank
<1>5. CASE UpdateClusterStateFails
  <2>1. UNCHANGED inst /\ Still /\ (Blank => Blank')
    BY <1>5 DEF UpdateClusterStateFails, Blank, cloudVars
  <2> QED BY <2>1, StaysBlank
<1>6. CASE Restart
  BY <1>6, RestartInductive
<1>7. CASE \E i \in Instances : Cloud(i)
  BY <1>7, CloudInductive
<1>8. CASE (\E g \in NodeGroups : NodeGroupCreated(g)) \/ UNCHANGED vars
  <2>1. UNCHANGED inst /\ Still /\ (Blank => Blank')
    BY <1>8, Zenon DEF NodeGroupCreated, loopVars, csrVars, vars, cloudVars, Blank
  <2> QED BY <2>1, StaysBlank
<1>9. CASE Tick
  BY <1>9, TickInductive
<1> QED BY <1>1, <1>2, <1>3, <1>4, <1>5, <1>6, <1>7, <1>8, <1>9 DEF Next, Loop

LEMMA CsrStarts == Init => CsrInv
<1> SUFFICES ASSUME Init PROVE CsrInv
  OBVIOUS
<1>1. 0 \in Ages
  BY CsrAssumption DEF Ages, Expired
<1>2. CsrTypeOK
  BY <1>1, Zenon DEF Init, CsrInit, CsrTypeOK, InstanceStates, NoInstances
<1>3. ListedOK /\ AgesOK
  BY Zenon DEF Init, CsrInit, ListedOK, AgesOK, NoInstances
<1>4. \A i \in Instances : charged[i] = 0
  BY DEF Init
<1>5. ChargesOK
  BY <1>4 DEF ChargesOK
<1> QED BY <1>2, <1>3, <1>5 DEF CsrInv

-----------------------------------------------------------------------------
(* A failed instance is taken off the scale-up request of its group once:  *)
(* neither an update that sees it again, nor a stale list out of the       *)
(* cache, nor a failed update, nor a restart with a new scale-up charges   *)
(* it a second time (handleInstanceCreationErrorsForNodeGroup).            *)
THEOREM NobodyChargedTwice == Spec => []ChargedOnce
<1>1. CsrInv => ChargedOnce
  BY DEF CsrInv, ChargesOK, ChargedOnce
<1> QED BY <1>1, CsrStarts, CsrInductive, PTL DEF Spec

(* An instance that removeOldUnregisteredNodes takes from a group that is  *)
(* not atomic has been in the cloud for longer than MaxNodeProvisionTime.  *)
THEOREM RemovalsWait == Spec => RemovalRespectsProvisionTime
<1> DEFINE Late == pc = "unregistered" /\ pc' # pc =>
                     \A i \in Instances : inst'[i] # inst[i] /\ GroupOf[i] \notin ZeroOrMaxNodeScaling
                                             => instAge[i] > MaxNodeProvisionTime
<1>1. CsrInv /\ [Next]_vars => [Late]_vars
  <2> SUFFICES ASSUME CsrInv, Next, pc = "unregistered", pc' # pc,
                      NEW i \in Instances, inst'[i] # inst[i], GroupOf[i] \notin ZeroOrMaxNodeScaling
               PROVE  instAge[i] > MaxNodeProvisionTime
    BY Zenon DEF vars
  <2>1. removeOldUnregisteredNodes
    <3>1. ~UpdateClusterState /\ ~UpdateClusterStateFails /\ ~Tick
      BY DEF UpdateClusterState, UpdateClusterStateFails, Tick
    <3>2. ~deleteCreatedNodesWithErrors /\ ~fixNodeGroupSize /\ ~NoScaleUp
          /\ ~\E g \in NodeGroups : \E increase \in 1 .. MaxSize : ScaleUp(g, increase)
      BY Zenon DEF deleteCreatedNodesWithErrors, fixNodeGroupSize, NoScaleUp, ScaleUp
    <3>3. ~Restart
      BY DEF Restart, cloudVars
    <3>4. ~(\E j \in Instances : Cloud(j)) /\ ~(\E g \in NodeGroups : NodeGroupCreated(g))
      BY Zenon DEF Cloud, CloudCreate, CloudAdvance, CloudPreempt, CloudFinishDelete, CloudDrop, NodeRegister,
             NodeTurns, NodeVanish, ScaleDownNode, NodeGroupCreated, loopVars
    <3> QED BY <3>1, <3>2, <3>3, <3>4, Zenon DEF Next, Loop
  <2>2. PICK doomed \in SUBSET Instances :
          /\ \A g \in NodeGroups : doomed \cap Members[g] \in RemovableUnregistered(g) \cup {{}}
          /\ DeleteNodes(doomed)
    BY <2>1, Zenon DEF removeOldUnregisteredNodes
  <2>3. i \in doomed /\ Exists(i)
    BY <2>2 DEF DeleteNodes
  <2>4. GroupOf[i] \in NodeGroups /\ i \in Members[GroupOf[i]]
    BY CsrAssumption, Zenon DEF Members
  <2>5. doomed \cap Members[GroupOf[i]] \in RemovableUnregistered(GroupOf[i])
    BY <2>2, <2>3, <2>4
  <2>6. doomed \cap Members[GroupOf[i]] \subseteq oldUnregisteredNodes(GroupOf[i])
    BY <2>5, Zenon DEF RemovableUnregistered, overrideNodesToDelete
  <2>7. unregisteredNodes[i] > MaxNodeProvisionTime
    BY <2>3, <2>4, <2>6 DEF oldUnregisteredNodes
  <2>8. /\ instAge[i] \in Ages /\ unregisteredNodes[i] \in {Unseen} \cup Ages
        /\ MaxNodeProvisionTime \in Nat
    BY CsrAssumption DEF CsrInv, CsrTypeOK
  <2> QED BY <2>3, <2>7, <2>8 DEF CsrInv, AgesOK, Ages, Expired, Unseen
<1> QED BY <1>1, CsrStarts, CsrInductive, PTL DEF Spec, RemovalRespectsProvisionTime

-----------------------------------------------------------------------------
(* The published status.                                                    *)
Aspects == {"health", "scaleUp", "scaleDown"}

Words == {"Healthy", "Unhealthy", "InProgress", "Backoff", "NoActivity", "CandidatesPresent", "NoCandidates"}

(* The time a condition is probed at, and what the registry now says of it. *)
ProbedAt(a) == IF a = "scaleDown" THEN scaleDown.time ELSE probeTime
ScaleUpOf(f) == CASE f.scalingUp -> "InProgress"
                  [] ~f.scalingUp /\ ~f.healthy -> "Unhealthy"
                  [] ~f.scalingUp /\ f.healthy /\ f.code # "none" -> "Backoff"
                  [] OTHER -> "NoActivity"
Said(f, count, a) ==
    IF a = "health" THEN IF f.healthy THEN "Healthy" ELSE "Unhealthy"
    ELSE IF a = "scaleUp" THEN ScaleUpOf(f)
    ELSE IF count > 0 THEN "CandidatesPresent" ELSE "NoCandidates"
Says(g, a) == Said(facts[g], scaleDown.count[g], a)
Told == {<<g, a, ProbedAt(a), Says(g, a)>> : g \in RunningGroups(facts), a \in Aspects}
Last(g, a) == IF g \in DOMAIN lastStatus.groups THEN lastStatus.groups[g][a] ELSE NoCondition

(* Nothing was published for a time to come, and what was published for the *)
(* present time is what the registry says now.                              *)
PublishedOK ==
    \A p \in published :
       \E g \in Groups, a \in Aspects, t \in Nat, s \in Words :
          p = <<g, a, t, s>> /\ t <= ProbedAt(a) /\ (t = ProbedAt(a) => s = Says(g, a))

DatedOK(g, a, c) ==
    /\ c.transition \in Nat /\ c.probe \in Nat
    /\ c.transition <= c.probe /\ c.probe <= ProbedAt(a)
    /\ <<g, a, c.transition, c.status>> \in published
    /\ \A p \in published : p[1] = g /\ p[2] = a /\ p[3] >= c.transition => p[4] = c.status

GaugesOK == \A g \in DOMAIN lastStatus.groups : \A r \in DOMAIN gauges[g] : gauges[g][r] => r = facts[g].code

StatusInv ==
    /\ probeTime \in Nat /\ scaleDown.time \in Nat /\ scaleDown.time <= probeTime
    /\ DOMAIN lastStatus.groups \subseteq {g \in Groups : facts[g].there}
    /\ ~up => DOMAIN lastStatus.groups = {}
    /\ PublishedOK
    /\ \A g \in DOMAIN lastStatus.groups, a \in Aspects : DatedOK(g, a, lastStatus.groups[g][a])
    /\ writing = [on |-> writing.on, status |-> writing.status, got |-> writing.got, touched |-> writing.touched]
    /\ ~writing.on \/ writing.status.autoscaler # "Running" => GaugesOK

(* The statuses are never the empty one of a condition that is new.         *)
LEMMA SaysSomething == \A f, count, a : Said(f, count, a) \in Words
  <1> SUFFICES ASSUME NEW f, NEW count, NEW a PROVE Said(f, count, a) \in Words
    OBVIOUS
  <1>1. CASE f.scalingUp
    BY <1>1 DEF Said, ScaleUpOf, Words
  <1>2. CASE ~f.scalingUp /\ ~f.healthy
    BY <1>2 DEF Said, ScaleUpOf, Words
  <1>3. CASE ~f.scalingUp /\ f.healthy /\ f.code # "none"
    BY <1>3 DEF Said, ScaleUpOf, Words
  <1>4. CASE ~f.scalingUp /\ f.healthy /\ f.code = "none"
    BY <1>4 DEF Said, ScaleUpOf, Words
  <1>5. QED
    BY <1>1, <1>2, <1>3, <1>4

(* Times in order.                                                          *)
LEMMA InOrder == \A x, y, z, w \in Nat : x <= y /\ y <= z /\ z <= w => x <= w
  OBVIOUS

LEMMA SameTime == \A x, y \in Nat : x <= y /\ x >= y => x = y
  OBVIOUS

LEMMA AtLatestNow == \A x \in Nat : x <= x
  OBVIOUS

LEMMA StillBefore == \A t, x, y \in Nat : t <= x /\ x <= y => t <= y /\ (t = y => t = x)
  OBVIOUS

(* Each builder dates what the facts say of its condition.                  *)
LEMMA BuildersSay ==
    \A f, count, time, last :
       /\ buildHealthStatusNodeGroup(f.healthy, time, last) = Dated(Said(f, count, "health"), time, last)
       /\ buildScaleUpStatusNodeGroup(f, time, last) = Dated(Said(f, count, "scaleUp"), time, last)
       /\ buildScaleDownStatusNodeGroup(count, time, last) = Dated(Said(f, count, "scaleDown"), time, last)
  BY DEF buildHealthStatusNodeGroup, buildScaleUpStatusNodeGroup, buildScaleDownStatusNodeGroup, Said, ScaleUpOf

LEMMA NothingYet == \A a \in Aspects : NoConditions[a] = NoCondition
  BY DEF NoConditions, Aspects

(* What an iteration that publishes a status makes of a condition.          *)
LEMMA RunBuilds ==
    ASSUME Run, NEW g \in RunningGroups(facts'), NEW a \in Aspects
    PROVE  lastStatus'.groups[g][a] = Dated(Says(g, a)', ProbedAt(a)', Last(g, a))
  <1> DEFINE last == IF g \in DOMAIN lastStatus.groups THEN lastStatus.groups[g] ELSE NoConditions
  <1>1. lastStatus'.groups[g] =
           [health |-> buildHealthStatusNodeGroup(facts'[g].healthy, probeTime', last.health),
            scaleUp |-> buildScaleUpStatusNodeGroup(facts'[g], probeTime', last.scaleUp),
            scaleDown |-> buildScaleDownStatusNodeGroup(scaleDown'.count[g], scaleDown'.time, last.scaleDown)]
    BY Zenon DEF Run, GetStatus
  <1>2. last[a] = Last(g, a)
    BY NothingYet, Zenon DEF Last
  <1> HIDE DEF last
  <1>3. CASE a = "health"
    <2>1. lastStatus'.groups[g][a] = buildHealthStatusNodeGroup(facts'[g].healthy, probeTime', Last(g, a))
      BY <1>1, <1>2, <1>3
    <2>2. ProbedAt(a)' = probeTime' /\ Says(g, a)' = Said(facts'[g], scaleDown'.count[g], "health")
      BY <1>3, Zenon DEF ProbedAt, Says
    <2>3. buildHealthStatusNodeGroup(facts'[g].healthy, probeTime', Last(g, a))
          = Dated(Said(facts'[g], scaleDown'.count[g], "health"), probeTime', Last(g, a))
      BY BuildersSay, Zenon
    <2>4. QED
      BY <2>1, <2>2, <2>3, Zenon
  <1>4. CASE a = "scaleUp"
    <2>1. lastStatus'.groups[g][a] = buildScaleUpStatusNodeGroup(facts'[g], probeTime', Last(g, a))
      BY <1>1, <1>2, <1>4
    <2>2. ProbedAt(a)' = probeTime' /\ Says(g, a)' = Said(facts'[g], scaleDown'.count[g], "scaleUp")
      BY <1>4, Zenon DEF ProbedAt, Says
    <2>3. buildScaleUpStatusNodeGroup(facts'[g], probeTime', Last(g, a))
          = Dated(Said(facts'[g], scaleDown'.count[g], "scaleUp"), probeTime', Last(g, a))
      BY BuildersSay, Zenon
    <2>4. QED
      BY <2>1, <2>2, <2>3, Zenon
  <1>5. CASE a = "scaleDown"
    <2>1. lastStatus'.groups[g][a] =
             buildScaleDownStatusNodeGroup(scaleDown'.count[g], scaleDown'.time, Last(g, a))
      BY <1>1, <1>2, <1>5
    <2>2. ProbedAt(a)' = scaleDown'.time /\ Says(g, a)' = Said(facts'[g], scaleDown'.count[g], "scaleDown")
      BY <1>5, Zenon DEF ProbedAt, Says
    <2>3. buildScaleDownStatusNodeGroup(scaleDown'.count[g], scaleDown'.time, Last(g, a))
          = Dated(Said(facts'[g], scaleDown'.count[g], "scaleDown"), scaleDown'.time, Last(g, a))
      BY BuildersSay, Zenon
    <2>4. QED
      BY <2>1, <2>2, <2>3, Zenon
  <1>6. QED
    BY <1>3, <1>4, <1>5, Zenon DEF Aspects

LEMMA DatedFields ==
    ASSUME NEW status, NEW probe, NEW last
    PROVE  /\ Dated(status, probe, last).probe = probe /\ Dated(status, probe, last).status = status
           /\ Dated(status, probe, last).transition = IF last.status = status THEN last.transition ELSE probe
  BY DEF Dated

(* What an iteration publishes.                                             *)
LEMMA RunPublishes ==
    ASSUME Run
    PROVE  /\ DOMAIN lastStatus'.groups = RunningGroups(facts')
           /\ published' = published \cup Told'
  <1>1. DOMAIN lastStatus'.groups = RunningGroups(facts')
    BY Zenon DEF Run, GetStatus
  <1>2. ASSUME NEW g \in RunningGroups(facts'), NEW a \in Aspects
        PROVE  lastStatus'.groups[g][a].probe = ProbedAt(a)' /\ lastStatus'.groups[g][a].status = Says(g, a)'
    <2>1. lastStatus'.groups[g][a] = Dated(Says(g, a)', ProbedAt(a)', Last(g, a))
      BY RunBuilds, Zenon
    <2>2. QED
      BY <2>1, DatedFields
  <1> DEFINE made == UNION {{<<g, a, lastStatus'.groups[g][a].probe, lastStatus'.groups[g][a].status>> : a \in Aspects}
                             : g \in RunningGroups(facts')}
  <1>3. published' = published \cup made
    BY <1>1, Zenon DEF Run, Conditions, Aspects
  <1>4. made = Told'
    BY <1>2 DEF Told
  <1> HIDE DEF made
  <1>5. QED
    BY <1>1, <1>3, <1>4, Zenon

(* Between two iterations times do not go back, and what the registry says  *)
(* of a time stays.                                                         *)
LEMMA RunGoesOn ==
    ASSUME StatusInv, Run
    PROVE  /\ probeTime' \in Nat /\ scaleDown'.time \in Nat /\ scaleDown'.time <= probeTime'
           /\ \A g \in Groups, a \in Aspects :
                /\ ProbedAt(a)' \in Nat /\ ProbedAt(a) \in Nat /\ ProbedAt(a) <= ProbedAt(a)'
                /\ ProbedAt(a)' = ProbedAt(a) => Says(g, a)' = Says(g, a)
  <1>1. CASE probeTime' = probeTime + 1
    <2>1. scaleDown' = scaleDown \/ scaleDown'.time = probeTime'
      BY <1>1 DEF Run, UpdateScaleDownCandidates, StatusInv
    <2>2. QED
      BY <1>1, <2>1 DEF StatusInv, ProbedAt, Says, Said, Aspects
  <1>2. CASE UNCHANGED <<probeTime, facts, healthy, scaleDown>>
    BY <1>2 DEF StatusInv, ProbedAt, Says, Aspects
  <1>3. QED
    BY <1>1, <1>2, Zenon DEF Run

(* An iteration dates its conditions truly.                                 *)
LEMMA RunDates ==
    ASSUME StatusInv, Run
    PROVE  /\ PublishedOK'
           /\ \A g \in DOMAIN lastStatus'.groups, a \in Aspects : DatedOK(g, a, lastStatus.groups[g][a])'
  <1>1. PublishedOK'
    <2> SUFFICES ASSUME NEW p \in published'
                 PROVE  \E g \in Groups, a \in Aspects, t \in Nat, s \in Words :
                           p = <<g, a, t, s>> /\ t <= ProbedAt(a)' /\ (t = ProbedAt(a)' => s = Says(g, a)')
      BY DEF PublishedOK
    <2>1. CASE p \in published
      <3>1. PICK g \in Groups, a \in Aspects, t \in Nat, s \in Words :
                   p = <<g, a, t, s>> /\ t <= ProbedAt(a) /\ (t = ProbedAt(a) => s = Says(g, a))
        BY <2>1 DEF StatusInv, PublishedOK
      <3>2. t <= ProbedAt(a)' /\ (t = ProbedAt(a)' => s = Says(g, a)')
        BY <3>1, RunGoesOn
      <3>3. QED
        BY <3>1, <3>2, Zenon
    <2>2. CASE p \notin published
      <3>1. PICK g \in RunningGroups(facts'), a \in Aspects : p = <<g, a, ProbedAt(a)', Says(g, a)'>>
        <4>1. p \in Told'
          BY <2>2, RunPublishes, Zenon
        <4>2. QED
          BY <4>1 DEF Told
      <3>2. g \in Groups /\ ProbedAt(a)' \in Nat /\ Says(g, a)' \in Words
        <4>1. g \in Groups
          BY Zenon DEF RunningGroups
        <4>2. Says(g, a)' \in Words
          BY SaysSomething DEF Says
        <4>3. QED
          BY <4>1, <4>2, RunGoesOn
      <3>3. QED
        BY <3>1, <3>2
    <2>3. QED
      BY <2>1, <2>2
  <1>2. ASSUME NEW g \in DOMAIN lastStatus'.groups, NEW a \in Aspects
        PROVE  DatedOK(g, a, lastStatus.groups[g][a])'
    <2> DEFINE c == lastStatus'.groups[g][a]
    <2>1. g \in RunningGroups(facts') /\ g \in Groups
      BY RunPublishes DEF RunningGroups
    <2>2. c = Dated(Says(g, a)', ProbedAt(a)', Last(g, a))
      BY <2>1, RunBuilds, Zenon
    <2>3. c.status = Says(g, a)' /\ c.probe = ProbedAt(a)'
          /\ c.transition = IF Last(g, a).status = Says(g, a)' THEN Last(g, a).transition ELSE ProbedAt(a)'
      BY <2>2, DatedFields
    <2>4. <<g, a, ProbedAt(a)', Says(g, a)'>> \in published'
      <3>1. <<g, a, ProbedAt(a)', Says(g, a)'>> \in Told'
        BY <2>1 DEF Told
      <3>2. QED
        BY <3>1, RunPublishes, Zenon
    <2>5. ASSUME NEW p \in published' \ published PROVE p[4] = Says(p[1], p[2])'
      <3>1. PICK h \in RunningGroups(facts'), b \in Aspects : p = <<h, b, ProbedAt(b)', Says(h, b)'>>
        <4>1. p \in Told'
          BY <2>5, RunPublishes, Zenon
        <4>2. QED
          BY <4>1 DEF Told
      <3>2. QED
        BY <3>1
    <2>6. ProbedAt(a)' \in Nat /\ ProbedAt(a) \in Nat /\ ProbedAt(a) <= ProbedAt(a)'
      BY <2>1, RunGoesOn, Zenon
    <2> HIDE DEF c
    <2>7. CASE Last(g, a).status = Says(g, a)'
      <3>1. g \in DOMAIN lastStatus.groups
        <4>1. Says(g, a)' \in Words
          BY SaysSomething DEF Says
        <4>2. Says(g, a)' # ""
          BY <4>1, Zenon DEF Words
        <4>3. QED
          BY <2>7, <4>2, Zenon DEF Last, NoCondition
      <3>2. DatedOK(g, a, Last(g, a))
        BY <3>1, Zenon DEF Last, StatusInv
      <3>3. c.transition = Last(g, a).transition
        BY <2>3, <2>7, Zenon
      <3>4. c.transition \in Nat /\ c.probe \in Nat /\ c.transition <= c.probe /\ c.probe <= ProbedAt(a)'
        <4>1. /\ Last(g, a).transition \in Nat /\ Last(g, a).probe \in Nat
              /\ Last(g, a).transition <= Last(g, a).probe /\ Last(g, a).probe <= ProbedAt(a)
          BY <3>2, Zenon DEF DatedOK
        <4>2. Last(g, a).transition <= ProbedAt(a)'
          BY <2>6, <4>1, InOrder, Zenon
        <4>3. QED
          BY <2>3, <2>6, <3>3, <4>1, <4>2, AtLatestNow, Zenon
      <3>5. <<g, a, c.transition, c.status>> \in published'
        <4>1. <<g, a, Last(g, a).transition, Last(g, a).status>> \in published
          BY <3>2, Zenon DEF DatedOK
        <4>2. <<g, a, Last(g, a).transition, Last(g, a).status>> \in published'
          BY <4>1, RunPublishes, Zenon
        <4>3. QED
          BY <2>3, <2>7, <3>3, <4>2, Zenon
      <3>6. ASSUME NEW p \in published', p[1] = g, p[2] = a, p[3] >= c.transition PROVE p[4] = c.status
        BY <2>3, <2>5, <2>7, <3>2, <3>3, <3>6, Zenon DEF DatedOK
      <3>7. QED
        BY <3>4, <3>5, <3>6, Zenon DEF DatedOK, c
    <2>8. CASE Last(g, a).status # Says(g, a)'
      <3>1. c.transition = ProbedAt(a)'
        BY <2>3, <2>8, Zenon
      <3>2. ASSUME NEW p \in published', p[1] = g, p[2] = a, p[3] >= c.transition PROVE p[4] = c.status
        <4>1. PICK h \in Groups, b \in Aspects, t \in Nat, s \in Words :
                 p = <<h, b, t, s>> /\ t <= ProbedAt(b)' /\ (t = ProbedAt(b)' => s = Says(h, b)')
          BY <1>1 DEF PublishedOK
        <4>2. h = g /\ b = a /\ p[3] = t /\ p[4] = s
          BY <3>2, <4>1
        <4>3. t = ProbedAt(a)'
          <5>1. t <= ProbedAt(a)' /\ t >= ProbedAt(a)'
            BY <3>1, <3>2, <4>1, <4>2, Zenon
          <5>2. QED
            BY <2>6, <5>1, SameTime, Zenon
        <4>4. QED
          BY <2>3, <4>1, <4>2, <4>3
      <3>3. QED
        <4>1. <<g, a, c.transition, c.status>> \in published'
          BY <2>3, <2>4, <3>1, Zenon
        <4>2. /\ c.transition \in Nat /\ c.probe \in Nat
              /\ c.transition <= c.probe /\ c.probe <= ProbedAt(a)'
          BY <2>3, <2>6, <3>1, AtLatestNow, Zenon
        <4>3. QED
          BY <3>2, <4>1, <4>2, Zenon DEF DatedOK, c
    <2>9. QED
      BY <2>7, <2>8, Zenon
  <1>3. QED
    BY <1>1, <1>2

(* What the invariant says of the conditions depends on nothing else.       *)
LEMMA OthersDoNotDate ==
    ASSUME StatusInv, UNCHANGED <<facts, scaleDown, lastStatus, published>>, probeTime' \in {probeTime, probeTime + 1}
    PROVE  /\ probeTime' \in Nat /\ scaleDown'.time \in Nat /\ scaleDown'.time <= probeTime'
           /\ DOMAIN lastStatus'.groups \subseteq {g \in Groups : facts'[g].there}
           /\ PublishedOK'
           /\ \A g \in DOMAIN lastStatus'.groups, a \in Aspects : DatedOK(g, a, lastStatus.groups[g][a])'
  <1>1. probeTime' \in Nat /\ scaleDown'.time \in Nat /\ scaleDown'.time <= probeTime'
        /\ DOMAIN lastStatus'.groups \subseteq {g \in Groups : facts'[g].there}
    BY DEF StatusInv
  <1>2. \A a : ProbedAt(a) \in Nat /\ ProbedAt(a)' \in Nat /\ ProbedAt(a) <= ProbedAt(a)'
    BY DEF StatusInv, ProbedAt
  <1>3. \A g, a : Says(g, a)' = Says(g, a)
    BY DEF Says
  <1>4. PublishedOK'
    <2> SUFFICES ASSUME NEW p \in published'
                 PROVE  \E g \in Groups, a \in Aspects, t \in Nat, s \in Words :
                           p = <<g, a, t, s>> /\ t <= ProbedAt(a)' /\ (t = ProbedAt(a)' => s = Says(g, a)')
      BY Zenon DEF PublishedOK
    <2>1. PICK g \in Groups, a \in Aspects, t \in Nat, s \in Words :
                 p = <<g, a, t, s>> /\ t <= ProbedAt(a) /\ (t = ProbedAt(a) => s = Says(g, a))
      BY Zenon DEF StatusInv, PublishedOK
    <2>2. t <= ProbedAt(a)' /\ (t = ProbedAt(a)' => t = ProbedAt(a))
      BY <1>2, <2>1, StillBefore, Zenon
    <2>3. s = Says(g, a) => s = Says(g, a)'
      BY <1>3, Zenon
    <2>4. QED
      BY <2>1, <2>2, <2>3, Zenon
  <1>5. ASSUME NEW g \in DOMAIN lastStatus'.groups, NEW a \in Aspects PROVE DatedOK(g, a, lastStatus.groups[g][a])'
    <2>1. DatedOK(g, a, lastStatus.groups[g][a])
      BY Zenon DEF StatusInv
    <2> DEFINE c == lastStatus.groups[g][a]
    <2>2. c.probe \in Nat /\ c.probe <= ProbedAt(a)
      BY <2>1, Zenon DEF DatedOK
    <2> HIDE DEF c
    <2>3. c.probe <= ProbedAt(a)'
      BY <1>2, <2>2, StillBefore, Zenon
    <2>4. lastStatus' = lastStatus /\ published' = published
      OBVIOUS
    <2>5. QED
      BY <2>1, <2>3, <2>4, Zenon DEF DatedOK, c
  <1>6. QED
    BY <1>1, <1>4, <1>5

(* A write keeps the record of what is being written.                       *)
LEMMA WritesWhatItIsGiven ==
    ASSUME NEW status, StartWrite(status)
    PROVE  /\ writing' = [on |-> writing'.on, status |-> writing'.status, got |-> writing'.got, touched |-> writing'.touched]
           /\ writing'.on = TRUE /\ writing'.status = status
  <1>1. \E got : writing' = [on |-> TRUE, status |-> status, got |-> got, touched |-> FALSE]
    <2>1. CASE writing' = [on |-> TRUE, status |-> status, touched |-> FALSE,
                           got |-> IF configMap = Nowhere THEN "missing" ELSE "found"]
      BY <2>1, Zenon
    <2>2. CASE writing' = [NotWriting EXCEPT !.on = TRUE, !.status = status, !.got = "error"]
      BY <2>2, Zenon DEF NotWriting
    <2>3. QED
      BY <2>1, <2>2, Zenon DEF StartWrite
  <1>2. QED
    BY <1>1

(* The gauges of the groups that are there name their present reason.       *)
LEMMA ProcessSetsGauges ==
    ASSUME NEW g \in Groups, facts[g].there, NEW r \in DOMAIN Process[g], Process[g][r]
    PROVE  r = facts[g].code
  <1>1. Process[g] = updateNodeGroupBackoffStatusMetrics(gauges[g], facts[g].code)
    BY DEF Process
  <1>2. Process[g][r] = (r = facts[g].code)
    BY <1>1, Zenon DEF updateNodeGroupBackoffStatusMetrics
  <1>3. QED
    BY <1>2, Zenon

(* The invariant is inductive: one step per action.                         *)
LEMMA StatusInductive == StatusInv /\ [StatusNext]_statusVars => StatusInv'
  <1> SUFFICES ASSUME StatusInv, [StatusNext]_statusVars PROVE StatusInv'
    OBVIOUS
  <1> DEFINE Record(w) == w = [on |-> w.on, status |-> w.status, got |-> w.got, touched |-> w.touched]
  <1>0. Record(NotWriting) /\ NotWriting.on = FALSE
    BY DEF NotWriting
  <1>1. CASE Start
    <2>1. /\ StartWrite([EmptyClusterAutoscalerStatus EXCEPT !.time = probeTime])
          /\ UNCHANGED <<probeTime, facts, scaleDown, lastStatus, gauges, up, published>> /\ ~up
      BY <1>1 DEF Start
    <2>2. GaugesOK'
      BY <2>1, Zenon DEF StatusInv, GaugesOK
    <2>3. QED
      BY <2>1, <2>2, OthersDoNotDate, WritesWhatItIsGiven, Zenon DEF StatusInv
  <1>2. CASE Started
    <2>1. /\ UNCHANGED <<probeTime, facts, scaleDown, lastStatus, gauges, published>> /\ ~up /\ writing' = NotWriting
      BY <1>2 DEF Started
    <2>2. GaugesOK'
      BY <2>1, Zenon DEF StatusInv, GaugesOK
    <2>3. DOMAIN lastStatus'.groups = {}
      BY <2>1, Zenon DEF StatusInv
    <2>4. QED
      BY <1>0, <2>1, <2>2, <2>3, OthersDoNotDate, Zenon DEF StatusInv
  <1>3. CASE Run
    <2>1. /\ writing'.on = TRUE /\ writing'.status = lastStatus' /\ Record(writing')
      BY <1>3, WritesWhatItIsGiven, Zenon DEF Run
    <2>2. lastStatus'.autoscaler = "Running" /\ up /\ up' = up
      BY <1>3, Zenon DEF Run, GetStatus
    <2>3. DOMAIN lastStatus'.groups \subseteq {g \in Groups : facts'[g].there}
      <3>1. DOMAIN lastStatus'.groups = RunningGroups(facts')
        BY <1>3, RunPublishes, Zenon
      <3>2. RunningGroups(facts') \subseteq {g \in Groups : facts'[g].there}
        BY Zenon DEF RunningGroups
      <3>3. QED
        BY <3>1, <3>2, Zenon
    <2>4. QED
      BY <1>3, <2>1, <2>2, <2>3, RunGoesOn, RunDates, Zenon DEF StatusInv
  <1>4. CASE RunOnEmptyCluster
    <2>1. /\ StartWrite([EmptyClusterAutoscalerStatus EXCEPT !.time = probeTime'])
          /\ UNCHANGED <<facts, scaleDown, lastStatus, gauges, up, published>> /\ up /\ ~writing.on
          /\ probeTime' = probeTime + 1
      BY <1>4 DEF RunOnEmptyCluster
    <2>2. GaugesOK'
      BY <2>1, Zenon DEF StatusInv, GaugesOK
    <2>3. QED
      BY <2>1, <2>2, OthersDoNotDate, WritesWhatItIsGiven, Zenon DEF StatusInv
  <1>5. CASE Finish
    <2>1. /\ UNCHANGED <<probeTime, facts, scaleDown, lastStatus, up, published>> /\ up /\ writing' = NotWriting
          /\ gauges' = IF writing.status.autoscaler = "Running" THEN Process ELSE gauges
      BY <1>5 DEF Finish
    <2>2. GaugesOK'
      <3>1. CASE writing.status.autoscaler = "Running"
        BY <2>1, <3>1, ProcessSetsGauges DEF StatusInv, GaugesOK
      <3>2. CASE writing.status.autoscaler # "Running"
        BY <2>1, <3>2 DEF StatusInv, GaugesOK
      <3>3. QED
        BY <3>1, <3>2, Zenon
    <2>3. QED
      BY <1>0, <2>1, <2>2, OthersDoNotDate, Zenon DEF StatusInv
  <1>6. CASE OthersWrite
    <2>1. /\ UNCHANGED <<probeTime, facts, scaleDown, lastStatus, gauges, up, published>>
          /\ writing' = [writing EXCEPT !.touched = writing.on]
      BY <1>6 DEF OthersWrite
    <2>2. Record(writing') /\ writing'.on = writing.on /\ writing'.status = writing.status
      BY <2>1 DEF StatusInv
    <2>3. ~writing.on \/ writing.status.autoscaler # "Running" => GaugesOK'
      BY <2>1, Zenon DEF StatusInv, GaugesOK
    <2>4. QED
      BY <2>1, <2>2, <2>3, OthersDoNotDate, Zenon DEF StatusInv
  <1>7. CASE Exit
    <2>1. /\ probeTime' = probeTime /\ scaleDown' = NoCandidates /\ lastStatus' = EmptyClusterAutoscalerStatus
          /\ published' = {} /\ writing' = NotWriting
      BY <1>7 DEF Exit
    <2>2. DOMAIN lastStatus'.groups = {} /\ scaleDown'.time = 0
      BY <2>1, Zenon DEF EmptyClusterAutoscalerStatus, NoCandidates, Never
    <2>3. QED
      BY <1>0, <2>1, <2>2 DEF StatusInv, PublishedOK, GaugesOK
  <1>8. CASE UNCHANGED statusVars
    <2>1. UNCHANGED <<probeTime, facts, scaleDown, lastStatus, gauges, up, published, writing>>
      BY <1>8, Zenon DEF statusVars
    <2>2. GaugesOK' <=> GaugesOK
      BY <2>1 DEF GaugesOK
    <2>3. QED
      BY <2>1, <2>2, OthersDoNotDate, Zenon DEF StatusInv
  <1>9. QED
    BY <1>1, <1>2, <1>3, <1>4, <1>5, <1>6, <1>7, <1>8 DEF StatusNext, StatusLoop

(* The conditions of the status are dated truly and the gauges name the     *)
(* reason a group is backed off for, for any groups, any facts about them   *)
(* and any troubles with the ConfigMap (GetStatus, the build*Status         *)
(* functions and updateNodeGroupBackoffStatusMetrics).                      *)
THEOREM StatusAlwaysTrue == StatusSpec => []StatusIsTrue
  <1>1. ASSUME StatusInit PROVE StatusInv
    <2>1. /\ NotWriting = [on |-> NotWriting.on, status |-> NotWriting.status, got |-> NotWriting.got,
                           touched |-> NotWriting.touched]
      BY DEF NotWriting
    <2>2. DOMAIN lastStatus.groups = {} /\ scaleDown.time = 0
      BY <1>1, Zenon DEF StatusInit, EmptyClusterAutoscalerStatus, NoCandidates, Never
    <2>3. QED
      BY <1>1, <2>1, <2>2 DEF StatusInit, StatusInv, PublishedOK, GaugesOK
  <1>2. StatusInv => StatusIsTrue
    BY Zenon DEF StatusInv, StatusIsTrue, TransitionsDated, GaugesAreCurrent, GaugesOK, DatedOK, Aspects
  <1>3. QED
    BY <1>1, <1>2, StatusInductive, PTL DEF StatusSpec
=============================================================================
