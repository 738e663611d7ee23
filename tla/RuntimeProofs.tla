---------------------------- MODULE RuntimeProofs ----------------------------
(***************************************************************************)
(* Proofs about what lives as long as the process: the exponential backoff *)
(* (Backoff), the lease, the trigger of the iterations and the debugging   *)
(* snapshot (AutoscalerProcess).                                           *)
(***************************************************************************)
EXTENDS Backoff, AutoscalerProcess, TLAPS
-----------------------------------------------------------------------------
(***************************************************************************)
(* The backoff of the node groups, for any number of groups, any durations *)
(* and any lag of the callers' clocks.                                     *)
(***************************************************************************)

(* What an entry of the map satisfies.  The last conjunct strengthens       *)
(* EscalationIsEarned: it counts from the last registered failure, which is *)
(* what the next call of Backoff compares its currentTime with.             *)
EntryOK(g) ==
    LET info == backoffInfo[g]
    IN  info # NoInfo =>
          /\ info.lastFailedExecution <= now
          /\ info.backoffUntil = info.lastFailedExecution + info.duration
          /\ (now - firstFailure[g]) + MaxLag * escalations[g]
                >= info.duration - InitialBackoffDuration
          /\ (info.lastFailedExecution - firstFailure[g]) + MaxLag * escalations[g] + MaxLag
                >= info.duration - InitialBackoffDuration

IInv == TypeOK /\ \A g \in NodeGroups : EntryOK(g)

(* The arithmetic of one more escalation.                                   *)
LEMMA OneMoreEscalation ==
    \A n \in Nat : MaxLag * (n + 1) = MaxLag * n + MaxLag /\ MaxLag * n \in Nat
  BY DurationsAssumption

(* The next duration of a group is within the limits and never smaller than *)
(* the stored one.                                                          *)
LEMMA NextDurationRange ==
    ASSUME NEW info \in Infos \cup {NoInfo}, NEW t \in Int,
           info # NoInfo =>
             info.duration \in InitialBackoffDuration .. MaxBackoffDuration
    PROVE  /\ NextDuration(info, t) \in InitialBackoffDuration .. MaxBackoffDuration
           /\ info # NoInfo => NextDuration(info, t) >= info.duration
           /\ info # NoInfo => NextDuration(info, t) <= 2 * info.duration
  <1>1. CASE info = NoInfo
    BY <1>1, DurationsAssumption DEF NextDuration
  <1>2. CASE info # NoInfo /\ IsBackedOff(info, t)
    BY <1>2, DurationsAssumption DEF NextDuration, Infos
  <1>3. CASE info # NoInfo /\ ~IsBackedOff(info, t)
    <2>1. NextDuration(info, t) = Doubled(info.duration)
      BY <1>3 DEF NextDuration
    <2>2. QED
      BY <1>3, <2>1, DurationsAssumption DEF Doubled, Infos
  <1>4. QED
    BY <1>1, <1>2, <1>3

(* One call of Backoff keeps the invariant.                                 *)
LEMMA BackOffInductive ==
    ASSUME IInv, NEW g \in NodeGroups, NEW e \in ErrorInfos, NEW t \in CallTimes,
           BackOff(g, e, t)
    PROVE  IInv'
  <1> DEFINE info == backoffInfo[g]
  <1> DEFINE d == NextDuration(info, t)
  <1> DEFINE new == [duration |-> d, backoffUntil |-> t + d,
                     lastFailedExecution |-> t, errorInfo |-> e]
  <1>1. now \in Nat /\ t \in Int /\ t <= now /\ t >= now - MaxLag /\ now' = now
    BY DurationsAssumption DEF IInv, TypeOK, CallTimes, BackOff
  <1>2. info \in Infos \cup {NoInfo}
        /\ (info # NoInfo => info.duration \in InitialBackoffDuration .. MaxBackoffDuration)
    BY DEF IInv, TypeOK
  <1>3. /\ d \in InitialBackoffDuration .. MaxBackoffDuration
        /\ info # NoInfo => d >= info.duration
        /\ info # NoInfo => d <= 2 * info.duration
    BY <1>1, <1>2, NextDurationRange
  <1>4. backoffInfo' = [backoffInfo EXCEPT ![g] = new]
    BY DEF BackOff, AfterBackoff
  <1>5. new \in Infos
    <2>1. d \in Nat
      BY <1>3, DurationsAssumption
    <2>2. QED
      BY <1>1, <2>1 DEF Infos
  <1>6. backoffInfo \in [NodeGroups -> Infos \cup {NoInfo}]
        /\ firstFailure \in [NodeGroups -> Int] /\ escalations \in [NodeGroups -> Nat]
    BY DEF IInv, TypeOK
  <1>7. backoffInfo' \in [NodeGroups -> Infos \cup {NoInfo}] /\ backoffInfo'[g] = new
        /\ \A h \in NodeGroups : h # g => backoffInfo'[h] = backoffInfo[h]
    BY <1>4, <1>5, <1>6
  <1>8. new # NoInfo
    BY <1>5, NoInfoAssumption
  <1>9. /\ firstFailure' \in [NodeGroups -> Int]
        /\ firstFailure'[g] = IF info = NoInfo THEN t ELSE firstFailure[g]
        /\ \A h \in NodeGroups : h # g => firstFailure'[h] = firstFailure[h]
    BY <1>1, <1>6 DEF BackOff
  <1>10. /\ escalations' \in [NodeGroups -> Nat]
         /\ \A h \in NodeGroups : h # g => escalations'[h] = escalations[h]
         /\ info = NoInfo => escalations'[g] = 0
         /\ (info # NoInfo /\ IsBackedOff(info, t)) => escalations'[g] = escalations[g]
         /\ (info # NoInfo /\ ~IsBackedOff(info, t)) => escalations'[g] = escalations[g] + 1
    BY <1>6 DEF BackOff
  <1> HIDE DEF d, info
  <1>11. TypeOK'
    BY <1>1, <1>3, <1>5, <1>6, <1>7, <1>9, <1>10 DEF TypeOK, IInv
  <1>12. ASSUME NEW h \in NodeGroups, h # g PROVE EntryOK(h)'
    BY <1>1, <1>7, <1>9, <1>10, <1>12 DEF IInv, EntryOK
  <1>13. EntryOK(g)'
    <2>0. /\ new.duration = d /\ new.backoffUntil = t + d /\ new.lastFailedExecution = t
      OBVIOUS
    <2>1. SUFFICES
          /\ (now - firstFailure'[g]) + MaxLag * escalations'[g] >= d - InitialBackoffDuration
          /\ (t - firstFailure'[g]) + MaxLag * escalations'[g] + MaxLag
               >= d - InitialBackoffDuration
      BY <1>1, <1>7, <2>0 DEF EntryOK
    <2>2. d \in Nat /\ InitialBackoffDuration \in Nat /\ MaxLag \in Nat
      BY <1>3, DurationsAssumption
    <2>3. CASE info = NoInfo
      <3>1. d = InitialBackoffDuration
        BY <2>3 DEF d, NextDuration
      <3>2. QED
        BY <1>1, <1>9, <1>10, <2>2, <2>3, <3>1
    <2>4. CASE info # NoInfo
      <3>1. /\ info.lastFailedExecution \in Int /\ info.duration \in Nat
            /\ firstFailure[g] \in Int /\ escalations[g] \in Nat
            /\ info.backoffUntil = info.lastFailedExecution + info.duration
            /\ (now - firstFailure[g]) + MaxLag * escalations[g]
                  >= info.duration - InitialBackoffDuration
            /\ (info.lastFailedExecution - firstFailure[g]) + MaxLag * escalations[g] + MaxLag
                  >= info.duration - InitialBackoffDuration
        BY <1>2, <1>6, <2>4 DEF IInv, EntryOK, Infos, info
      <3>2. MaxLag * (escalations[g] + 1) = MaxLag * escalations[g] + MaxLag
            /\ MaxLag * escalations[g] \in Nat
        BY <3>1, OneMoreEscalation
      <3>3. CASE IsBackedOff(info, t)
        <4>1. d = info.duration
          BY <2>4, <3>3 DEF d, NextDuration
        <4>2. firstFailure'[g] = firstFailure[g] /\ escalations'[g] = escalations[g]
          BY <1>9, <1>10, <2>4, <3>3
        <4>3. QED
          BY <1>1, <2>2, <3>1, <3>2, <4>1, <4>2
      <3>4. CASE ~IsBackedOff(info, t)
        <4>1. info.lastFailedExecution + info.duration < t
          BY <2>4, <3>1, <3>4 DEF IsBackedOff
        <4>2. firstFailure'[g] = firstFailure[g] /\ escalations'[g] = escalations[g] + 1
          BY <1>9, <1>10, <2>4, <3>4
        <4>3. d <= 2 * info.duration
          BY <1>3, <2>4
        <4>4. QED
          BY <1>1, <2>2, <3>1, <3>2, <4>1, <4>2, <4>3
      <3>5. QED
        BY <3>3, <3>4
    <2>5. QED
      BY <2>3, <2>4
  <1>14. QED
    BY <1>11, <1>12, <1>13 DEF IInv

(* The invariant is inductive: one step per action.                         *)
LEMMA IInvInductive == IInv /\ [Next]_vars => IInv'
  <1> SUFFICES ASSUME IInv, [Next]_vars PROVE IInv'
    OBVIOUS
  <1>1. ASSUME NEW g \in NodeGroups, NEW e \in ErrorInfos, NEW t \in CallTimes,
               BackOff(g, e, t)
        PROVE  IInv'
    BY <1>1, BackOffInductive
  <1>2. ASSUME NEW g \in NodeGroups, RemoveBackoff(g) PROVE IInv'
    BY <1>2 DEF IInv, TypeOK, EntryOK, RemoveBackoff
  <1>3. ASSUME NEW t \in CallTimes, RemoveStaleBackoffData(t) PROVE IInv'
    BY <1>3 DEF IInv, TypeOK, EntryOK, RemoveStaleBackoffData
  <1>4. CASE Tick
    <2>1. TypeOK'
      BY <1>4 DEF IInv, TypeOK, Tick
    <2>2. ASSUME NEW g \in NodeGroups PROVE EntryOK(g)'
      <3>1. /\ now \in Nat /\ firstFailure[g] \in Int /\ escalations[g] \in Nat
            /\ MaxLag * escalations[g] \in Nat
            /\ backoffInfo[g] # NoInfo =>
                 backoffInfo[g].lastFailedExecution \in Int /\ backoffInfo[g].duration \in Nat
        BY OneMoreEscalation DEF IInv, TypeOK, Infos
      <3>2. QED
        BY <1>4, <3>1, DurationsAssumption DEF IInv, EntryOK, Tick
    <2>3. QED
      BY <2>1, <2>2 DEF IInv
  <1>5. CASE UNCHANGED vars
    BY <1>5 DEF IInv, TypeOK, EntryOK, vars
  <1>6. QED
    BY <1>1, <1>2, <1>3, <1>4, <1>5 DEF Next

(* Initially the map is empty.                                              *)
LEMMA InitIInv == Init => IInv
  BY DurationsAssumption DEF Init, IInv, TypeOK, EntryOK

(* The invariant holds in every reachable state.                            *)
THEOREM BackoffInvariant == Spec => []IInv
  BY InitIInv, IInvInductive, PTL DEF Spec

(* Types hold and a duration never leaves its limits, for any constants.    *)
THEOREM TypeCorrect == Spec => []TypeOK
  <1>1. IInv => TypeOK
    BY DEF IInv
  <1>2. QED
    BY <1>1, BackoffInvariant, PTL

(* However the failures of a group are spread over time, Backoff never      *)
(* escalates a duration that was not earned by serving the earlier ones.    *)
THEOREM EscalationEarned == Spec => []EscalationIsEarned
  <1>1. IInv => EscalationIsEarned
    BY DEF IInv, EntryOK, EscalationIsEarned
  <1>2. QED
    BY <1>1, BackoffInvariant, PTL

(* RemoveStaleBackoffData never cuts a running backoff short.               *)
THEOREM StaleRemovalSafe == Spec => StaleRemovalKeepsRunningBackoffs
  <1> DEFINE P(g) == (IsBackedOff(backoffInfo[g], now) /\ backoffInfo'[g] = NoInfo)
                        => RemoveBackoff(g)
  <1>1. ASSUME IInv, [Next]_vars PROVE [\A g \in NodeGroups : P(g)]_vars
    <2> SUFFICES ASSUME NEW g \in NodeGroups, Next, IsBackedOff(backoffInfo[g], now),
                        backoffInfo'[g] = NoInfo
                 PROVE  RemoveBackoff(g)
      BY <1>1
    <2>1. ASSUME NEW h \in NodeGroups, NEW e \in ErrorInfos, NEW t \in CallTimes,
                 BackOff(h, e, t)
          PROVE  RemoveBackoff(g)
      <3>1. backoffInfo' \in [NodeGroups -> Infos \cup {NoInfo}] /\ IInv'
        BY <1>1, <2>1, BackOffInductive DEF IInv, TypeOK
      <3>2. backoffInfo'[h] # NoInfo
        <4>1. backoffInfo'[h] = AfterBackoff(backoffInfo[h], e, t)
          BY <1>1, <2>1 DEF BackOff, IInv, TypeOK
        <4>2. NextDuration(backoffInfo[h], t) \in Nat /\ t \in Int
          <5>1. t \in Int
            BY <1>1, DurationsAssumption DEF IInv, TypeOK, CallTimes
          <5>2. /\ backoffInfo[h] \in Infos \cup {NoInfo}
                /\ backoffInfo[h] # NoInfo =>
                     backoffInfo[h].duration \in InitialBackoffDuration .. MaxBackoffDuration
            BY <1>1 DEF IInv, TypeOK
          <5>3. NextDuration(backoffInfo[h], t) \in InitialBackoffDuration .. MaxBackoffDuration
            BY <5>1, <5>2, NextDurationRange
          <5>4. QED
            BY <5>1, <5>3, DurationsAssumption
        <4>3. AfterBackoff(backoffInfo[h], e, t) \in Infos
          BY <4>2 DEF AfterBackoff, Infos
        <4>4. QED
          BY <4>1, <4>3, NoInfoAssumption
      <3>3. h # g /\ backoffInfo'[g] = backoffInfo[g]
        BY <1>1, <2>1, <3>2 DEF BackOff, IInv, TypeOK
      <3>4. QED
        BY <3>3 DEF IsBackedOff
    <2>2. ASSUME NEW h \in NodeGroups, RemoveBackoff(h) PROVE RemoveBackoff(g)
      <3>1. h = g
        BY <1>1, <2>2 DEF RemoveBackoff, IsBackedOff, IInv, TypeOK
      <3>2. QED
        BY <2>2, <3>1
    <2>3. ASSUME NEW t \in CallTimes, RemoveStaleBackoffData(t) PROVE RemoveBackoff(g)
      <3>1. backoffInfo[g] # NoInfo /\ IsStale(backoffInfo[g], t)
        BY <2>3 DEF IsBackedOff, RemoveStaleBackoffData
      <3>2. /\ backoffInfo[g].lastFailedExecution \in Int
            /\ backoffInfo[g].duration \in InitialBackoffDuration .. MaxBackoffDuration
            /\ backoffInfo[g].backoffUntil
                  = backoffInfo[g].lastFailedExecution + backoffInfo[g].duration
            /\ now \in Nat /\ t \in Int /\ t <= now
        BY <1>1, <3>1, DurationsAssumption DEF IInv, TypeOK, EntryOK, Infos, CallTimes
      <3>3. backoffInfo[g].backoffUntil < now
        BY <3>1, <3>2, DurationsAssumption, ResetAssumption DEF IsStale
      <3>4. QED
        BY <3>3 DEF IsBackedOff
    <2>4. CASE Tick
      BY <2>4 DEF Tick, IsBackedOff
    <2>5. QED
      BY <2>1, <2>2, <2>3, <2>4 DEF Next
  <1>2. QED
    BY <1>1, BackoffInvariant, PTL DEF Spec, StaleRemovalKeepsRunningBackoffs

(* A late failure moves the end of a backoff back by at most the lag.       *)
THEOREM ShrinkBounded == Spec => BackoffShrinksAtMostByLag
  <1> DEFINE P(g) == (backoffInfo[g] # NoInfo /\ backoffInfo'[g] # NoInfo)
             => backoffInfo'[g].backoffUntil >= backoffInfo[g].backoffUntil - MaxLag
  <1>1. ASSUME IInv, [Next]_vars PROVE [\A g \in NodeGroups : P(g)]_vars
    <2> SUFFICES ASSUME NEW g \in NodeGroups, Next, backoffInfo[g] # NoInfo,
                        backoffInfo'[g] # NoInfo
                 PROVE  backoffInfo'[g].backoffUntil >= backoffInfo[g].backoffUntil - MaxLag
      BY <1>1
    <2>0. /\ backoffInfo[g] \in Infos /\ now \in Nat
          /\ backoffInfo[g].lastFailedExecution \in Int
          /\ backoffInfo[g].backoffUntil \in Int
          /\ backoffInfo[g].duration \in InitialBackoffDuration .. MaxBackoffDuration
          /\ backoffInfo[g].lastFailedExecution <= now
          /\ backoffInfo[g].backoffUntil
                = backoffInfo[g].lastFailedExecution + backoffInfo[g].duration
      BY <1>1 DEF IInv, TypeOK, EntryOK, Infos
    <2>1. CASE backoffInfo'[g] = backoffInfo[g]
      BY <2>0, <2>1, DurationsAssumption
    <2>2. ASSUME NEW h \in NodeGroups, NEW e \in ErrorInfos, NEW t \in CallTimes,
                 BackOff(h, e, t), h = g
          PROVE  backoffInfo'[g].backoffUntil >= backoffInfo[g].backoffUntil - MaxLag
      <3>1. backoffInfo'[g] = AfterBackoff(backoffInfo[g], e, t)
        BY <1>1, <2>2 DEF BackOff, IInv, TypeOK
      <3>2. backoffInfo'[g].backoffUntil = t + NextDuration(backoffInfo[g], t)
        BY <3>1 DEF AfterBackoff
      <3>3. t \in Int /\ t >= now - MaxLag
        BY <2>0, DurationsAssumption DEF CallTimes
      <3>4. NextDuration(backoffInfo[g], t) \in Int
            /\ NextDuration(backoffInfo[g], t) >= backoffInfo[g].duration
        BY <2>0, <3>3, NextDurationRange
      <3>5. QED
        BY <2>0, <3>2, <3>3, <3>4, DurationsAssumption
    <2>3. ASSUME NEW h \in NodeGroups, NEW e \in ErrorInfos, NEW t \in CallTimes,
                 BackOff(h, e, t), h # g
          PROVE  backoffInfo'[g] = backoffInfo[g]
      BY <1>1, <2>3 DEF BackOff, IInv, TypeOK
    <2>4. ASSUME NEW h \in NodeGroups, RemoveBackoff(h) PROVE backoffInfo'[g] = backoffInfo[g]
      BY <1>1, <2>4 DEF RemoveBackoff, IInv, TypeOK
    <2>5. ASSUME NEW t \in CallTimes, RemoveStaleBackoffData(t)
          PROVE  backoffInfo'[g] = backoffInfo[g]
      BY <2>5 DEF RemoveStaleBackoffData
    <2>6. CASE Tick
      BY <2>1, <2>6 DEF Tick
    <2>7. QED
      BY <2>1, <2>2, <2>3, <2>4, <2>5, <2>6 DEF Next
  <1>2. QED
    BY <1>1, BackoffInvariant, PTL DEF Spec, BackoffShrinksAtMostByLag

-----------------------------------------------------------------------------
(***************************************************************************)
(* The lease.  That the holder is the only one that acts is not inductive: *)
(* what keeps a candidate out is that it cannot have seen the lease        *)
(* unchanged for longer than the holder has gone without renewing it.      *)
(***************************************************************************)

Phases == {"waiting", "building", "idle", "running", "hung", "down"}

(* What the lease means to a replica that acts: it holds the lease, it has  *)
(* renewed it within the deadline, and no candidate has seen it unchanged   *)
(* for longer than that.                                                    *)
ActsByLease(r) ==
    Acting(r) => /\ lease = r
                 /\ sinceLease[r] <= RenewDeadline
                 /\ \A s \in Replicas \ unread : sinceLease[s] <= sinceLease[r]

LeaseInv ==
    /\ lease \in Replicas \cup {None}
    /\ phase \in [Replicas -> Phases]
    /\ sinceLease \in [Replicas -> Nat]
    /\ unread \subseteq Replicas
    /\ \A r \in Replicas : ActsByLease(r)

(* While a replica acts, no other one can take the lease.                   *)
LEMMA CannotTakeOver ==
    ASSUME LeaseInv, NEW r \in Replicas, NEW s \in Replicas, Acting(r), r # s
    PROVE  ~(lease \in {None, s} \/ (s \notin unread /\ sinceLease[s] >= LeaseDuration))
  <1>1. lease = r /\ lease # None /\ lease # s
    BY LeaseAssumption DEF LeaseInv, ActsByLease
  <1>2. ASSUME s \notin unread PROVE sinceLease[s] < LeaseDuration
    <2>1. sinceLease[s] <= sinceLease[r] /\ sinceLease[r] <= RenewDeadline
      BY <1>2 DEF LeaseInv, ActsByLease
    <2>2. sinceLease[s] \in Nat /\ sinceLease[r] \in Nat
      BY DEF LeaseInv
    <2>3. QED
      BY <2>1, <2>2, LeaseAssumption
  <1>3. sinceLease[s] \in Nat /\ LeaseDuration \in Nat
    BY LeaseAssumption DEF LeaseInv
  <1>4. QED
    BY <1>1, <1>2, <1>3

LEMMA DeadlineIsLater == 0 < RenewDeadline
  BY LeaseAssumption

(* A period later, ages are in the same order.                              *)
LEMMA LaterIsMonotone ==
    \A m, n \in Nat : Later(m) \in Nat /\ Later(m) <= m + 1 /\ (m <= n => Later(m) <= Later(n))
  BY LeaseAssumption DEF Later, Longest

(* A step that only changes phases keeps the invariant as long as no        *)
(* replica starts to act.                                                   *)
LEMMA PhaseStep ==
    ASSUME LeaseInv, NEW r \in Replicas, NEW p \in Phases,
           phase' = [phase EXCEPT ![r] = p], UNCHANGED <<lease, sinceLease, unread>>,
           Acting(r) \/ p \in {"waiting", "down"}
    PROVE  LeaseInv'
  BY DEF LeaseInv, ActsByLease, Acting, Phases

(* The invariant is inductive: one step per action.                         *)
LEMMA LeaseInductive == LeaseInv /\ [ReplicasNext]_replicaVars => LeaseInv'
  <1> SUFFICES ASSUME LeaseInv, [ReplicasNext]_replicaVars PROVE LeaseInv'
    OBVIOUS
  <1>1. ASSUME NEW r \in Replicas, TryToAcquire(r) PROVE LeaseInv'
    <2>0. ~Acting(r)
      BY <1>1 DEF TryToAcquire, Acting
    <2>1. CASE lease \in {None, r} \/ (r \notin unread /\ sinceLease[r] >= LeaseDuration)
      <3>1. \A s \in Replicas : ~Acting(s)
        BY <2>0, <2>1, CannotTakeOver
      <3>2. /\ lease' = r /\ unread' = (unread \cup Replicas) \ {r}
            /\ phase' = [phase EXCEPT ![r] = "building"]
            /\ sinceLease' = [sinceLease EXCEPT ![r] = 0]
        BY <1>1, <2>1 DEF TryToAcquire
      <3>3. QED
        BY <3>1, <3>2, LeaseAssumption DEF LeaseInv, ActsByLease, Acting, Phases
    <2>2. CASE ~(lease \in {None, r} \/ (r \notin unread /\ sinceLease[r] >= LeaseDuration))
      <3>1. /\ sinceLease' = [sinceLease EXCEPT ![r] = 0] /\ unread' = unread \ {r}
            /\ UNCHANGED <<lease, phase>>
        BY <1>1, <2>2 DEF TryToAcquire
      <3>2. QED
        BY <2>0, <3>1 DEF LeaseInv, ActsByLease, Acting
    <2>3. QED
      BY <2>1, <2>2
  <1>2. ASSUME NEW r \in Replicas, Renew(r) PROVE LeaseInv'
    BY <1>2, LeaseAssumption DEF LeaseInv, ActsByLease, Acting, Renew
  <1>3. ASSUME NEW r \in Replicas, LostMaster(r) PROVE LeaseInv'
    BY <1>3, LeaseAssumption DEF LeaseInv, ActsByLease, Acting, Phases, LostMaster
  <1>4. ASSUME NEW r \in Replicas, Iterate(r) PROVE LeaseInv'
    BY <1>4, PhaseStep
       DEF Iterate, BuildDone, StartIteration, IterationSucceeds, IterationFails, Acting, Phases
  <1>5. ASSUME NEW r \in Replicas, BuildFails(r) \/ IterationHangs(r) \/ Terminated(r) \/ Probe(r)
        PROVE  LeaseInv'
    BY <1>5, PhaseStep DEF BuildFails, IterationHangs, Terminated, Probe, Acting, Phases
  <1>6. ASSUME NEW r \in Replicas, Restart(r) PROVE LeaseInv'
    BY <1>6 DEF LeaseInv, ActsByLease, Acting, Phases, Restart
  <1>7. CASE Outage \/ OutageEnds \/ TroubleOver
    BY <1>7 DEF LeaseInv, ActsByLease, Acting, Outage, OutageEnds, TroubleOver
  <1>8. CASE TimePasses
    <2>1. /\ sinceLease' = [r \in Replicas |-> Later(sinceLease[r])]
          /\ UNCHANGED <<lease, phase, unread>>
      BY <1>8 DEF TimePasses
    <2>2. sinceLease' \in [Replicas -> Nat]
      BY <2>1, LaterIsMonotone DEF LeaseInv
    <2>3. ASSUME NEW r \in Replicas, Acting(r)
          PROVE  /\ lease = r /\ Later(sinceLease[r]) <= RenewDeadline
                 /\ \A s \in Replicas \ unread : Later(sinceLease[s]) <= Later(sinceLease[r])
      <3>1. sinceLease[r] < RenewDeadline
        <4>1. OnTime(r)
          BY <1>8 DEF TimePasses
        <4>2. sinceLease[r] = 0 \/ sinceLease[r] < RenewDeadline
          BY <2>3, <4>1 DEF OnTime
        <4>3. QED
          BY <4>2, DeadlineIsLater, Zenon
      <3>2. QED
        BY <2>3, <3>1, LaterIsMonotone, LeaseAssumption DEF LeaseInv, ActsByLease
    <2>4. QED
      BY <2>1, <2>2, <2>3, Zenon DEF LeaseInv, ActsByLease, Acting
  <1>9. CASE UNCHANGED replicaVars
    BY <1>9 DEF LeaseInv, ActsByLease, Acting, replicaVars
  <1>10. QED
    BY <1>1, <1>2, <1>3, <1>4, <1>5, <1>6, <1>7, <1>8, <1>9 DEF ReplicasNext, Elect

(* At no time do two replicas act on the cluster, for any number of         *)
(* replicas, any crashes, hangs and outages, and any lease that outlasts    *)
(* the renewal deadline (leaderElectionConfiguration, OnStoppedLeading).    *)
THEOREM OnlyTheLeaderActs == ReplicasSpec => []OneReplicaActs
  <1>1. ReplicasInit => LeaseInv
    BY DEF ReplicasInit, LeaseInv, ActsByLease, Acting, Phases
  <1>2. LeaseInv => OneReplicaActs
    BY DEF LeaseInv, ActsByLease, OneReplicaActs
  <1>3. QED
    BY <1>1, <1>2, LeaseInductive, PTL DEF ReplicasSpec

-----------------------------------------------------------------------------
(***************************************************************************)
(* The trigger of the iterations.                                          *)
(***************************************************************************)

PodRecords == [age : {"absent", "recent", "old"}, signalled : BOOLEAN, missed : BOOLEAN]

(* A pod whose signal no iteration has followed has left one in the channel.*)
TriggerInv ==
    /\ podChan \in BOOLEAN
    /\ pod \in [Pods -> PodRecords]
    /\ \A p \in Pods : pod[p].missed => podChan

(* A step of one pod that does not empty the channel.                       *)
LEMMA OnePodStep ==
    ASSUME TriggerInv, NEW p \in Pods, NEW new \in PodRecords, pod' = [pod EXCEPT ![p] = new],
           podChan' \in BOOLEAN, podChan => podChan', new.missed => podChan'
    PROVE  TriggerInv'
  <1>1. pod' \in [Pods -> PodRecords]
    BY DEF TriggerInv
  <1>2. pod'[p] = new /\ \A q \in Pods : q # p => pod'[q] = pod[q]
    BY DEF TriggerInv
  <1>3. ASSUME NEW q \in Pods PROVE pod'[q].missed => podChan'
    BY <1>2, Zenon DEF TriggerInv
  <1>4. QED
    BY <1>1, <1>3 DEF TriggerInv

(* The invariant is inductive: one step per action.                         *)
LEMMA TriggerInductive == TriggerInv /\ [TriggerNext]_triggerVars => TriggerInv'
  <1> SUFFICES ASSUME TriggerInv, [TriggerNext]_triggerVars PROVE TriggerInv'
    OBVIOUS
  <1> USE DEF PodRecords
  <1>1. ASSUME NEW p \in Pods, Unschedulable(p) \/ GrowsOld(p) PROVE TriggerInv'
    <2>1. PICK a \in {"recent", "old"} : pod' = [pod EXCEPT ![p] = [@ EXCEPT !.age = a]]
      BY <1>1 DEF Unschedulable, GrowsOld
    <2>2. [pod[p] EXCEPT !.age = a] \in PodRecords
      BY DEF TriggerInv
    <2>3. [pod[p] EXCEPT !.age = a].missed = pod[p].missed
      BY DEF TriggerInv
    <2>4. podChan' = podChan
      BY <1>1 DEF Unschedulable, GrowsOld
    <2>5. pod[p].missed => podChan'
      BY <2>4 DEF TriggerInv
    <2>6. QED
      BY <2>1, <2>2, <2>3, <2>4, <2>5, OnePodStep DEF TriggerInv
  <1>2. ASSUME NEW p \in Pods, Leaves(p) PROVE TriggerInv'
    <2>1. NoPod \in PodRecords /\ ~NoPod.missed
      BY DEF NoPod
    <2>2. QED
      BY <1>2, <2>1, OnePodStep DEF Leaves, TriggerInv
  <1>3. ASSUME NEW p \in Pods, Signal(p) PROVE TriggerInv'
    <2> DEFINE new == [pod[p] EXCEPT !.signalled = TRUE, !.missed = pod[p].age = "recent"]
    <2>1. pod' = [pod EXCEPT ![p] = new] /\ podChan' = (podChan \/ pod[p].age = "recent")
      BY <1>3 DEF Signal
    <2>2. new \in PodRecords /\ new.missed = (pod[p].age = "recent")
      BY DEF TriggerInv
    <2>3. podChan' \in BOOLEAN /\ (podChan => podChan') /\ (new.missed => podChan')
      BY <2>1, <2>2, Zenon DEF TriggerInv
    <2>4. QED
      BY <2>1, <2>2, <2>3, OnePodStep
  <1>4. CASE Wait
    <2>1. podChan' \in BOOLEAN
      BY <1>4 DEF TriggerInv, Wait, WaitedNot, WaitForPod, WaitForTimer
    <2>2. pod' = [p \in Pods |-> [pod[p] EXCEPT !.missed = FALSE]]
      BY <1>4 DEF Wait, WaitedNot, WaitForPod, WaitForTimer, WaitEnds
    <2>3. QED
      BY <2>1, <2>2 DEF TriggerInv
  <1>5. CASE EndIteration
    BY <1>5 DEF TriggerInv, EndIteration
  <1>6. CASE UNCHANGED triggerVars
    BY <1>6 DEF TriggerInv, triggerVars
  <1>7. QED
    BY <1>1, <1>2, <1>3, <1>4, <1>5, <1>6 DEF TriggerNext

(* Whenever the loop waits for the whole scan interval, every pod that was  *)
(* signalled has been seen by an iteration that started after the signal    *)
(* (StartPodObserver and Wait), for any number of pods.                     *)
THEOREM SignalsAreFollowed == TriggerSpec => []NoWakeUpLost
  <1>1. TriggerInit => TriggerInv
    <2>1. NoPod \in PodRecords /\ ~NoPod.missed
      BY DEF NoPod, PodRecords
    <2>2. QED
      BY <2>1 DEF TriggerInit, TriggerInv
  <1>2. TriggerInv => NoWakeUpLost
    BY DEF TriggerInv, NoWakeUpLost
  <1>3. QED
    BY <1>1, <1>2, TriggerInductive, PTL DEF TriggerSpec

-----------------------------------------------------------------------------
(***************************************************************************)
(* The debugging snapshot.                                                 *)
(***************************************************************************)

States == {"LISTENING", "TRIGGER_ENABLED", "START_DATA_COLLECTION", "DATA_COLLECTED"}
HandlerStates == {"none", "waiting", "triggered", "cancelled"}
Iterations == {"none", "templates", "pods", "nodes", "end"}

DebuggingTypeOK ==
    /\ state \in States
    /\ trigger \in BOOLEAN
    /\ handler \in [Clients -> HandlerStates]
    /\ cancelled \subseteq Clients /\ covered \subseteq Clients
    /\ iteration \in Iterations
    /\ snapshot \in [piece : [Pieces -> {"none", "present", "earlier"}], error : BOOLEAN]

(* The state of the snapshotter is that of the one request it serves.       *)
OneRequest ==
    /\ state = "LISTENING" => \A h \in Clients : handler[h] = "none"
    /\ state # "LISTENING" => \E h \in Clients : handler[h] # "none"
    /\ \A g, h \in Clients : handler[g] # "none" /\ handler[h] # "none" => g = h

(* The token is in the channel, or the handler has it.                      *)
Woken == trigger \/ \E h \in Clients : handler[h] = "triggered"

(* What was collected, by which iteration and for whom.  After the          *)
(* iteration the handler is about to answer or to abort, and no other one   *)
(* begins before it has (HandlersServed).                                   *)
Collected ==
    /\ state \in {"LISTENING", "TRIGGER_ENABLED"} =>
         \A p \in Pieces : snapshot.piece[p] = "none"
    /\ state \in {"START_DATA_COLLECTION", "DATA_COLLECTED"} =>
         /\ \A h \in Clients : handler[h] # "none" => h \in covered
         /\ \A p \in Pieces : snapshot.piece[p] # "earlier"
         /\ iteration = "none" => Woken \/ \E h \in Clients : handler[h] = "cancelled"
    /\ state = "DATA_COLLECTED" =>
         snapshot.piece["NodeList"] = "present" \/ snapshot.piece["UnscheduledPodsCanBeScheduled"] = "present"

(* There is one token, put there at the end of an iteration that collected  *)
(* something or left an error.                                              *)
OneToken ==
    /\ \A h \in Clients : handler[h] = "triggered" => ~trigger
    /\ Woken => /\ iteration = "none"
                /\ state = "DATA_COLLECTED" \/ (state = "START_DATA_COLLECTION" /\ snapshot.error)

DebuggingInv == DebuggingTypeOK /\ OneRequest /\ Collected /\ OneToken

(* A handler is served before an iteration begins, so none begins between   *)
(* the end of the one that collected for it and its answer.                 *)
LEMMA NoneBeginsMeanwhile ==
    ASSUME DebuggingInv, StartDataCollection
    PROVE  state \in {"LISTENING", "TRIGGER_ENABLED"} /\ ~trigger
           /\ \A h \in Clients : handler[h] \in {"none", "waiting"}
  <1>1. HandlersServed /\ iteration = "none"
    BY DEF StartDataCollection
  <1>2. \A h \in Clients : handler[h] \in {"none", "waiting"}
    BY <1>1 DEF HandlersServed
  <1>3. trigger => state # "LISTENING"
    BY DEF DebuggingInv, OneToken, Woken
  <1>4. ~trigger
    BY <1>1, <1>3 DEF DebuggingInv, OneRequest, HandlersServed
  <1>5. ~Woken /\ ~\E h \in Clients : handler[h] = "cancelled"
    BY <1>2, <1>4 DEF Woken
  <1>6. QED
    BY <1>1, <1>2, <1>4, <1>5 DEF DebuggingInv, Collected, DebuggingTypeOK, States

(* The handlers' steps keep the invariant.                                  *)
LEMMA HandlersInductive ==
    ASSUME DebuggingInv, NEW h \in Clients, Request(h) \/ Cancel(h) \/ Handle(h)
    PROVE  DebuggingInv'
  <1>1. CASE Request(h)
    <2>1. CASE state # "LISTENING"
      BY <1>1, <2>1 DEF Request, DebuggingInv, DebuggingTypeOK, OneRequest, Collected, OneToken, Woken
    <2>2. CASE state = "LISTENING"
      <3>1. /\ state' = "TRIGGER_ENABLED" /\ handler' = [handler EXCEPT ![h] = "waiting"]
            /\ UNCHANGED <<trigger, snapshot, cancelled, iteration, covered>>
        BY <1>1, <2>2 DEF Request
      <3>2. ~Woken
        BY <2>2 DEF DebuggingInv, OneToken
      <3>3. ~Woken'
        BY <3>1, <3>2 DEF Woken, DebuggingInv, DebuggingTypeOK
      <3>4. QED
        BY <2>2, <3>1, <3>2, <3>3
           DEF DebuggingInv, DebuggingTypeOK, States, HandlerStates, OneRequest, Collected, OneToken, Woken
    <2>3. QED
      BY <2>1, <2>2
  <1>2. CASE Cancel(h)
    BY <1>2 DEF Cancel, DebuggingInv, DebuggingTypeOK, OneRequest, Collected, OneToken, Woken
  <1>3. CASE Select(h)
    <2>1. /\ handler[h] = "waiting" /\ UNCHANGED <<state, snapshot, cancelled, iteration, covered>>
          /\ \/ trigger /\ trigger' = FALSE /\ handler' = [handler EXCEPT ![h] = "triggered"]
             \/ trigger' = trigger /\ handler' = [handler EXCEPT ![h] = "cancelled"]
      BY <1>3 DEF Select
    <2>2. /\ \A g \in Clients : g # h => handler'[g] = handler[g] /\ handler[g] = "none"
          /\ handler'[h] # "none" /\ handler'[h] \in HandlerStates
      BY <2>1 DEF DebuggingInv, DebuggingTypeOK, OneRequest, HandlerStates
    <2>3. DebuggingTypeOK'
      BY <2>1 DEF DebuggingInv, DebuggingTypeOK, HandlerStates
    <2>4. OneRequest'
      BY <2>1, <2>2 DEF DebuggingInv, OneRequest
    <2>5. Woken' = Woken
      BY <2>1, <2>2 DEF Woken, DebuggingInv, DebuggingTypeOK
    <2>6. Collected'
      BY <2>1, <2>2, <2>5 DEF DebuggingInv, Collected
    <2>7. OneToken'
      BY <2>1, <2>2, <2>5 DEF DebuggingInv, DebuggingTypeOK, OneToken
    <2>8. QED
      BY <2>3, <2>4, <2>6, <2>7 DEF DebuggingInv
  <1>4. CASE Answer(h) \/ Abort(h)
    <2>1. /\ state' = "LISTENING" /\ snapshot' = NoSnapshot /\ handler' = [handler EXCEPT ![h] = "none"]
          /\ cancelled' = cancelled \ {h} /\ covered' = covered \ {h} /\ iteration' = iteration
      BY <1>4 DEF Answer, Abort, Done
    <2>2. \A g \in Clients : handler'[g] = "none"
      BY <1>4, <2>1 DEF Answer, Abort, DebuggingInv, DebuggingTypeOK, OneRequest
    <2>3. trigger' = FALSE
      BY <1>4 DEF Answer, Abort, DebuggingInv, DebuggingTypeOK, OneToken
    <2>4. DebuggingTypeOK'
      BY <2>1, <2>3 DEF DebuggingInv, DebuggingTypeOK, States, HandlerStates, NoSnapshot, Pieces
    <2>5. ~Woken'
      BY <2>2, <2>3 DEF Woken
    <2>6. QED
      BY <2>1, <2>2, <2>3, <2>4, <2>5 DEF DebuggingInv, OneRequest, Collected, OneToken, NoSnapshot
  <1>5. QED
    BY <1>1, <1>2, <1>3, <1>4 DEF Handle

(* Setting a piece of data while the data may be collected.                 *)
LEMMA SettingPieces ==
    ASSUME DebuggingInv, NEW p \in Pieces, NEW collected \in {state, "DATA_COLLECTED"},
           SetPiece(p, collected), iteration # "none", iteration' \in Iterations \ {"none"},
           collected = state \/ p # "TemplateNodes",
           UNCHANGED <<trigger, handler, cancelled, covered, requests>>
    PROVE  DebuggingInv'
  <1>1. ~Woken /\ ~Woken' /\ Woken' = Woken
    BY DEF DebuggingInv, OneToken, Woken
  <1>2. CASE IsDataCollectionAllowedNoLock
    <2>1. snapshot' = [snapshot EXCEPT !.piece[p] = "present"] /\ state' = collected
      BY <1>2 DEF SetPiece
    <2>2. /\ snapshot'.piece = [snapshot.piece EXCEPT ![p] = "present"]
          /\ snapshot' \in [piece : [Pieces -> {"none", "present", "earlier"}], error : BOOLEAN]
      BY <2>1 DEF DebuggingInv, DebuggingTypeOK
    <2>3. snapshot.piece \in [Pieces -> {"none", "present", "earlier"}]
      BY DEF DebuggingInv, DebuggingTypeOK
    <2>4. state' \in {"START_DATA_COLLECTION", "DATA_COLLECTED"}
      BY <1>2, <2>1 DEF IsDataCollectionAllowedNoLock
    <2>5. state' = "DATA_COLLECTED" =>
            snapshot'.piece["NodeList"] = "present" \/ snapshot'.piece["UnscheduledPodsCanBeScheduled"] = "present"
      BY <2>1, <2>2, <2>3 DEF DebuggingInv, Collected, Pieces
    <2>6. QED
      BY <1>1, <1>2, <2>1, <2>2, <2>3, <2>4, <2>5
         DEF DebuggingInv, DebuggingTypeOK, States, OneRequest, Collected, OneToken, IsDataCollectionAllowedNoLock
  <1>3. CASE ~IsDataCollectionAllowedNoLock
    BY <1>1, <1>3 DEF SetPiece, DebuggingInv, DebuggingTypeOK, OneRequest, Collected, OneToken, IsDataCollectionAllowedNoLock
  <1>4. QED
    BY <1>2, <1>3

(* The steps of the loop keep the invariant.                                *)
LEMMA CollectInductive == ASSUME DebuggingInv, Collect PROVE DebuggingInv'
  <1>1. CASE StartDataCollection
    <2>1. /\ state \in {"LISTENING", "TRIGGER_ENABLED"} /\ ~trigger
          /\ \A h \in Clients : handler[h] \in {"none", "waiting"}
      BY <1>1, NoneBeginsMeanwhile
    <2>2. /\ iteration' = "templates" /\ covered' = {h \in Clients : handler[h] # "none"}
          /\ state' = IF state = "TRIGGER_ENABLED" THEN "START_DATA_COLLECTION" ELSE state
          /\ UNCHANGED <<trigger, handler, cancelled, requests>>
      BY <1>1 DEF StartDataCollection
    <2>3. \A p \in Pieces : snapshot.piece[p] = "none"
      BY <2>1 DEF DebuggingInv, Collected
    <2>4. /\ snapshot' \in [piece : [Pieces -> {"none", "present", "earlier"}], error : BOOLEAN]
          /\ \A p \in Pieces : snapshot'.piece[p] = "none"
      BY <1>1, <2>3 DEF StartDataCollection, DebuggingInv, DebuggingTypeOK
    <2>5. ~Woken'
      BY <2>1, <2>2 DEF Woken
    <2>6. QED
      BY <2>1, <2>2, <2>4, <2>5
         DEF DebuggingInv, DebuggingTypeOK, States, Iterations, OneRequest, Collected, OneToken, Woken
  <1>2. CASE SetTemplateNodes \/ SetUnscheduledPodsCanBeScheduled \/ SetClusterNodes
    <2>1. CASE SetTemplateNodes
      BY <2>1, SettingPieces DEF SetTemplateNodes, Pieces, Iterations
    <2>2. CASE SetUnscheduledPodsCanBeScheduled
      <3>1. CASE SetPiece("UnscheduledPodsCanBeScheduled", "DATA_COLLECTED")
        BY <2>2, <3>1, SettingPieces DEF SetUnscheduledPodsCanBeScheduled, Pieces, Iterations
      <3>2. CASE UNCHANGED <<snapshot, state>>
        BY <2>2, <3>2 DEF SetUnscheduledPodsCanBeScheduled, DebuggingInv, DebuggingTypeOK, Iterations,
                          OneRequest, Collected, OneToken, Woken
      <3>3. QED
        BY <2>2, <3>1, <3>2 DEF SetUnscheduledPodsCanBeScheduled
    <2>3. CASE SetClusterNodes
      BY <2>3, SettingPieces DEF SetClusterNodes, Pieces, Iterations
    <2>4. QED
      BY <1>2, <2>1, <2>2, <2>3
  <1>3. CASE Flush
    <2>1. iteration # "none" /\ iteration' = "none" /\ UNCHANGED <<state, handler, cancelled, covered, requests>>
      BY <1>3 DEF Flush
    <2>2. ~Woken
      BY <2>1 DEF DebuggingInv, OneToken
    <2>3. CASE IsDataCollectionAllowedNoLock
      <3>1. trigger' = TRUE /\ snapshot' = [snapshot EXCEPT !.error = @ \/ state = "START_DATA_COLLECTION"]
        BY <1>3, <2>3 DEF Flush
      <3>2. snapshot'.piece = snapshot.piece
            /\ snapshot' \in [piece : [Pieces -> {"none", "present", "earlier"}], error : BOOLEAN]
        BY <3>1 DEF DebuggingInv, DebuggingTypeOK
      <3>3. snapshot'.error = (snapshot.error \/ state = "START_DATA_COLLECTION")
        BY <3>1 DEF DebuggingInv, DebuggingTypeOK
      <3>4. state = "START_DATA_COLLECTION" => snapshot'.error
        BY <3>3
      <3>5. \A h \in Clients : handler[h] # "triggered"
        BY <2>2 DEF Woken
      <3>6. OneToken' /\ Woken'
        BY <2>1, <2>3, <3>1, <3>4, <3>5 DEF OneToken, Woken, IsDataCollectionAllowedNoLock
      <3>7. QED
        BY <2>1, <3>1, <3>2, <3>6 DEF DebuggingInv, DebuggingTypeOK, Iterations, OneRequest, Collected
    <2>4. CASE ~IsDataCollectionAllowedNoLock
      BY <1>3, <2>1, <2>2, <2>4 DEF Flush, DebuggingInv, DebuggingTypeOK, Iterations, OneRequest, Collected, OneToken, Woken,
                        IsDataCollectionAllowedNoLock
    <2>5. QED
      BY <2>3, <2>4
  <1>4. QED
    BY <1>1, <1>2, <1>3 DEF Collect

(* The invariant is inductive.                                              *)
LEMMA DebuggingInductive == DebuggingInv /\ [DebuggingNext]_debuggingVars => DebuggingInv'
  <1> SUFFICES ASSUME DebuggingInv, [DebuggingNext]_debuggingVars PROVE DebuggingInv'
    OBVIOUS
  <1>1. CASE UNCHANGED debuggingVars
    BY <1>1 DEF debuggingVars, DebuggingInv, DebuggingTypeOK, OneRequest, Collected, OneToken, Woken
  <1>2. QED
    BY <1>1, HandlersInductive, CollectInductive DEF DebuggingNext

(* A debugging snapshot that is answered without an error comes from one    *)
(* iteration that began after the request, for any number of handlers and   *)
(* however they are cancelled (ResponseHandler, StartDataCollection, Flush).*)
THEOREM SnapshotsOfOneLoop == DebuggingSpec => AnswersOfOneLoop
  <1>1. ASSUME DebuggingInit PROVE DebuggingInv
    <2>1. /\ NoSnapshot \in [piece : [Pieces -> {"none", "present", "earlier"}], error : BOOLEAN]
          /\ \A p \in Pieces : NoSnapshot.piece[p] = "none"
      BY DEF NoSnapshot
    <2>2. ~Woken
      BY <1>1 DEF DebuggingInit, Woken
    <2>3. QED
      BY <1>1, <2>1, <2>2 DEF DebuggingInit, DebuggingInv, DebuggingTypeOK, States, HandlerStates, Iterations,
                              OneRequest, Collected, OneToken
  <1>2. ASSUME DebuggingInv, [DebuggingNext]_debuggingVars
        PROVE  [\A h \in Clients : AnswerOfOneLoop(h)]_debuggingVars
    <2>1. SUFFICES ASSUME NEW h \in Clients, handler[h] = "triggered", ~snapshot.error
                   PROVE  /\ h \in covered /\ \A p \in Pieces : snapshot.piece[p] # "earlier"
                          /\ snapshot.piece["NodeList"] = "present"
                             \/ snapshot.piece["UnscheduledPodsCanBeScheduled"] = "present"
      BY DEF AnswerOfOneLoop
    <2>2. Woken
      BY <2>1 DEF Woken
    <2>3. state = "DATA_COLLECTED"
      BY <1>2, <2>1, <2>2 DEF DebuggingInv, OneToken
    <2>4. QED
      BY <1>2, <2>1, <2>3 DEF DebuggingInv, Collected
  <1>3. QED
    BY <1>1, <1>2, DebuggingInductive, PTL DEF DebuggingSpec, AnswersOfOneLoop
=============================================================================
