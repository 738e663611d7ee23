------------------------------- MODULE Backoff -------------------------------
(***************************************************************************)
(* The exponential backoff of node groups: utils/backoff.  A node group    *)
(* whose scale-up failed is not scaled up again before backoffUntil.  The  *)
(* map backoffInfo is a function in which NoInfo stands for a missing key. *)
(*                                                                         *)
(* Callers pass their own currentTime.  The main loop passes the time at   *)
(* which its iteration began, the scale-up executor passes time.Now(), so  *)
(* a call may carry a time up to MaxLag before the clock.                  *)
(***************************************************************************)
EXTENDS Integers

CONSTANTS
    NodeGroups,              \* ids of the node groups, the keys of the map
    ErrorInfos,              \* cloudprovider.InstanceErrorInfo values
    NoInfo,                  \* no entry in the map
    InitialBackoffDuration,
    MaxBackoffDuration,
    BackoffResetTimeout,
    MaxLag,                  \* how far a caller's currentTime may lag the clock
    MaxTime                  \* bound on the clock

ASSUME DurationsAssumption ==
    /\ InitialBackoffDuration \in Nat /\ MaxBackoffDuration \in Nat
    /\ InitialBackoffDuration > 0
    /\ InitialBackoffDuration <= MaxBackoffDuration
    /\ BackoffResetTimeout \in Nat
    /\ MaxLag \in Nat /\ MaxTime \in Nat

Infos == [duration : Nat, backoffUntil : Int, lastFailedExecution : Int,
          errorInfo : ErrorInfos]

(* The flags' defaults are 5m, 30m and 3h: a backoff ends before its entry  *)
(* is stale.                                                                *)
ASSUME ResetAssumption == MaxBackoffDuration <= BackoffResetTimeout

ASSUME NoInfoAssumption == NoInfo \notin Infos

VARIABLES
    backoffInfo,    \* NodeGroups -> Infos \cup {NoInfo}
    now,            \* the wall clock
    firstFailure,   \* history: when the current entry of a group was created
    escalations     \* history: how often its duration was doubled

vars == <<backoffInfo, now, firstFailure, escalations>>

CallTimes == (now - MaxLag) .. now

(* backoffUntil.Before(currentTime) is strict: at backoffUntil itself the   *)
(* group is still backed off.                                               *)
IsBackedOff(info, t) == info # NoInfo /\ ~(info.backoffUntil < t)

(* 2 * duration, capped by maxBackoffDuration.                              *)
Doubled(d) == IF 2 * d > MaxBackoffDuration THEN MaxBackoffDuration ELSE 2 * d

(* Mutant: every failure escalates, even during a backoff. *)
NextDurationAlwaysDoubles(info, t) ==
    IF info = NoInfo THEN InitialBackoffDuration ELSE Doubled(info.duration)

NextDuration(info, t) ==
    IF info = NoInfo THEN InitialBackoffDuration
    ELSE IF IsBackedOff(info, t) THEN info.duration
    ELSE Doubled(info.duration)

AfterBackoff(info, e, t) ==
    LET d == NextDuration(info, t)
    IN  [duration |-> d, backoffUntil |-> t + d,
         lastFailedExecution |-> t, errorInfo |-> e]

IsStale(info, t) == info # NoInfo /\ info.lastFailedExecution + BackoffResetTimeout < t

------------------------------------------------------------------------------

Init ==
    /\ backoffInfo = [g \in NodeGroups |-> NoInfo]
    /\ now = 0
    /\ firstFailure = [g \in NodeGroups |-> 0]
    /\ escalations = [g \in NodeGroups |-> 0]

BackOff(g, e, t) ==
    LET info == backoffInfo[g]
    IN  /\ backoffInfo' = [backoffInfo EXCEPT ![g] = AfterBackoff(info, e, t)]
        /\ firstFailure' = IF info = NoInfo THEN [firstFailure EXCEPT ![g] = t]
                                            ELSE firstFailure
        /\ escalations' = [escalations EXCEPT ![g] =
               IF info = NoInfo THEN 0 ELSE IF IsBackedOff(info, t) THEN @ ELSE @ + 1]
        /\ UNCHANGED now

RemoveBackoff(g) ==
    /\ backoffInfo' = [backoffInfo EXCEPT ![g] = NoInfo]
    /\ UNCHANGED <<now, firstFailure, escalations>>

RemoveStaleBackoffData(t) ==
    /\ backoffInfo' = [g \in NodeGroups |->
                          IF IsStale(backoffInfo[g], t) THEN NoInfo ELSE backoffInfo[g]]
    /\ UNCHANGED <<now, firstFailure, escalations>>

Tick ==
    /\ now < MaxTime
    /\ now' = now + 1
    /\ UNCHANGED <<backoffInfo, firstFailure, escalations>>

Next ==
    \/ \E g \in NodeGroups, e \in ErrorInfos, t \in CallTimes : BackOff(g, e, t)
    \/ \E g \in NodeGroups : RemoveBackoff(g)
    \/ \E t \in CallTimes : RemoveStaleBackoffData(t)
    \/ Tick

Spec == Init /\ [][Next]_vars

------------------------------------------------------------------------------

(* Types, and the range of a stored duration: Backoff caps what it doubles. *)
TypeOK ==
    /\ backoffInfo \in [NodeGroups -> Infos \cup {NoInfo}]
    /\ \A g \in NodeGroups : backoffInfo[g] # NoInfo =>
          backoffInfo[g].duration \in InitialBackoffDuration .. MaxBackoffDuration
    /\ now \in Nat
    /\ firstFailure \in [NodeGroups -> Int]
    /\ escalations \in [NodeGroups -> Nat]

(* A long backoff is earned: a group can hold a duration d only if its      *)
(* failures span the d - InitialBackoffDuration of the backoffs it already  *)
(* served.  However many concurrent failures Backoff registers in a burst,  *)
(* they escalate nothing.  Each escalation may be early by the lag of the   *)
(* currentTime the callers pass.                                            *)
EscalationIsEarned ==
    \A g \in NodeGroups : backoffInfo[g] # NoInfo =>
        (now - firstFailure[g]) + MaxLag * escalations[g]
            >= backoffInfo[g].duration - InitialBackoffDuration

(* RemoveStaleBackoffData never ends a running backoff: an entry disappears *)
(* while it is still in force only through RemoveBackoff.                   *)
StaleRemovalKeepsRunningBackoffs ==
    [][ \A g \in NodeGroups :
          (IsBackedOff(backoffInfo[g], now) /\ backoffInfo'[g] = NoInfo)
             => RemoveBackoff(g) ]_vars

(* A failure registered late, with an older currentTime than one already    *)
(* registered, moves the end of a running backoff back by no more than that *)
(* lag.                                                                     *)
BackoffShrinksAtMostByLag ==
    [][ \A g \in NodeGroups :
          (backoffInfo[g] # NoInfo /\ backoffInfo'[g] # NoInfo)
             => backoffInfo'[g].backoffUntil >= backoffInfo[g].backoffUntil - MaxLag ]_vars
==============================================================================
