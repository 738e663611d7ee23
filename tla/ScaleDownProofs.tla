--------------------------- MODULE ScaleDownProofs ---------------------------
(***************************************************************************)
(* Proofs about scale-downs: that the main loop (AutoscalerLoop) starts    *)
(* one only when it is due, for any nodes, groups, times and delays and    *)
(* any interleaving with the deletions that run beside it; and that a node *)
(* handed over by its drain (NodeDrain) was drained completely and in the  *)
(* order of priorities, for any pods and any priority groups.              *)
(***************************************************************************)
EXTENDS AutoscalerLoop, NodeDrain, NaturalsInduction, WellFoundedInduction, SequenceTheorems,
        FiniteSetTheorems, TLAPS

(***************************************************************************)
(* The ages the delays are measured with.                                  *)
(***************************************************************************)
AgesOK ==
    /\ since \in [Nodes -> Ages \cup {Never}] /\ streak \in [Nodes -> Ages \cup {Never}]
    /\ scaleUps \in [NodeGroups -> Ages] /\ increased \in [NodeGroups -> Ages]
    /\ lastScaleUpTime \in Ages
    /\ deleting \subseteq Nodes /\ present \subseteq Nodes

\* the planner never counts a node as unneeded for longer than it has been
TimersAreHonest == \A n \in Nodes : since[n] # Never => streak[n] >= since[n]

\* the clock that delays a scale-down runs from the last increase of the group, or after it
DelaysAreHonest ==
    /\ ScaleDownDelayTypeLocal => scaleUps = increased
    /\ ~ScaleDownDelayTypeLocal /\ ~MayScaleUpInPart =>
          \A g \in NodeGroups : lastScaleUpTime <= increased[g]

LoopInv == AgesOK /\ TimersAreHonest /\ DelaysAreHonest

\* ages grow together and keep their order
LEMMA OlderIsMonotone ==
    ASSUME NEW gap \in Gaps
    PROVE  \A a, b \in Ages : Older(a, gap) \in Ages /\ a # Never /\ (a <= b => Older(a, gap) <= Older(b, gap))
  <1>1. gap \in Nat /\ Longest \in Nat
    BY PlannerAssumption, LoopAssumption
  <1>2. QED
    BY <1>1 DEF Older, Ages, Never

\* the start of a loop
LEMMA StartLoopInductive ==
    ASSUME LoopInv, NEW gap \in Gaps, StartLoop(gap)
    PROVE  LoopInv'
  <1>1. /\ since' = [n \in Nodes |-> Older(since[n], gap)]
        /\ streak' = [n \in Nodes |-> Older(streak[n], gap)]
        /\ scaleUps' = [g \in NodeGroups |-> Older(scaleUps[g], gap)]
        /\ increased' = [g \in NodeGroups |-> Older(increased[g], gap)]
        /\ lastScaleUpTime' = Older(lastScaleUpTime, gap)
        /\ deleting' = deleting /\ present' = present
    BY DEF StartLoop, Pass
  <1>2. Older(Never, gap) = Never
    BY DEF Older
  <1>3. AgesOK'
    BY <1>1, <1>2, OlderIsMonotone DEF LoopInv, AgesOK
  <1>4. ASSUME NEW n \in Nodes, since'[n] # Never PROVE streak'[n] >= since'[n]
    <2>1. since[n] # Never /\ since[n] \in Ages
      BY <1>1, <1>2, <1>4 DEF LoopInv, AgesOK
    <2>2. streak[n] >= since[n]
      BY <2>1 DEF LoopInv, TimersAreHonest
    <2>3. streak[n] \in Ages
      BY <2>1, <2>2 DEF LoopInv, AgesOK, Ages, Never
    <2>4. Older(since[n], gap) <= Older(streak[n], gap) /\ Older(since[n], gap) \in Ages /\ Older(streak[n], gap) \in Ages
      BY <2>1, <2>2, <2>3, OlderIsMonotone DEF Ages
    <2>5. QED
      BY <1>1, <2>4 DEF Ages
  <1>5. DelaysAreHonest'
    BY <1>1, OlderIsMonotone DEF LoopInv, AgesOK, DelaysAreHonest
  <1>6. QED
    BY <1>3, <1>4, <1>5 DEF LoopInv, TimersAreHonest

\* groups are increased
LEMMA ScaleUpInductive ==
    ASSUME LoopInv, NEW groups \in SUBSET NodeGroups, NEW ok \in BOOLEAN, RunScaleUp(groups, ok),
           ~ok => MayScaleUpInPart
    PROVE  LoopInv'
  <1>1. /\ scaleUps' = [g \in NodeGroups |-> IF g \in groups THEN 0 ELSE scaleUps[g]]
        /\ increased' = [g \in NodeGroups |-> IF g \in groups THEN 0 ELSE increased[g]]
        /\ lastScaleUpTime' = IF ok THEN 0 ELSE lastScaleUpTime
        /\ UNCHANGED <<since, streak, deleting, present>>
    BY DEF RunScaleUp, plannerVars
  <1>2. 0 \in Ages
    BY PlannerAssumption DEF Ages
  <1>3. QED
    BY <1>1, <1>2 DEF LoopInv, AgesOK, Ages, TimersAreHonest, DelaysAreHonest

\* what a planning pass makes of the timers
LEMMA PassKeepsTimers ==
    ASSUME LoopInv, NEW timedOut \in BOOLEAN, NEW ok \in BOOLEAN, ScaleDown(timedOut, ok)
    PROVE  /\ \A n \in Nodes : since'[n] # Never =>
                 /\ n \in GetScaleDownCandidates(DOMAIN seen) /\ n \in previous'
                 /\ since'[n] = IF since[n] = Never THEN 0 ELSE since[n]
           /\ since' \in [Nodes -> Ages \cup {Never}]
  <1>1. PICK processed \in SUBSET GetScaleDownCandidates(DOMAIN seen) :
           UpdateClusterState(GetScaleDownCandidates(DOMAIN seen), seen, as, timedOut, processed)
    BY Zenon DEF ScaleDown
  <1>2. /\ since' = updateInternalState(Removable(processed, seen))
        /\ previous' = Removable(processed, seen)
    BY <1>1 DEF UpdateClusterState
  <1>3. Removable(processed, seen) \subseteq GetScaleDownCandidates(DOMAIN seen)
    BY DEF Removable
  <1>4. 0 \in Ages
    BY PlannerAssumption DEF Ages
  <1>5. QED
    BY <1>2, <1>3, <1>4 DEF updateInternalState, LoopInv, AgesOK

\* what a planning pass may start: nodes whose timer has run out, when no delay is on
LEMMA StartedNodesAreDue ==
    ASSUME LoopInv, NEW timedOut \in BOOLEAN, NEW ok \in BOOLEAN, ScaleDown(timedOut, ok), NEW n \in Starting
    PROVE  /\ n \in Nodes /\ since'[n] # Never
           /\ Threshold(seen[n]) > 0 => since'[n] > Threshold(seen[n])
           /\ ~isScaleDownInCooldown
  <1>1. ~(isScaleDownInCooldown \/ GetScaleDownCandidates(DOMAIN seen) = {})
    BY Zenon DEF ScaleDown, Starting
  <1>2. PICK S \in RemovableAt(since', seen, as) : \E nodes \in Cropped(S) : StartDeletion(nodes, ok)
    BY <1>1, Zenon DEF ScaleDown
  <1>3. PICK nodes \in Cropped(S) : StartDeletion(nodes, ok)
    BY <1>2
  <1>4. deleting' \subseteq deleting \cup nodes
    BY <1>3 DEF StartDeletion
  <1>5. nodes \subseteq S /\ S \subseteq LongEnough(since', seen)
    BY DEF Cropped, RemovableAt
  <1>6. QED
    BY <1>1, <1>4, <1>5 DEF LongEnough, Starting

\* a planning pass
LEMMA ScaleDownInductive ==
    ASSUME LoopInv, NEW timedOut \in BOOLEAN, NEW ok \in BOOLEAN, ScaleDown(timedOut, ok)
    PROVE  LoopInv'
  <1>1. /\ streak' = [n \in Nodes |-> IF n \notin previous' THEN Never
                                       ELSE IF streak[n] = Never THEN 0 ELSE streak[n]]
        /\ UNCHANGED <<present, delayVars, lastScaleUpTime, increased>>
    BY DEF ScaleDown
  <1>2. 0 \in Ages
    BY PlannerAssumption DEF Ages
  <1>3. streak' \in [Nodes -> Ages \cup {Never}]
    BY <1>1, <1>2 DEF LoopInv, AgesOK
  <1>4. deleting' \subseteq Nodes
    BY StartedNodesAreDue DEF Starting, LoopInv, AgesOK
  <1>5. TimersAreHonest'
    BY <1>1, <1>2, PassKeepsTimers DEF LoopInv, AgesOK, TimersAreHonest, Ages, Never
  <1>6. QED
    BY <1>1, <1>3, <1>4, <1>5, PassKeepsTimers DEF LoopInv, AgesOK, DelaysAreHonest, delayVars

\* a restart, which keeps no timer unless the soft taints are kept for some time
LEMMA RestartInductive ==
    ASSUME LoopInv, Restart, NodeDeletionCandidateTTL = 0
    PROVE  LoopInv'
  <1>1. /\ since' = [n \in Nodes |-> Never] /\ deleting' = {} /\ lastScaleUpTime' = Longest
        /\ scaleUps' = [g \in NodeGroups |-> Longest] /\ increased' = [g \in NodeGroups |-> Longest]
        /\ UNCHANGED <<present, streak>>
    BY DEF Restart, NewPlanner, LoadFromExistingTaints
  <1>2. Longest \in Ages /\ Longest <= Longest
    BY PlannerAssumption DEF Ages
  <1>3. QED
    BY <1>1, <1>2 DEF LoopInv, AgesOK, TimersAreHonest, DelaysAreHonest

\* the invariant is inductive
LEMMA LoopInductive ==
    ASSUME NodeDeletionCandidateTTL = 0
    PROVE  LoopInv /\ [Next]_vars => LoopInv'
  <1> SUFFICES ASSUME LoopInv, [Next]_vars PROVE LoopInv'
    OBVIOUS
  <1> DEFINE Same == UNCHANGED <<since, streak, scaleUps, increased, lastScaleUpTime, deleting, present>>
  <1>1. Same => LoopInv'
    BY DEF LoopInv, AgesOK, TimersAreHonest, DelaysAreHonest
  <1> HIDE DEF Same
  <1>2. ASSUME RunOnce PROVE LoopInv'
    <2>1. CASE \E gap \in Gaps : StartLoop(gap)
      BY <2>1, StartLoopInductive
    <2>2. CASE UpdateSucceeds \/ UpdateEndsLoop \/ NoScaleUp \/ NewPods \/ Cancelled \/ SkipScaleDown \/ MinSizesHold
      BY <1>1, <2>2, Zenon DEF Same, UpdateSucceeds, UpdateEndsLoop, NoScaleUp, NewPods, Cancelled, SkipScaleDown, MinSizesHold,
                        UnlistedLeft, plannerVars, delayVars, cooldownVars, history
    <2>3. CASE UpdateFailsOrUnhealthy
      <3>1. /\ since' = [n \in Nodes |-> Never] /\ streak' = [n \in Nodes |-> Never]
            /\ UNCHANGED <<scaleUps, increased, lastScaleUpTime, deleting, present>>
        BY <2>3 DEF UpdateFailsOrUnhealthy, CleanUpUnneededNodes, UnlistedLeft, delayVars, cooldownVars
      <3>2. QED
        BY <3>1 DEF LoopInv, AgesOK, TimersAreHonest, DelaysAreHonest
    <2>4. CASE \E groups \in SUBSET NodeGroups, ok \in BOOLEAN : ScaleUp(groups, ok)
      BY <2>4, ScaleUpInductive DEF ScaleUp
    <2>5. CASE \E timedOut, ok \in BOOLEAN : ScaleDown(timedOut, ok)
      BY <2>5, ScaleDownInductive
    <2>6. CASE \E groups \in SUBSET NodeGroups : ScaleUpToNodeGroupMinSize(groups)
      BY <2>6, ScaleUpInductive, Zenon DEF ScaleUpToNodeGroupMinSize
    <2>7. QED
      BY <1>2, <2>1, <2>2, <2>3, <2>4, <2>5, <2>6 DEF RunOnce
  <1>3. ASSUME NEW n \in Nodes, NEW refused \in BOOLEAN, DeletionSucceeds(n) \/ DeletionFails(n, refused) \/ LoadChanges(n)
        PROVE  LoopInv'
    <2>1. /\ UNCHANGED <<since, streak, scaleUps, increased, lastScaleUpTime>>
          /\ deleting' \subseteq deleting /\ present' \subseteq present
      BY <1>3, Zenon DEF DeletionSucceeds, DeletionFails, LoadChanges, LoopLeft, plannerVars, delayVars, cooldownVars
    <2>2. QED
      BY <2>1 DEF LoopInv, AgesOK, TimersAreHonest, DelaysAreHonest
  <1>4. CASE Restart
    BY <1>4, RestartInductive
  <1>5. CASE UNCHANGED vars
    BY <1>1, <1>5 DEF Same, vars, plannerVars, delayVars, cooldownVars, history
  <1>6. QED
    BY <1>2, <1>3, <1>4, <1>5, Zenon DEF Next

\* deletions are only started by a planning pass
LEMMA OnlyPassesStart ==
    ASSUME Next, NEW n \in Starting
    PROVE  \E timedOut, ok \in BOOLEAN : ScaleDown(timedOut, ok)
  <1>1. deleting' # deleting /\ ~(deleting' \subseteq deleting)
    BY DEF Starting
  <1>2. RunOnce
    BY <1>1, Zenon DEF Next, DeletionSucceeds, DeletionFails, LoadChanges, Restart
  <1>3. QED
    BY <1>1, <1>2, Zenon DEF RunOnce, StartLoop, UpdateSucceeds, UpdateFailsOrUnhealthy, UpdateEndsLoop, NoScaleUp, NewPods,
                      Cancelled, ScaleUp, RunScaleUp, SkipScaleDown, MinSizesHold, ScaleUpToNodeGroupMinSize, UnlistedLeft

(***************************************************************************)
(* No node is deleted before it has been unneeded for its time without a   *)
(* break, nor within ScaleDownDelayAfterAdd of a scale-up: for any nodes,  *)
(* groups, times and delays.  The soft taints of an earlier process must   *)
(* not be taken over (NodeDeletionCandidateTTL 0, its default), and with   *)
(* the global delay no scale-up may fail in part, since a failed one does  *)
(* not set lastScaleUpTime (RunOnce, unneeded/nodes.go,                    *)
(* isScaleDownInCooldown, ScaleDownCandidatesDelayProcessor).              *)
(***************************************************************************)
THEOREM ScaleDownsWait ==
    ASSUME NodeDeletionCandidateTTL = 0, ScaleDownDelayTypeLocal \/ ~MayScaleUpInPart
    PROVE  Spec => ScaleDownsAreDue
  <1>1. AutoscalerInit => LoopInv
    <2>1. Longest \in Ages /\ Longest <= Longest
      BY PlannerAssumption DEF Ages
    <2>2. QED
      BY <2>1 DEF AutoscalerInit, PlannerInit, LoopInv, AgesOK, TimersAreHonest, DelaysAreHonest
  <1>2. LoopInv /\ [Next]_vars => LoopInv'
    BY LoopInductive
  <1>3. ASSUME LoopInv, [Next]_vars
        PROVE  [\A n \in Starting : Threshold(seen[n]) > 0 => streak[n] > Threshold(seen[n])]_vars
    <2> SUFFICES ASSUME Next, NEW n \in Starting, Threshold(seen[n]) > 0 PROVE streak[n] > Threshold(seen[n])
      BY <1>3
    <2>1. PICK timedOut, ok \in BOOLEAN : ScaleDown(timedOut, ok)
      BY OnlyPassesStart
    <2>2. n \in Nodes /\ since'[n] # Never /\ since'[n] > Threshold(seen[n])
      BY <1>3, <2>1, StartedNodesAreDue
    <2>3. since'[n] = IF since[n] = Never THEN 0 ELSE since[n]
      BY <1>3, <2>1, <2>2, PassKeepsTimers
    <2>4. Threshold(seen[n]) \in Nat
      BY PlannerAssumption DEF Threshold
    <2>5. since[n] # Never /\ since[n] > Threshold(seen[n])
      BY <2>2, <2>3, <2>4
    <2>6. QED
      BY <1>3, <2>2, <2>4, <2>5 DEF LoopInv, AgesOK, TimersAreHonest, Ages, Never
  <1>4. ASSUME LoopInv, [Next]_vars
        PROVE  [\A n \in Starting, g \in NodeGroups :
                  (ScaleDownDelayTypeLocal => g = GroupOf[n]) => increased[g] >= ScaleDownDelayAfterAdd]_vars
    <2> SUFFICES ASSUME Next, NEW n \in Starting, NEW g \in NodeGroups, ScaleDownDelayTypeLocal => g = GroupOf[n]
                 PROVE  increased[g] >= ScaleDownDelayAfterAdd
      BY <1>4
    <2>1. PICK timedOut, ok \in BOOLEAN : ScaleDown(timedOut, ok)
      BY OnlyPassesStart
    <2>2. n \in Nodes /\ n \in GetScaleDownCandidates(DOMAIN seen) /\ ~isScaleDownInCooldown
      BY <1>4, <2>1, StartedNodesAreDue, PassKeepsTimers
    <2>3. increased[g] \in Int /\ ScaleDownDelayAfterAdd \in Int /\ lastScaleUpTime \in Int
      BY <1>4, PlannerAssumption DEF LoopInv, AgesOK, Ages
    <2>4. CASE ScaleDownDelayTypeLocal
      <3>1. ~recent(scaleUps, g, ScaleDownDelayAfterAdd)
        BY <2>2, <2>4 DEF GetScaleDownCandidates, WithoutDelay
      <3>2. QED
        BY <1>4, <2>3, <2>4, <3>1 DEF recent, LoopInv, DelaysAreHonest
    <2>5. CASE ~ScaleDownDelayTypeLocal
      <3>1. ~(lastScaleUpTime < ScaleDownDelayAfterAdd)
        BY <2>2, <2>5 DEF isScaleDownInCooldown
      <3>2. lastScaleUpTime <= increased[g]
        BY <1>4, <2>5 DEF LoopInv, DelaysAreHonest
      <3>3. QED
        BY <2>3, <3>1, <3>2
    <2>6. QED
      BY <2>4, <2>5
  <1>5. QED
    BY <1>1, <1>2, <1>3, <1>4, PTL DEF Spec, ScaleDownsAreDue, DeletedOnlyAfterUnneededTime, CooldownAfterScaleUp

-----------------------------------------------------------------------------
LEMMA Least ==
    ASSUME NEW S \in SUBSET Nat, S # {}
    PROVE  Min(S) \in S /\ \A i \in S : Min(S) <= i
<1>1. PICK m \in S : \A t \in S : ~(<<t, m>> \in OpToRel(<, Nat))
  BY NatLessThanWellFounded, WFMin, Zenon
<1>2. \A t \in S : m <= t
  <2> SUFFICES ASSUME NEW t \in S, t < m PROVE FALSE
    OBVIOUS
  <2>1. <<t, m>> \in OpToRel(<, Nat)
    BY DEF OpToRel
  <2> QED BY <1>1, <2>1, Zenon
<1>3. \E x \in S : \A y \in S : x <= y
  BY <1>2
<1> QED BY <1>3, Zenon DEF Min

LEMMA UpToFinite == ASSUME NEW m \in Nat PROVE IsFiniteSet(1 .. m) /\ Cardinality(1 .. m) = m
<1>1. IsFiniteSet(1 .. m) /\ Cardinality(1 .. m) = IF 1 > m THEN 0 ELSE m - 1 + 1
  <2>1. 1 \in Int /\ m \in Int
    OBVIOUS
  <2> QED BY <2>1, FS_Interval
<1> QED BY <1>1

(* The lowest of some of the priorities. *)
LEMMA Lowest ==
    ASSUME NEW n \in Nat, NEW s \in [1 .. n -> Int], NEW R \in SUBSET (1 .. n), R # {}
    PROVE  \E r \in R : \A t \in R : s[r] <= s[t]
<1> DEFINE has(T) == \E r \in T : \A t \in T : s[r] <= s[t]
           missing == {k \in 0 .. n : \E T \in SUBSET (1 .. k) : T # {} /\ ~has(T)}
<1> SUFFICES ASSUME missing # {} PROVE FALSE
  <2>1. n \notin missing => has(R)
    OBVIOUS
  <2> QED BY <2>1, Zenon
<1>1. missing \in SUBSET Nat
  OBVIOUS
<1>2. PICK k \in missing : \A j \in missing : k <= j
  <2> HIDE DEF missing
  <2> QED BY <1>1, Least, Zenon
<1>3. PICK T \in SUBSET (1 .. k) : T # {} /\ ~has(T)
  BY Zenon
<1>4. k \in 1 .. n /\ k - 1 \in 0 .. n /\ k - 1 \notin missing
  <2>1. k \in 0 .. n
    OBVIOUS
  <2> HIDE DEF missing, has
  <2>2. PICK t : t \in T
    BY <1>3
  <2>3. t \in 1 .. k
    BY <2>2
  <2> QED BY <1>2, <2>1, <2>3
<1>5. \A t \in T : t \in 1 .. n /\ s[t] \in Int
  BY <1>3, <1>4
<1>6. k \in T
  <2> SUFFICES ASSUME k \notin T PROVE FALSE
    OBVIOUS
  <2>1. ASSUME NEW t \in T PROVE t \in 1 .. k - 1
    <3> HIDE DEF missing, has
    <3>1. t \in 1 .. k /\ t # k
      OBVIOUS
    <3> QED BY <1>4, <3>1
  <2>2. T \in SUBSET (1 .. k - 1)
    BY <2>1
  <2> HIDE DEF has
  <2> QED BY <1>3, <1>4, <2>2
<1>7. T \ {k} \in SUBSET (1 .. k - 1)
  <2> SUFFICES ASSUME NEW t \in T \ {k} PROVE t \in 1 .. k - 1
    OBVIOUS
  <2> HIDE DEF missing, has
  <2>1. t \in 1 .. k /\ t # k
    OBVIOUS
  <2> QED BY <1>4, <2>1
<1>8. CASE T \ {k} = {}
  <2>1. \A t \in T : s[k] <= s[t]
    BY <1>5, <1>6, <1>8
  <2> QED BY <1>3, <1>6, <2>1
<1>9. CASE T \ {k} # {}
  <2>1. has(T \ {k})
    <3> HIDE DEF has
    <3> QED BY <1>4, <1>7, <1>9, Zenon
  <2>2. PICK r \in T \ {k} : \A t \in T \ {k} : s[r] <= s[t]
    BY <2>1
  <2>3. CASE s[r] <= s[k]
    <3>1. \A t \in T : s[r] <= s[t]
      BY <2>2, <2>3
    <3> QED BY <1>3, <2>2, <3>1
  <2>4. CASE ~(s[r] <= s[k])
    <3>1. \A t \in T : s[k] <= s[t]
      BY <1>5, <1>6, <2>2, <2>4
    <3> QED BY <1>3, <1>6, <3>1
  <2> QED BY <2>3, <2>4
<1> QED BY <1>8, <1>9

(* The first k entries of a sorted list are found by taking the lowest of  *)
(* the rest k times.                                                       *)
Selects(s, n, k, f) ==
  /\ f \in Injection(1 .. k, 1 .. n)
  /\ \A i, j \in 1 .. k : i < j => s[f[i]] <= s[f[j]]
  /\ \A i \in 1 .. k : \A r \in 1 .. n : (\A j \in 1 .. k : f[j] # r) => s[f[i]] <= s[r]

LEMMA SelectOneMore ==
    ASSUME NEW n \in Nat, NEW s \in [1 .. n -> Int], NEW k \in Nat, k < n,
           NEW f, Selects(s, n, k, f)
    PROVE  \E g : Selects(s, n, k + 1, g)
<1> DEFINE rest == {r \in 1 .. n : \A j \in 1 .. k : f[j] # r}
<1>1. f \in [1 .. k -> 1 .. n] /\ \A a, b \in 1 .. k : f[a] = f[b] => a = b
  BY DEF Selects, Injection, IsInjective
<1>2. rest # {}
  <2> SUFFICES ASSUME rest = {} PROVE FALSE
    OBVIOUS
  <2>1. f \in Surjection(1 .. k, 1 .. n)
    BY <1>1, Zenon DEF Surjection
  <2>2. \A m \in Nat : IsFiniteSet(1 .. m) /\ Cardinality(1 .. m) = m
    BY UpToFinite
  <2>3. n <= k
    BY <2>1, <2>2, FS_Surjection
  <2> QED BY <2>3
<1>3. PICK r \in rest : \A t \in rest : s[r] <= s[t]
  <2>1. rest \in SUBSET (1 .. n)
    OBVIOUS
  <2> HIDE DEF rest
  <2> QED BY <1>2, <2>1, Lowest, Zenon
<1> DEFINE g == [i \in 1 .. k + 1 |-> IF i = k + 1 THEN r ELSE f[i]]
<1>4. /\ \A i \in 1 .. k : g[i] = f[i] /\ i \in 1 .. k + 1
      /\ g[k + 1] = r
      /\ \A i \in 1 .. k + 1 : i = k + 1 \/ i \in 1 .. k
      /\ g \in [1 .. k + 1 -> 1 .. n]
  BY <1>1
<1>5. r \in 1 .. n /\ \A j \in 1 .. k : f[j] # r
  OBVIOUS
<1>6. rest = {t \in 1 .. n : \A j \in 1 .. k : f[j] # t}
  OBVIOUS
<1> HIDE DEF g, rest
<1>7. \A a, b \in 1 .. k + 1 : g[a] = g[b] => a = b
  BY <1>1, <1>4, <1>5, Zenon
<1>8. g \in Injection(1 .. k + 1, 1 .. n)
  BY <1>4, <1>7 DEF Injection, IsInjective
<1>9. \A i \in 1 .. k : s[f[i]] <= s[r]
  BY <1>5 DEF Selects
<1>10. ASSUME NEW i \in 1 .. k + 1, NEW j \in 1 .. k + 1, i < j PROVE s[g[i]] <= s[g[j]]
  <2>1. i \in 1 .. k /\ g[i] = f[i]
    BY <1>4, <1>10
  <2>2. CASE j = k + 1
    BY <1>4, <1>9, <2>1, <2>2
  <2>3. CASE j \in 1 .. k
    BY <1>4, <1>10, <2>1, <2>3, Zenon DEF Selects
  <2> QED BY <1>4, <2>2, <2>3
<1>11. ASSUME NEW i \in 1 .. k + 1, NEW t \in 1 .. n, \A j \in 1 .. k + 1 : g[j] # t
       PROVE  s[g[i]] <= s[t]
  <2>1. \A j \in 1 .. k : f[j] # t
    BY <1>4, <1>11, Zenon
  <2>2. CASE i = k + 1
    BY <1>3, <1>4, <1>6, <2>1, <2>2
  <2>3. CASE i \in 1 .. k
    BY <1>4, <2>1, <2>3, Zenon DEF Selects
  <2> QED BY <1>4, <2>2, <2>3
<1>12. Selects(s, n, k + 1, g)
  BY <1>8, <1>10, <1>11 DEF Selects
<1> QED BY <1>12

LEMMA SelectAll ==
    ASSUME NEW n \in Nat, NEW s \in [1 .. n -> Int]
    PROVE  \E f : Selects(s, n, n, f)
<1> DEFINE missing == {k \in 0 .. n : ~\E f : Selects(s, n, k, f)}
<1> SUFFICES ASSUME missing # {} PROVE FALSE
  <2>1. n \in 0 .. n
    OBVIOUS
  <2>2. n \notin missing => \E f : Selects(s, n, n, f)
    BY <2>1
  <2> QED BY <2>2, Zenon
<1>1. missing \in SUBSET Nat
  OBVIOUS
<1>2. PICK k \in missing : \A j \in missing : k <= j
  <2> HIDE DEF missing
  <2> QED BY <1>1, Least, Zenon
<1>3. k # 0
  <2>1. Selects(s, n, 0, << >>)
    BY DEF Selects, Injection, IsInjective
  <2> QED BY <2>1
<1>4. k - 1 \in 0 .. n /\ k - 1 \notin missing
  BY <1>2, <1>3
<1>5. PICK f : Selects(s, n, k - 1, f)
  BY <1>4
<1>6. \E g : Selects(s, n, (k - 1) + 1, g)
  <2>1. k - 1 \in Nat /\ k - 1 < n
    BY <1>4
  <2> QED BY <1>5, <2>1, SelectOneMore
<1>7. (k - 1) + 1 = k
  BY <1>4
<1> QED BY <1>6, <1>7

(* What sort.Slice leaves: the same priorities in ascending order. *)
Ascending(s) == \A i, j \in 1 .. Len(s) : i <= j => s[i] <= s[j]

LEMMA SortedIsSorted ==
    ASSUME NEW s \in Seq(Int)
    PROVE  /\ Sorted(s) \in Seq(Int) /\ Len(Sorted(s)) = Len(s) /\ Ascending(Sorted(s))
<1> DEFINE n == Len(s)
<1>1. n \in Nat /\ s \in [1 .. n -> Int] /\ DOMAIN s = 1 .. n
  BY LenProperties
<1>2. PICK f : Selects(s, n, n, f)
  <2> HIDE DEF n
  <2> QED BY <1>1, SelectAll
<1>3. f \in Bijection(1 .. n, 1 .. n)
  <2>1. f \in Injection(1 .. n, 1 .. n)
    BY <1>2 DEF Selects
  <2>2. IsFiniteSet(1 .. n)
    BY <1>1, UpToFinite
  <2>3. f \in Surjection(1 .. n, 1 .. n)
    <3> HIDE DEF n
    <3> QED BY <2>1, <2>2, FS_Injection
  <2> QED BY <2>1, <2>3 DEF Bijection
<1>4. Sorts(s, f)
  BY <1>1, <1>2 DEF Sorts, Selects
<1> DEFINE order == CHOOSE g \in Bijection(DOMAIN s, DOMAIN s) : Sorts(s, g)
<1>5. order \in Bijection(1 .. n, 1 .. n) /\ Sorts(s, order)
  BY <1>1, <1>3, <1>4
<1>6. Sorted(s) = [i \in 1 .. n |-> s[order[i]]]
  <2>1. Sorted(s) = [i \in DOMAIN s |-> s[order[i]]]
    BY DEF Sorted
  <2> HIDE DEF order
  <2> QED BY <1>1, <2>1
<1> HIDE DEF order
<1>7. order \in [1 .. n -> 1 .. n]
  BY <1>5 DEF Bijection, Injection
<1>8. Sorted(s) \in [1 .. n -> Int]
  BY <1>1, <1>6, <1>7
<1>9. Sorted(s) \in Seq(Int) /\ Len(Sorted(s)) = n
  BY <1>1, <1>8, LenProperties
<1>10. ASSUME NEW i \in 1 .. n, NEW j \in 1 .. n, i <= j PROVE Sorted(s)[i] <= Sorted(s)[j]
  <2>1. Sorted(s)[i] = s[order[i]] /\ Sorted(s)[j] = s[order[j]] /\ Sorted(s)[i] \in Int
    BY <1>6, <1>8
  <2>2. CASE i = j
    BY <2>1, <2>2
  <2>3. CASE i # j
    <3>1. i < j /\ i \in DOMAIN s /\ j \in DOMAIN s
      BY <1>1, <1>10, <2>3
    <3> QED BY <1>5, <2>1, <3>1 DEF Sorts
  <2> QED BY <2>2, <2>3
<1>11. Ascending(Sorted(s))
  BY <1>9, <1>10 DEF Ascending
<1> QED BY <1>9, <1>11

-----------------------------------------------------------------------------
(* The groups. *)
TaskOK ==
  /\ task.periods \in Seq(Int) /\ Len(task.periods) >= 1 /\ Ascending(task.periods)
  /\ \A p \in Pods : task.pods[p].priority \in Int

LEMMA PeriodsListed ==
    ASSUME TaskOK
    PROVE  /\ Len(Periods) \in Nat /\ Len(Periods) >= 1 /\ DOMAIN Periods = 1 .. Len(Periods)
           /\ \A i \in 1 .. Len(Periods) : Periods[i] \in Int
BY LenProperties, ElementOfSeq DEF TaskOK, Periods

(* The search of groupIndex: the first group that is not below the priority. *)
LEMMA FirstAbove ==
    ASSUME TaskOK, NEW priority \in Int, NEW above, above = {i \in DOMAIN Periods : Periods[i] >= priority},
           above # {}
    PROVE  /\ Min(above) \in 1 .. Len(Periods) /\ Periods[Min(above)] >= priority
           /\ \A i \in 1 .. Len(Periods) : Periods[i] >= priority => Min(above) <= i
<1>1. /\ Len(Periods) \in Nat /\ DOMAIN Periods = 1 .. Len(Periods)
  BY PeriodsListed
<1>2. above \in SUBSET Nat
  BY <1>1
<1>3. Min(above) \in above /\ \A i \in above : Min(above) <= i
  BY <1>2, Least
<1> QED BY <1>1, <1>3

LEMMA GroupFound ==
    ASSUME TaskOK, NEW priority \in Int
    PROVE  \/ /\ GroupIndex(priority) = Len(Periods)
              /\ \A i \in 1 .. Len(Periods) : Periods[i] < priority
           \/ \E m \in 1 .. Len(Periods) :
                /\ Periods[m] >= priority
                /\ \A i \in 1 .. Len(Periods) : Periods[i] >= priority => m <= i
                /\ GroupIndex(priority) = IF m > 1 /\ Periods[m] > priority THEN m - 1 ELSE m
<1> DEFINE above == {i \in DOMAIN Periods : Periods[i] >= priority}
<1>1. /\ Len(Periods) \in Nat /\ DOMAIN Periods = 1 .. Len(Periods)
      /\ \A i \in 1 .. Len(Periods) : Periods[i] \in Int
  BY PeriodsListed
<1>2. GroupIndex(priority) = IF above = {} THEN Len(Periods)
                             ELSE IF Min(above) > 1 /\ Periods[Min(above)] > priority THEN Min(above) - 1
                             ELSE Min(above)
  BY Zenon DEF GroupIndex
<1>3. CASE above = {}
  BY <1>1, <1>2, <1>3
<1>4. CASE above # {}
  <2>1. /\ Min(above) \in 1 .. Len(Periods) /\ Periods[Min(above)] >= priority
        /\ \A i \in 1 .. Len(Periods) : Periods[i] >= priority => Min(above) <= i
    BY <1>4, FirstAbove
  <2> HIDE DEF above
  <2> QED BY <1>2, <1>4, <2>1
<1> QED BY <1>3, <1>4

(* Every pod has a group. *)
LEMMA EveryPodHasAGroup ==
    ASSUME TaskOK, NEW priority \in Int
    PROVE  GroupIndex(priority) \in 1 .. Len(Periods)
<1>1. Len(Periods) \in Nat /\ Len(Periods) >= 1
  BY PeriodsListed
<1> QED BY <1>1, GroupFound

(* A boundary between two priorities puts the lower one in an earlier group. *)
LEMMA BoundarySeparates ==
    ASSUME TaskOK, NEW low \in Int, NEW high \in Int, NEW i \in 1 .. Len(Periods), NEW k \in 1 .. Len(Periods),
           low < Periods[i], Periods[i] <= high, Periods[k] < Periods[i]
    PROVE  GroupIndex(low) < GroupIndex(high)
<1>1. /\ Len(Periods) \in Nat /\ DOMAIN Periods = 1 .. Len(Periods)
      /\ \A j \in 1 .. Len(Periods) : Periods[j] \in Int
      /\ \A a, b \in 1 .. Len(Periods) : a <= b => Periods[a] <= Periods[b]
  BY PeriodsListed DEF TaskOK, Ascending, Periods
\* b, the first group of the boundary
<1>2. PICK b \in 1 .. Len(Periods) :
        /\ Periods[b] = Periods[i] /\ b > 1
        /\ \A j \in 1 .. Len(Periods) : Periods[j] >= Periods[i] => b <= j
  <2> DEFINE above == {j \in DOMAIN Periods : Periods[j] >= Periods[i]}
  <2>1. Periods[i] \in Int /\ i \in above
    BY <1>1
  <2>2. /\ Min(above) \in 1 .. Len(Periods) /\ Periods[Min(above)] >= Periods[i]
        /\ \A j \in 1 .. Len(Periods) : Periods[j] >= Periods[i] => Min(above) <= j
    BY <2>1, FirstAbove, Zenon
  <2> HIDE DEF above
  <2>3. Min(above) <= i
    BY <1>1, <2>1, <2>2
  <2>4. Periods[Min(above)] = Periods[i]
    BY <1>1, <2>2, <2>3
  <2>5. Min(above) > 1
    BY <1>1, <2>2
  <2> QED BY <2>2, <2>4, <2>5
<1>3. GroupIndex(low) <= b - 1
  <2>1. Periods[b] >= low
    BY <1>1, <1>2
  <2>2. PICK m \in 1 .. Len(Periods) :
          /\ Periods[m] >= low
          /\ \A j \in 1 .. Len(Periods) : Periods[j] >= low => m <= j
          /\ GroupIndex(low) = IF m > 1 /\ Periods[m] > low THEN m - 1 ELSE m
    BY <1>1, <2>1, GroupFound
  <2>3. m <= b
    BY <2>1, <2>2
  <2>4. CASE m = b
    BY <1>1, <1>2, <2>2, <2>4
  <2>5. CASE m < b
    BY <1>1, <1>2, <2>2, <2>5
  <2> QED BY <2>3, <2>4, <2>5
<1>4. GroupIndex(high) >= b
  <2>1. CASE GroupIndex(high) = Len(Periods)
    BY <1>1, <2>1
  <2>2. CASE GroupIndex(high) # Len(Periods)
    <3>1. PICK m \in 1 .. Len(Periods) :
            /\ Periods[m] >= high
            /\ GroupIndex(high) = IF m > 1 /\ Periods[m] > high THEN m - 1 ELSE m
      BY <2>2, GroupFound
    <3>2. Periods[m] \in Int /\ Periods[i] \in Int
      BY <1>1
    <3>3. m >= b
      BY <1>2, <3>1, <3>2
    <3>4. m = b => ~(Periods[m] > high)
      BY <1>2, <3>2
    <3> QED BY <3>1, <3>3, <3>4
  <2> QED BY <2>1, <2>2
<1>5. GroupIndex(low) \in Int /\ GroupIndex(high) \in Int
  BY <1>1, EveryPodHasAGroup
<1> QED BY <1>3, <1>4, <1>5

-----------------------------------------------------------------------------
(* The drain.  The groups already passed hold no pod that had to leave, a  *)
(* goroutine that may still evict belongs to the current group, and after  *)
(* the last group all have been passed.                                    *)
Group(p) == GroupIndex(task.pods[p].priority)
ToEvict == FullEvictionPods \cup BestEffortPods
PodStates == {"here", "terminating", "gone", "elsewhere"}
EvictorStates == {"none", "first", "retry", "evicted", "failed", "confirmed"}
Trying(p) == evictor[p] \in {"first", "retry"}

DrainInv ==
  /\ TaskOK
  /\ pod \in [Pods -> PodStates]
  /\ evictor \in [Pods -> EvictorStates]
  /\ prioGroup \in 0 .. Len(Periods) + 1
  /\ phase = "begin" => prioGroup = 0
  /\ phase \in {"evict", "wait"} => prioGroup \in 1 .. Len(Periods)
  /\ phase \in {"delay", "batched"} => prioGroup = Len(Periods) + 1
  /\ \A p \in FullEvictionPods : Group(p) < prioGroup => ~OnNode(p)
  /\ \A p \in Pods : Trying(p) => phase = "evict" /\ p \in ToEvict /\ Group(p) = prioGroup

LEMMA PodsToEvictExist == FullEvictionPods \subseteq Pods /\ BestEffortPods \subseteq Pods /\ ToEvict \subseteq Pods
BY DEF FullEvictionPods, BestEffortPods, ToEvict, PlainPods, DaemonPodsToEvict

LEMMA SameTask ==
    ASSUME task' = task
    PROVE  /\ Pods' = Pods /\ FullEvictionPods' = FullEvictionPods /\ ToEvict' = ToEvict
           /\ Periods' = Periods /\ TaskOK' = TaskOK
           /\ \A p : Group(p)' = Group(p)
<1>1. Pods' = Pods /\ Periods' = Periods
  BY DEF Pods, Periods
<1>2. FullEvictionPods' = FullEvictionPods
  BY <1>1 DEF FullEvictionPods, PlainPods, DaemonPodsToEvict
<1>3. BestEffortPods' = BestEffortPods
  BY <1>1 DEF BestEffortPods, DaemonPodsToEvict
<1>4. TaskOK' = TaskOK
  BY <1>1 DEF TaskOK
<1>5. \A p : Group(p)' = Group(p)
  BY <1>1 DEF Group, GroupIndex
<1> QED BY <1>1, <1>2, <1>3, <1>4, <1>5 DEF ToEvict

LEMMA GroupInRange ==
    ASSUME TaskOK, NEW p \in Pods
    PROVE  Group(p) \in 1 .. Len(Periods) /\ Group(p) \in Int
<1>1. task.pods[p].priority \in Int
  BY DEF TaskOK
<1>2. Group(p) \in 1 .. Len(Periods) /\ Len(Periods) \in Nat
  BY <1>1, EveryPodHasAGroup, PeriodsListed, Zenon DEF Group
<1> QED BY <1>2

(* No group with a pod to evict is left out. *)
LEMMA NextGroupSkipsNobody ==
    ASSUME TaskOK, NEW g \in 0 .. Len(Periods)
    PROVE  /\ NextGroup(g) \in g + 1 .. Len(Periods) + 1
           /\ \A p \in ToEvict : Group(p) > g => Group(p) >= NextGroup(g)
<1> DEFINE used == {k \in g + 1 .. Len(Periods) : GroupPods(k, ToEvict) # {}}
           candidates == used \cup {Len(Periods) + 1}
<1>1. Len(Periods) \in Nat
  BY PeriodsListed
<1>2. candidates \in SUBSET Nat /\ candidates # {} /\ candidates \subseteq g + 1 .. Len(Periods) + 1
  BY <1>1
<1>3. NextGroup(g) = Min(candidates)
  BY DEF NextGroup, ToEvict
<1>4. NextGroup(g) \in candidates /\ \A k \in candidates : NextGroup(g) <= k
  <2> HIDE DEF candidates
  <2> QED BY <1>2, <1>3, Least
<1>5. ASSUME NEW p \in ToEvict, Group(p) > g PROVE Group(p) >= NextGroup(g)
  <2>2. Group(p) \in 1 .. Len(Periods)
    BY PodsToEvictExist, GroupInRange
  <2>3. p \in GroupPods(Group(p), ToEvict)
    BY DEF GroupPods, Group
  <2>4. Group(p) \in used
    BY <1>1, <1>5, <2>2, <2>3
  <2> QED BY <1>1, <1>2, <1>4, <2>2, <2>4
<1> QED BY <1>2, <1>4, <1>5

(* A pod that has left the node does not come back to it. *)
LEMMA PodMoves ==
    ASSUME pod \in [Pods -> PodStates], task' = task, NEW p \in Pods,
           \/ pod' = pod \/ pod' = Terminated(p)
           \/ pod[p] = "terminating" /\ pod' = [pod EXCEPT ![p] = "gone"]
           \/ pod[p] = "gone" /\ pod' = [pod EXCEPT ![p] = "elsewhere"]
           \/ pod[p] = "here" /\ pod' = [pod EXCEPT ![p] = "terminating"]
    PROVE  pod' \in [Pods -> PodStates] /\ \A q \in Pods : ~OnNode(q) => ~OnNode(q)'
BY Zenon DEF OnNode, Terminated, PodStates

(* A step within a group, or one that ends the drain. *)
LEMMA DrainGoesOn ==
    ASSUME DrainInv, task' = task, prioGroup' = prioGroup,
           pod' \in [Pods -> PodStates], \A q \in Pods : ~OnNode(q) => ~OnNode(q)',
           evictor' \in [Pods -> EvictorStates],
           \A q \in Pods : Trying(q)' => Trying(q) /\ phase' = "evict",
           \/ phase' = phase
           \/ phase' \in {"aborted", "forced"}
           \/ phase = "evict" /\ phase' = "wait"
           \/ phase = "delay" /\ phase' = "batched"
    PROVE  DrainInv'
<1>1. /\ Pods' = Pods /\ FullEvictionPods' = FullEvictionPods /\ ToEvict' = ToEvict
      /\ Periods' = Periods /\ TaskOK' = TaskOK
      /\ \A p : Group(p)' = Group(p)
  BY SameTask
<1>2. \A p \in FullEvictionPods : (Group(p) < prioGroup)' => ~OnNode(p)'
  BY <1>1, PodsToEvictExist DEF DrainInv
<1>3. \A p \in Pods : Trying(p)' => phase' = "evict" /\ p \in ToEvict /\ Group(p) = prioGroup
  BY DEF DrainInv
<1>4. /\ phase' = "begin" => prioGroup = 0
      /\ phase' \in {"evict", "wait"} => prioGroup \in 1 .. Len(Periods)
      /\ phase' \in {"delay", "batched"} => prioGroup = Len(Periods) + 1
  BY DEF DrainInv
<1> QED BY <1>1, <1>2, <1>3, <1>4 DEF DrainInv

(* The step to the next group. *)
LEMMA StartsGroup ==
    ASSUME DrainInv, task' = task, pod' = pod, prioGroup \in 0 .. Len(Periods),
           \A q \in Pods : ~Trying(q),
           \A q \in FullEvictionPods : Group(q) = prioGroup => ~OnNode(q),
           StartGroup(NextGroup(prioGroup))
    PROVE  DrainInv'
<1> DEFINE g == NextGroup(prioGroup)
           started == GroupPods(g, ToEvict)
<1>1. /\ Pods' = Pods /\ FullEvictionPods' = FullEvictionPods /\ ToEvict' = ToEvict
      /\ Periods' = Periods /\ TaskOK' = TaskOK
      /\ \A p : Group(p)' = Group(p)
  BY SameTask
<1>2. TaskOK /\ Len(Periods) \in Nat /\ evictor \in [Pods -> EvictorStates]
  BY PeriodsListed DEF DrainInv
<1>3. g \in prioGroup + 1 .. Len(Periods) + 1 /\ \A p \in ToEvict : Group(p) > prioGroup => Group(p) >= g
  BY <1>2, NextGroupSkipsNobody
<1>4. /\ prioGroup' = g
      /\ g <= Len(Periods) => /\ phase' = "evict"
                              /\ evictor' = [p \in Pods |-> IF p \in started THEN "first" ELSE evictor[p]]
      /\ ~(g <= Len(Periods)) => phase' \in {"delay", "batched"} /\ evictor' = evictor
  BY Zenon DEF StartGroup, ToEvict
<1>5. \A p \in started : p \in ToEvict /\ Group(p) = g
  BY DEF GroupPods, Group
<1> HIDE DEF g, started
<1>6. ASSUME NEW p \in FullEvictionPods, Group(p) < g PROVE ~OnNode(p)
  <2>1. p \in ToEvict /\ p \in Pods
    BY PodsToEvictExist DEF ToEvict
  <2>2. Group(p) \in Int
    BY <1>2, <2>1, GroupInRange
  <2>3. Group(p) <= prioGroup
    BY <1>2, <1>3, <1>6, <2>1, <2>2
  <2> QED BY <1>2, <2>2, <2>3 DEF DrainInv
<1>7. /\ evictor' \in [Pods -> EvictorStates]
      /\ \A p \in Pods : Trying(p)' => phase' = "evict" /\ p \in ToEvict /\ Group(p) = g
  BY <1>2, <1>4, <1>5 DEF Trying, EvictorStates
<1>8. \A p \in FullEvictionPods : OnNode(p)' = OnNode(p)
  BY DEF OnNode
<1>9. /\ phase' = "begin" => g = 0
      /\ phase' \in {"evict", "wait"} => g \in 1 .. Len(Periods)
      /\ phase' \in {"delay", "batched"} => g = Len(Periods) + 1
      /\ g \in 0 .. Len(Periods) + 1
  BY <1>2, <1>3, <1>4
<1> QED BY <1>1, <1>4, <1>6, <1>7, <1>8, <1>9, Zenon DEF DrainInv

LEMMA FailureEnds ==
    ASSUME DrainInv, Fail, task' = task, prioGroup' = prioGroup, pod' = pod, evictor' = evictor,
           \A q \in Pods : ~Trying(q)
    PROVE  DrainInv'
<1>1. phase' \in {"aborted", "forced"}
  BY DEF Fail
<1>2. pod \in [Pods -> PodStates] /\ evictor \in [Pods -> EvictorStates]
  BY DEF DrainInv
<1>3. \A q \in Pods : OnNode(q)' = OnNode(q) /\ Trying(q)' = Trying(q)
  BY Zenon DEF OnNode, Trying
<1> QED BY <1>1, <1>2, <1>3, DrainGoesOn

(* The goroutines of the evictor and the cluster around them. *)
LEMMA EvictorMoves ==
    ASSUME DrainInv, NEW p \in Pods, EvictorStep(p) \/ Confirmed(p)
    PROVE  DrainInv'
<1>1. pod \in [Pods -> PodStates] /\ evictor \in [Pods -> EvictorStates]
  BY DEF DrainInv
<1>2. /\ phase = "evict" /\ UNCHANGED <<task, phase, prioGroup>>
      /\ pod' = pod \/ pod' = Terminated(p)
  BY DEF EvictorStep, EvictionAccepted, EvictionRefused, EvictionError, EvictionGivenUp, Confirmed
<1>3. pod' \in [Pods -> PodStates] /\ \A q \in Pods : ~OnNode(q) => ~OnNode(q)'
  BY <1>1, <1>2, PodMoves
<1>4. \/ Trying(p) /\ \E e \in {"evicted", "failed", "retry"} : evictor' = [evictor EXCEPT ![p] = e]
      \/ evictor' = [evictor EXCEPT ![p] = "confirmed"]
  <2>1. CASE EvictionAccepted(p) \/ EvictionRefused(p) \/ EvictionError(p)
    BY <2>1 DEF EvictionAccepted, EvictionRefused, EvictionError, MayAttempt, Trying
  <2>2. CASE EvictionGivenUp(p)
    BY <2>2 DEF EvictionGivenUp, Trying
  <2>3. CASE Confirmed(p)
    BY <2>3 DEF Confirmed
  <2> QED BY <2>1, <2>2, <2>3, Zenon DEF EvictorStep
<1>5. evictor' \in [Pods -> EvictorStates] /\ \A q \in Pods : Trying(q)' => Trying(q)
  BY <1>1, <1>4, Zenon DEF Trying, EvictorStates
<1> QED BY <1>2, <1>3, <1>5, DrainGoesOn

LEMMA ClusterMoves == ASSUME DrainInv, ClusterStep \/ TimePasses \/ UNCHANGED drainVars PROVE DrainInv'
<1>1. pod \in [Pods -> PodStates] /\ evictor \in [Pods -> EvictorStates]
  BY DEF DrainInv
<1>2. UNCHANGED <<task, phase, prioGroup, evictor>>
  BY Zenon DEF ClusterStep, PodStops, PodReplaced, PodDeleted, AnnotationRemoved, TimePasses, drainVars
<1>3. \/ pod' = pod
      \/ \E p \in Pods :
           \/ pod[p] = "terminating" /\ pod' = [pod EXCEPT ![p] = "gone"]
           \/ pod[p] = "gone" /\ pod' = [pod EXCEPT ![p] = "elsewhere"]
           \/ pod[p] = "here" /\ pod' = [pod EXCEPT ![p] = "terminating"]
  BY DEF ClusterStep, PodStops, PodReplaced, PodDeleted, AnnotationRemoved, TimePasses, drainVars
<1>4. pod' \in [Pods -> PodStates] /\ \A q \in Pods : ~OnNode(q) => ~OnNode(q)'
  <2>1. CASE pod' = pod
    BY <1>1, <2>1 DEF OnNode
  <2>2. CASE pod' # pod
    BY <1>1, <1>2, <1>3, <2>2, PodMoves
  <2> QED BY <2>1, <2>2
<1>5. \A q \in Pods : Trying(q)' => Trying(q) /\ phase' = "evict"
  BY <1>2 DEF Trying, DrainInv
<1> QED BY <1>1, <1>2, <1>4, <1>5, DrainGoesOn

LEMMA DrainInductive == DrainInv /\ [DrainNext]_drainVars => DrainInv'
<1> SUFFICES ASSUME DrainInv, [DrainNext]_drainVars PROVE DrainInv'
  OBVIOUS
<1>1. TaskOK /\ pod \in [Pods -> PodStates] /\ evictor \in [Pods -> EvictorStates] /\ Len(Periods) \in Nat
  BY PeriodsListed DEF DrainInv
<1>2. phase # "evict" => \A q \in Pods : ~Trying(q)
  BY DEF DrainInv
<1>3. ASSUME UNCHANGED pod PROVE \A q \in Pods : ~OnNode(q) => ~OnNode(q)'
  BY <1>3 DEF OnNode
<1>4. ASSUME UNCHANGED evictor PROVE \A q \in Pods : Trying(q)' = Trying(q)
  BY <1>4 DEF Trying
<1>5. CASE Begin
  <2>1. phase = "begin" /\ task' = task /\ pod' = pod /\ prioGroup = 0
    BY <1>5 DEF Begin, DrainInv
  <2>2. CASE StartGroup(NextGroup(0))
    <3>1. \A q \in FullEvictionPods : Group(q) # prioGroup
      BY <1>1, <2>1, GroupInRange, PodsToEvictExist
    <3> QED BY <1>1, <1>2, <2>1, <2>2, <3>1, StartsGroup
  <2>3. CASE ~StartGroup(NextGroup(0))
    <3>1. phase' = "aborted" /\ UNCHANGED <<prioGroup, evictor>>
      BY <1>5, <2>3 DEF Begin
    <3> QED BY <1>1, <1>2, <1>3, <1>4, <2>1, <3>1, DrainGoesOn, Zenon
  <2> QED BY <2>2, <2>3
<1>6. CASE EvictionsCollected
  <2>1. /\ phase = "evict" /\ \A p \in InGroup : evictor[p] = "confirmed"
        /\ UNCHANGED <<task, pod, prioGroup, evictor>>
        /\ phase' = "wait" \/ Fail
    BY <1>6, Zenon DEF EvictionsCollected
  <2>2. \A q \in Pods : ~Trying(q)
    <3> SUFFICES ASSUME NEW q \in Pods, Trying(q) PROVE FALSE
      OBVIOUS
    <3>1. q \in ToEvict /\ Group(q) = prioGroup
      BY DEF DrainInv
    <3>2. q \in InGroup
      BY <3>1 DEF InGroup, GroupPods, ToEvict, Group
    <3> QED BY <2>1, <3>2 DEF Trying
  <2>3. CASE phase' = "wait"
    BY <1>1, <1>3, <1>4, <2>1, <2>2, <2>3, DrainGoesOn
  <2>4. CASE Fail
    BY <2>1, <2>2, <2>4, FailureEnds
  <2> QED BY <2>1, <2>3, <2>4
<1>7. CASE AllGone
  <2>1. /\ phase = "wait" /\ \A p \in FullInGroup : ~OnNode(p)
        /\ UNCHANGED <<task, pod>> /\ StartGroup(NextGroup(prioGroup))
    BY <1>7 DEF AllGone
  <2>2. prioGroup \in 0 .. Len(Periods)
    BY <1>1, <2>1 DEF DrainInv
  <2>3. \A q \in FullEvictionPods : Group(q) = prioGroup => ~OnNode(q)
    BY <2>1 DEF FullInGroup, GroupPods, Group
  <2> QED BY <1>2, <2>1, <2>2, <2>3, StartsGroup
<1>8. CASE WaitTimedOut
  <2>1. phase = "wait" /\ UNCHANGED <<task, pod, prioGroup, evictor>> /\ Fail
    BY <1>8, Zenon DEF WaitTimedOut
  <2> QED BY <1>2, <2>1, FailureEnds, Zenon
<1>9. CASE DelayEnds \/ DelayFails
  <2>1. /\ phase = "delay" /\ phase' \in {"batched", "aborted", "forced"}
        /\ UNCHANGED <<task, pod, prioGroup, evictor>>
    BY <1>9 DEF DelayEnds, DelayFails
  <2> QED BY <1>1, <1>2, <1>3, <1>4, <2>1, DrainGoesOn
<1> QED BY <1>5, <1>6, <1>7, <1>8, <1>9, EvictorMoves, ClusterMoves DEF DrainNext, DrainStep

LEMMA DrainStarts == DrainInit => DrainInv
<1> SUFFICES ASSUME DrainInit PROVE DrainInv
  OBVIOUS
<1>1. PICK drain \in Drains : task = [drain EXCEPT !.periods = Sorted(drain.periods)]
  BY DEF DrainInit, NewEvictor
<1>2. /\ {"pods", "periods"} \subseteq DOMAIN drain
      /\ drain.periods \in Seq(Int) /\ drain.periods # <<>>
      /\ \A p \in DOMAIN drain.pods : drain.pods[p].priority \in Int
  BY DrainsAssumption
<1>3. task.periods = Sorted(drain.periods) /\ task.pods = drain.pods
  BY <1>1, <1>2
<1>4. Len(drain.periods) >= 1
  BY <1>2, LenProperties, EmptySeq
<1>5. TaskOK
  BY <1>2, <1>3, <1>4, SortedIsSorted DEF TaskOK, Pods
<1>6. /\ pod = [p \in Pods |-> "here"] /\ evictor = [p \in Pods |-> "none"]
      /\ phase = "begin" /\ prioGroup = 0
  BY DEF DrainInit
<1>7. /\ pod \in [Pods -> PodStates] /\ evictor \in [Pods -> EvictorStates]
      /\ \A p \in Pods : ~Trying(p)
  BY <1>6 DEF PodStates, EvictorStates, Trying
<1>8. Len(Periods) \in Nat /\ \A p \in FullEvictionPods : ~(Group(p) < 0)
  BY <1>5, PeriodsListed, GroupInRange, PodsToEvictExist
<1> QED BY <1>5, <1>6, <1>7, <1>8 DEF DrainInv

LEMMA DrainAlways == DrainSpec => []DrainInv
BY DrainStarts, DrainInductive, PTL DEF DrainSpec

(* A node that DrainNode hands over without an error carries none of the   *)
(* pods that had to be evicted, for every set of pods and every list of    *)
(* priority groups: no group is left out, and waitPodsToDisappear has seen *)
(* every pod of every group gone.                                          *)
THEOREM DrainedNodesAreEmpty == DrainSpec => []DrainedMeansGone
<1>1. DrainInv => DrainedMeansGone
  <2> SUFFICES ASSUME DrainInv, phase = "batched", NEW p \in FullEvictionPods PROVE ~OnNode(p)
    BY DEF DrainedMeansGone
  <2>1. TaskOK /\ p \in Pods /\ prioGroup = Len(Periods) + 1
    BY PodsToEvictExist DEF DrainInv
  <2>2. Group(p) < prioGroup
    BY <2>1, GroupInRange, PeriodsListed
  <2> QED BY <2>2 DEF DrainInv
<1> QED BY <1>1, DrainAlways, PTL

(* "evicts pods in the ascending order of priorities": whatever the order  *)
(* in which the groups are configured, groupIndex puts a pod below a       *)
(* boundary in an earlier group than one at or above it, and the eviction  *)
(* of a pod succeeds only after the pods of the earlier groups that had to *)
(* leave are off the node.                                                 *)
THEOREM EvictionsFollowPriorities == DrainSpec => PriorityOrder
<1>1. ASSUME DrainInv, DrainNext PROVE RespectsPriorities
  <2> SUFFICES ASSUME NEW q \in Pods, evictor[q] # "evicted", evictor'[q] = "evicted",
                      NEW p \in FullEvictionPods, Precedes(p, q)
               PROVE  ~OnNode(p)
    BY DEF RespectsPriorities
  <2>1. TaskOK /\ p \in Pods /\ evictor \in [Pods -> EvictorStates]
    BY <1>1, PodsToEvictExist DEF DrainInv
  <2>2. Trying(q)
    <3>1. CASE \E r \in Pods : EvictorStep(r)
      <4>1. PICK r \in Pods : EvictorStep(r)
        BY <3>1, Zenon
      <4>2. Trying(r) /\ \E e \in {"evicted", "failed", "retry"} : evictor' = [evictor EXCEPT ![r] = e]
        <5>1. CASE EvictionAccepted(r) \/ EvictionRefused(r) \/ EvictionError(r)
          BY <5>1 DEF EvictionAccepted, EvictionRefused, EvictionError, MayAttempt, Trying
        <5>2. CASE EvictionGivenUp(r)
          BY <5>2 DEF EvictionGivenUp, Trying
        <5> QED BY <4>1, <5>1, <5>2 DEF EvictorStep
      <4> QED BY <2>1, <4>2
    <3>2. CASE \E r \in Pods : Confirmed(r)
      <4>1. PICK r \in Pods : evictor' = [evictor EXCEPT ![r] = "confirmed"]
        BY <3>2 DEF Confirmed
      <4> QED BY <2>1, <4>1, Zenon
    <3>3. CASE Begin \/ AllGone
      <4>1. evictor' = evictor \/ \E S : evictor' = [r \in Pods |-> IF r \in S THEN "first" ELSE evictor[r]]
        BY <3>3 DEF Begin, AllGone, StartGroup
      <4> QED BY <4>1
    <3>4. CASE UNCHANGED evictor
      BY <3>4
    <3>5. EvictionsCollected \/ WaitTimedOut \/ DelayEnds \/ DelayFails \/ TimePasses \/ ClusterStep \/ UNCHANGED drainVars
            => UNCHANGED evictor
      BY Zenon DEF EvictionsCollected, WaitTimedOut, DelayEnds, DelayFails, TimePasses, ClusterStep,
             PodStops, PodReplaced, PodDeleted, AnnotationRemoved, drainVars
    <3> QED BY <1>1, <3>1, <3>2, <3>3, <3>4, <3>5 DEF DrainNext, DrainStep
  <2>3. Group(q) = prioGroup
    BY <1>1, <2>2 DEF DrainInv
  <2>4. Group(p) < Group(q)
    <3>1. /\ task.pods[p].priority \in Int /\ task.pods[q].priority \in Int
          /\ DOMAIN Periods = 1 .. Len(Periods)
      BY <2>1, PeriodsListed, Zenon DEF TaskOK
    <3>2. PICK i \in 1 .. Len(Periods), k \in 1 .. Len(Periods) :
            /\ task.pods[p].priority < Periods[i] /\ Periods[i] <= task.pods[q].priority
            /\ Periods[k] < Periods[i]
      BY <3>1 DEF Precedes, Periods
    <3> QED BY <2>1, <3>1, <3>2, BoundarySeparates, Zenon DEF Group
  <2> QED BY <1>1, <2>3, <2>4, Zenon DEF DrainInv
<1>2. ASSUME DrainInv, [DrainNext]_drainVars PROVE [RespectsPriorities]_drainVars
  BY <1>1, <1>2
<1> QED BY <1>2, DrainAlways, PTL DEF DrainSpec, PriorityOrder
=============================================================================
