--------------------------- MODULE ScaleUpOptions ---------------------------
(***************************************************************************)
(* Which node groups a scale-up may use: the groups similar to one that    *)
(* was chosen, and the expansion option that the expanders choose.         *)
(***************************************************************************)
EXTENDS Integers, FiniteSets, Sequences, SequencesExt

-----------------------------------------------------------------------------
(***************************************************************************)
(* Which groups share a scale-up with the chosen one: the comparators of   *)
(* node infos, generic, by provider and by label, and                      *)
(* FindSimilarNodeGroups, which asks one of them about every other group.  *)
(* A node info has labels, capacity, allocatable and requests; quantities  *)
(* are natural numbers, tolerances are in percent.                         *)
(***************************************************************************)
CONSTANTS Groups,
          Infos,        \* the node infos a group may have
          Labels,       \* labels of --balancing-label
          Ignored,      \* what each provider's comparator ignores, the basic labels included
          MemoryRatio, AllocatableRatio, FreeRatio,
          None          \* no node info, no price, no option

VARIABLES groupInfos,  \* nodeInfosForGroups
          comparator,  \* "generic", "aws", "azure", "gce" or "label"
          similar      \* FindSimilarNodeGroups of each group, None before

similarVars == <<groupInfos, comparator, similar>>

\* resourceListWithinTolerance.  Over-committed resources have negative free quantities: then nothing
\* is within the tolerance, not even the same quantity.
resourceListWithinTolerance(a, b, ratio) ==
  LET larger == IF a > b THEN a ELSE b
      smaller == IF a > b THEN b ELSE a
  IN  (larger - smaller) * 100 <= larger * ratio

resourceMapsWithinTolerance(m1, m2, ratio) ==
  /\ DOMAIN m1 = DOMAIN m2
  /\ \A r \in DOMAIN m1 : resourceListWithinTolerance(m1[r], m2[r], ratio)

compareLabels(n1, n2, ignored) ==
  LET Own(n) == DOMAIN n.labels \ ignored
  IN  Own(n1) = Own(n2) /\ \A l \in Own(n1) : n1.labels[l] = n2.labels[l]

CapacityMatches(n1, n2) ==
  /\ DOMAIN n1.capacity = DOMAIN n2.capacity
  /\ \A r \in DOMAIN n1.capacity :
       IF r = "memory" THEN resourceListWithinTolerance(n1.capacity[r], n2.capacity[r], MemoryRatio)
       ELSE n1.capacity[r] = n2.capacity[r]

Free(n) == [r \in DOMAIN n.requested |-> (IF r \in DOMAIN n.allocatable THEN n.allocatable[r] ELSE 0) - n.requested[r]]

IsCloudProviderNodeInfoSimilar(n1, n2, ignored) ==
  /\ CapacityMatches(n1, n2)
  /\ resourceMapsWithinTolerance(n1.allocatable, n2.allocatable, AllocatableRatio)
  /\ resourceMapsWithinTolerance(Free(n1), Free(n2), FreeRatio)
  /\ compareLabels(n1, n2, ignored)

nodesFromSameAzureNodePool(n1, n2) ==
  \E l \in {"kubernetes.azure.com/agentpool", "agentpool"} :
    l \in DOMAIN n1.labels /\ l \in DOMAIN n2.labels /\ n1.labels[l] = n2.labels[l]

areLabelsSame(n1, n2) ==
  \A l \in Labels : l \in DOMAIN n1.labels /\ l \in DOMAIN n2.labels /\ n1.labels[l] = n2.labels[l]

\* The comparators: each provider has labels that say nothing about what a node can run.
CreateGenericNodeInfoComparator(n1, n2) == IsCloudProviderNodeInfoSimilar(n1, n2, Ignored["generic"])
CreateAwsNodeInfoComparator(n1, n2) == IsCloudProviderNodeInfoSimilar(n1, n2, Ignored["aws"])
CreateGceNodeInfoComparator(n1, n2) == IsCloudProviderNodeInfoSimilar(n1, n2, Ignored["gce"])
CreateAzureNodeInfoComparator(n1, n2) ==
  nodesFromSameAzureNodePool(n1, n2) \/ IsCloudProviderNodeInfoSimilar(n1, n2, Ignored["azure"])

Compare(n1, n2) ==
  CASE comparator = "label" -> areLabelsSame(n1, n2)
    [] comparator = "azure" -> CreateAzureNodeInfoComparator(n1, n2)
    [] comparator = "aws" -> CreateAwsNodeInfoComparator(n1, n2)
    [] comparator = "gce" -> CreateGceNodeInfoComparator(n1, n2)
    [] OTHER -> CreateGenericNodeInfoComparator(n1, n2)

\* FindSimilarNodeGroups: an error without an info of the group itself; others without one are skipped.
FindSimilarNodeGroups(g) ==
  /\ similar[g] = None
  /\ similar' = [similar EXCEPT ![g] = IF groupInfos[g] = None THEN {}
                                       ELSE {h \in Groups \ {g} : groupInfos[h] # None /\ Compare(groupInfos[g], groupInfos[h])}]
  /\ UNCHANGED <<groupInfos, comparator>>

AllFound == (\A g \in Groups : similar[g] # None) /\ UNCHANGED similarVars

SimilarInit ==
  /\ groupInfos \in [Groups -> Infos \cup {None}] /\ comparator \in DOMAIN Ignored \cup {"label"}
  /\ similar = [g \in Groups |-> None]

SimilarNext == AllFound \/ \E g \in Groups : FindSimilarNodeGroups(g)

-----------------------------------------------------------------------------
\* Two groups find each other or neither finds the other, so it does not matter which of them the
\* expander chose.  Unless labels alone decide, groups that share a scale-up have the same cores.
SimilarBothWays ==
  \A g, h \in Groups :
    similar[g] # None /\ similar[h] # None /\ h \in similar[g] =>
      /\ g \in similar[h]
      /\ comparator \in {"generic", "aws", "gce"} => groupInfos[g].capacity["cpu"] = groupInfos[h].capacity["cpu"]

-----------------------------------------------------------------------------
(***************************************************************************)
(* Which expansion option a scale-up takes: the factory builds a chain of  *)
(* filters from the names in the flags, each keeps the options it finds    *)
(* best, and chance decides between the ones the last filter left.  The    *)
(* filters scan the options once, in order, with the best score so far;    *)
(* they are written so here, as folds, and compared with what "best"       *)
(* means.  Scores are fractions <<numerator, denominator>>.                *)
(***************************************************************************)
CONSTANTS Offers,     \* the lists of options a scale-up may face
          Flags,      \* the lists of names --expander may have
          Priorities, \* the contents of the priority expander's ConfigMap: a map from priorities to the
                      \* groups their patterns match, or None when it is missing or wrong
          Sizes,      \* numbers of nodes in the cluster
          Stabilization, Unset, Rejected

VARIABLES names, options, config, size,   \* the flags, the options, the ConfigMap, the size of the cluster
          filters,   \* the filters still to run, or Rejected by the factory
          filtered,  \* the options left
          answer,    \* the groups the gRPC server named, or None
          chosen     \* the result: Unset before it, an option, or None

vars == <<names, options, config, size, filters, filtered, answer, chosen>>

Known == {"random", "most-pods", "least-waste", "least-nodes", "price", "priority", "grpc"}

-----------------------------------------------------------------------------
Less(p, q) == p[1] * q[2] < q[1] * p[2]
Times(p, q) == <<p[1] * q[1], p[2] * q[2]>>
Plus(p, q) == <<p[1] * q[2] + q[1] * p[2], p[2] * q[2]>>

\* The scores.  An option has its group, whether the group exists, the node's cpu, memory, price and
\* whether it has a GPU (node = None without node info, price = None when it is unknown), the number
\* of nodes and the pods' number, cpu, memory and price.
WastedScore(o) ==
  LET cpu == o.node.cpu * o.nodes
      memory == o.node.memory * o.nodes
  IN  Plus(<<cpu - o.pods.cpu, cpu>>, <<memory - o.pods.memory, memory>>)

PreferredCpu ==
  CASE size <= 2 -> 1
    [] size \in 3..6 -> 2
    [] size \in 7..20 -> 4
    [] size \in 21..60 -> 8
    [] size \in 61..200 -> 16
    [] OTHER -> 32

SimpleNodeUnfitness(o) ==
  IF PreferredCpu > o.node.cpu THEN <<PreferredCpu, o.node.cpu>> ELSE <<o.node.cpu, PreferredCpu>>

\* (u - 1) * (1 - tanh((nodes - 1) / 15)) + 1; 1/nodes stands for the factor, which falls from 1 as well.
SuppressedUnfitness(o) ==
  IF o.node.gpu THEN <<1000, 1>>
  ELSE Plus(Times(Plus(SimpleNodeUnfitness(o), <<-1, 1>>), <<1, o.nodes>>), <<1, 1>>)

OptionScore(o) ==
  Times(Times(SuppressedUnfitness(o),
              <<o.node.price * o.nodes + Stabilization, o.pods.price + Stabilization>>),
        IF o.exists THEN <<1, 1>> ELSE <<2, 1>>)

-----------------------------------------------------------------------------
\* The filters.
leastwaste(opts) ==
  LET Step(acc, o) ==
        IF o.node = None THEN acc
        ELSE LET score == WastedScore(o)
                 kept == IF acc.best[1] * score[2] = score[1] * acc.best[2] THEN Append(acc.kept, o) ELSE acc.kept
             IN  IF kept = <<>> \/ Less(score, acc.best) THEN [best |-> score, kept |-> <<o>>]
                 ELSE [acc EXCEPT !.kept = kept]
  IN  FoldLeft(Step, [best |-> <<0, 1>>, kept |-> <<>>], opts).kept

leastnodes(opts) ==
  LET Step(acc, o) ==
        IF o.nodes = 0 THEN acc
        ELSE IF o.nodes = acc.best THEN [acc EXCEPT !.kept = Append(@, o)]
        ELSE IF acc.best = None \/ o.nodes < acc.best THEN [best |-> o.nodes, kept |-> <<o>>]
        ELSE acc
  IN  FoldLeft(Step, [best |-> None, kept |-> <<>>], opts).kept

mostpods(opts) ==
  LET Step(acc, o) ==
        IF o.pods.number = acc.best THEN [acc EXCEPT !.kept = Append(@, o)]
        ELSE IF o.pods.number > acc.best THEN [best |-> o.pods.number, kept |-> <<o>>]
        ELSE acc
  IN  FoldLeft(Step, [best |-> 0, kept |-> <<>>], opts).kept

priceBased(opts) ==
  LET Step(acc, o) ==
        IF o.node = None \/ o.pods.price = None THEN acc
        ELSE LET score == OptionScore(o)
             IN  IF acc.kept = <<>> \/ (~Less(score, acc.best) /\ ~Less(acc.best, score))
                 THEN [best |-> score, kept |-> Append(acc.kept, o)]
                 ELSE IF Less(score, acc.best) THEN [best |-> score, kept |-> <<o>>]
                 ELSE acc
  IN  FoldLeft(Step, [best |-> <<0, 1>>, kept |-> <<>>], opts).kept

\* Mutant: a higher priority does not drop the options of the lower ones.
LowerPrioritiesStay(acc, o, p) ==
  IF o.group \notin config[p] \/ p < acc.best THEN acc
  ELSE [best |-> p, kept |-> Append(acc.kept, o)]

\* One priority whose patterns match; the map is walked in any order, the result is the same.
TryPriority(acc, o, p) ==
  IF o.group \notin config[p] \/ p < acc.best THEN acc
  ELSE [best |-> p, kept |-> Append(IF p > acc.best THEN <<>> ELSE acc.kept, o)]

priority(opts) ==
  IF config = None THEN opts
  ELSE LET Step(acc, o) == FoldLeft(LAMBDA a, p : TryPriority(a, o, p), acc, SetToSeq(DOMAIN config))
           best == FoldLeft(Step, [best |-> -1, kept |-> <<>>], opts).kept
       IN  IF best = <<>> THEN opts ELSE best

\* The server fails, answers nothing, or names groups; ones that were not offered are dropped.
grpcclientstrategy(opts, response) ==
  CASE response = None -> opts
    [] response = {} -> <<>>
    [] OTHER -> LET named == SelectSeq(opts, LAMBDA o : o.group \in response)
                IN  IF named = <<>> THEN opts ELSE named

-----------------------------------------------------------------------------
\* Factory.Build.
Build ==
  /\ filters = Unset
  /\ filters' = IF /\ \A i \in 1..Len(names) : names[i] \in Known
                   /\ \A i, j \in 1..Len(names) : i < j => names[i] # names[j]
                   /\ \A i \in 1..Len(names) - 1 : names[i] # "random"
                THEN names ELSE Rejected
  /\ filtered' = options
  /\ UNCHANGED <<names, options, config, size, answer, chosen>>

\* chainStrategy.BestOption: the next filter; a single option ends it.
Kept(kept) ==
  /\ filtered' = kept /\ filters' = Tail(filters)
  /\ chosen' = IF Len(kept) = 1 THEN kept[1] ELSE chosen
  /\ UNCHANGED <<names, options, config, size>>

Filter ==
  /\ filters \notin {Unset, Rejected, <<>>} /\ chosen = Unset
  /\ \/ Head(filters) = "least-waste" /\ Kept(leastwaste(filtered)) /\ UNCHANGED answer
     \/ Head(filters) = "least-nodes" /\ Kept(leastnodes(filtered)) /\ UNCHANGED answer
     \/ Head(filters) = "most-pods" /\ Kept(mostpods(filtered)) /\ UNCHANGED answer
     \/ Head(filters) = "price" /\ Kept(priceBased(filtered)) /\ UNCHANGED answer
     \/ /\ Head(filters) = "priority"
        /\ Kept(IF filtered = <<>> THEN <<>> ELSE priority(filtered)) /\ UNCHANGED answer
     \/ /\ Head(filters) = "random"
        /\ IF filtered = <<>> THEN Kept(<<>>)
           ELSE \E i \in 1..Len(filtered) : Kept(<<filtered[i]>>)
        /\ UNCHANGED answer
     \/ \E response \in {None} \cup SUBSET ({o.group : o \in Range(options)} \cup {"unknown"}) :
          /\ Head(filters) = "grpc"
          /\ Kept(grpcclientstrategy(filtered, response))
          /\ answer' = response

Fallback ==
  /\ filters = <<>> /\ chosen = Unset
  /\ IF filtered = <<>> THEN chosen' = None
     ELSE \E i \in 1..Len(filtered) : chosen' = filtered[i]
  /\ UNCHANGED <<names, options, config, size, filters, filtered, answer>>

Done == (filters = Rejected \/ chosen # Unset) /\ UNCHANGED vars

Init ==
  /\ names \in Flags /\ options \in Offers /\ config \in Priorities /\ size \in Sizes
  /\ filters = Unset /\ filtered = <<>> /\ answer = None /\ chosen = Unset

Next == Build \/ Filter \/ Fallback \/ Done

-----------------------------------------------------------------------------
\* What the filters prefer: a usable option before any other, and of two usable ones the better.
HighestPriority(o) ==
  LET ps == {p \in DOMAIN config : o.group \in config[p] /\ p >= -1}
  IN  IF ps = {} THEN -2 ELSE CHOOSE p \in ps : \A q \in ps : q <= p
Named(o) == o.group \in answer
Prefers(filter, o, q) ==
  CASE filter = "least-waste" -> o.node # None /\ (q.node = None \/ Less(WastedScore(o), WastedScore(q)))
    [] filter = "least-nodes" -> o.nodes # 0 /\ (q.nodes = 0 \/ o.nodes < q.nodes)
    [] filter = "most-pods" -> o.pods.number > q.pods.number
    [] filter = "price" ->
         /\ o.node # None /\ o.pods.price # None
         /\ q.node = None \/ q.pods.price = None \/ Less(OptionScore(o), OptionScore(q))
    [] filter = "priority" -> config # None /\ HighestPriority(o) > HighestPriority(q)
    [] filter = "grpc" -> answer # None /\ Named(o) /\ ~Named(q)
    [] OTHER -> FALSE

\* The option taken is one of those offered.  No other is better in a filter of the chain and as good in
\* the filters before it.  No option is taken only if none was offered, a server wanted none, or the
\* filters knew neither node nor price of any.
ChosenIsBest ==
  chosen # Unset =>
    IF chosen # None
    THEN /\ chosen \in Range(options)
         /\ \A o \in Range(options), k \in 1..Len(names) :
              (\A j \in 1..k - 1 : ~Prefers(names[j], o, chosen) /\ ~Prefers(names[j], chosen, o))
                => ~Prefers(names[k], o, chosen)
    ELSE \/ options = <<>>
         \/ answer = {}
         \/ /\ Range(names) \cap {"least-waste", "price"} # {}
            /\ \E o \in Range(options) : o.node = None \/ o.pods.price = None
==============================================================================
