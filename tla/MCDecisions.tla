----------------------------- MODULE MCDecisions -----------------------------
(* What an iteration decides from: the template of a group's nodes (NodeTemplates), the expansion     *)
(* option and the groups that share the scale-up (ScaleUpOptions), how its nodes are spread over them *)
(* (BalanceScaleUp), and the report of how real nodes differ from their templates (NodeTemplates).    *)
(* They share no state, so the run starts with a choice of one of them.                               *)
EXTENDS BalanceScaleUp, TLC

CONSTANTS a, b, c, d, MaxInitialSize, n1, n2, None, Unset, Rejected

VARIABLES part,
          setup, node, registry, cache, readyNodes, disturbed, errors, erred,                 \* templates
          names, options, config, size, filters, filtered, answer, chosen,                    \* expander
          groupInfos, comparator, similar,                                                    \* similar groups
          pair, templateResources, nodeResources, address, index, deltas, step, nodesLeft,    \* comparator
          reportsLeft, discrepancies, lastSeen, gauges, tally

balanceOnly == vars
templatesOnly == <<setup, node, registry, cache, readyNodes, disturbed, errors, erred>>
expanderOnly == <<names, options, config, size, filters, filtered, answer, chosen>>
similarOnly == <<groupInfos, comparator, similar>>
devicesOnly == <<pair, templateResources, nodeResources, address, index, deltas, step, nodesLeft,
                 reportsLeft, discrepancies, lastSeen, gauges, tally>>
allVars == <<part, balanceOnly, templatesOnly, expanderOnly, similarOnly, devicesOnly>>
-----------------------------------------------------------------------------
\* Groups of one or two nodes with every kind of device and of daemon pod claim.
NodeGroupSetup(k, cl, f, i, t, ns) ==
    [kind |-> k, claim |-> cl, force |-> f, implemented |-> i, startup |-> t, nodes |-> ns]
MCSetups ==
    { NodeGroupSetup("gpu", "none", FALSE, TRUE, {"startup"}, {n1}),
      NodeGroupSetup("dra", "none", FALSE, TRUE, {}, {n1, n2}),
      NodeGroupSetup("dra", "none", FALSE, TRUE, {"startup"}, {n1}),
      NodeGroupSetup("dra", "none", FALSE, FALSE, {"startup"}, {n1}),
      NodeGroupSetup("csi", "none", FALSE, TRUE, {"startup"}, {n1}) }
    \cup {NodeGroupSetup("pods", cl, f, TRUE, {"startup"}, {n1}) :
            cl \in {"none", "unallocated", "admin", "local", "shared", "global"}, f \in BOOLEAN}
\* Up to three of five options: small and large machines, a group that does not exist yet, one without
\* a node info and pods without a price.
Machine(cpu, mem, p, g) == [cpu |-> cpu, memory |-> mem, price |-> p, gpu |-> g]
PodsOf(n, cpu, mem, p) == [number |-> n, cpu |-> cpu, memory |-> mem, price |-> p]
Opt(g, e, n, k, p) == [group |-> g, exists |-> e, node |-> n, nodes |-> k, pods |-> p]
OptionList ==
    << Opt("a", TRUE, Machine(2, 4, 2, FALSE), 2, PodsOf(3, 3, 5, 3)),
       Opt("b", TRUE, Machine(4, 8, 4, FALSE), 1, PodsOf(3, 3, 5, 3)),
       Opt("c", FALSE, Machine(4, 8, 9, TRUE), 1, PodsOf(4, 4, 8, 5)),
       Opt("d", TRUE, None, 1, PodsOf(3, 3, 5, 3)),
       Opt("e", TRUE, Machine(2, 4, 2, FALSE), 2, PodsOf(2, 2, 2, None)) >>
MCOffers ==
    {[i \in 1..k |-> OptionList[f[i]]] :
       k \in 0..3, f \in {g \in [1..3 -> 1..5] : g[1] # g[2] /\ g[2] # g[3] /\ g[1] # g[3]}}
MCFlags ==
    { <<"priority", "least-waste">>, <<"least-waste", "price">>, <<"least-nodes", "most-pods", "random">>,
      <<"most-pods", "priority">>, <<"grpc", "least-nodes">>, <<"price", "grpc">>, <<"random", "price">>,
      <<"price", "price">>, <<"cheapest">> }
MCPriorities ==
    { None, (10 :> {"a"}) @@ (20 :> {"b", "c"}) @@ (30 :> {"b"}), (0 :> {"a", "b"}) @@ (5 :> {"e"}),
      (-5 :> {"a"}) @@ (-1 :> {"b"}) }

\* Two groups whose nodes differ in zone, pool, cores, memory, devices and load.
Quantities(cpu, mem) == [cpu |-> cpu, memory |-> mem]
Info(l, cap, alloc, req) == [labels |-> l, capacity |-> cap, allocatable |-> alloc, requested |-> req]
Zone == "topology.kubernetes.io/zone"
Labelled(z, p, q) == Zone :> z @@ "pool" :> p @@ "agentpool" :> q @@ "topology.gke.io/zone" :> z
MCInfos ==
    {Info(Labelled(z, "x", q), Quantities(cpu, 100), Quantities(cpu, 100), Quantities(r, 10)) :
       z \in {"z1", "z2"}, q \in {"p1", "p2"}, cpu \in {100, 101}, r \in {10, 200}}
    \cup {Info(Labelled("z1", "y", "p3"), Quantities(100, mem), Quantities(100, mem), Quantities(10, 10)) :
            mem \in {100, 102, 110}}
    \cup {Info("pool" :> "x", Quantities(100, 100) @@ [gpu |-> 1], Quantities(100, 100) @@ [gpu |-> 1],
               Quantities(10, 10))}
MCIgnored ==
    [generic |-> {Zone}, aws |-> {Zone, "lifecycle"}, azure |-> {Zone, "agentpool"},
     gce |-> {Zone, "topology.gke.io/zone"}]
SO == INSTANCE ScaleUpOptions WITH
        Offers <- MCOffers, Flags <- MCFlags, Priorities <- MCPriorities, Sizes <- {1, 30}, Stabilization <- 1,
        Groups <- {"g1", "g2"}, Infos <- MCInfos, Labels <- {"pool"}, Ignored <- MCIgnored,
        MemoryRatio <- 2, AllocatableRatio <- 5, FreeRatio <- 5

\* Slices of two drivers, with pools that are renamed, incomplete or in flux; the signatures of the
\* attribute sets A and B collide.
A == {"a"}
B == {"b"}
AC == {"a", "c"}
SliceOf(dr, p, g, k, devs) == [driver |-> dr, pool |-> p, generation |-> g, count |-> k, devices |-> devs]
TemplateSlices ==
    { <<SliceOf("d1", "p1", 1, 1, <<A, A>>), SliceOf("d1", "p2", 1, 1, <<A>>)>>,
      <<SliceOf("d1", "p1", 1, 1, <<B>>), SliceOf("d2", "q", 1, 1, <<AC>>), SliceOf("d1", "p2", 1, 1, <<A, AC>>)>> }
NodeSlices ==
    { <<SliceOf("d1", "x", 1, 1, <<A>>), SliceOf("d1", "y", 1, 2, <<A>>), SliceOf("d1", "y", 1, 2, <<A>>)>>,
      <<SliceOf("d1", "x", 1, 1, <<A>>), SliceOf("d1", "y", 1, 1, <<B, AC>>), SliceOf("d1", "z", 1, 1, <<A, A>>),
        SliceOf("d2", "q", 1, 1, <<A>>)>>,
      <<SliceOf("d1", "x", 1, 2, <<A>>), SliceOf("d1", "x", 2, 2, <<A>>), SliceOf("d2", "q", 1, 1, <<AC>>)>>,
      <<>> }
NT == INSTANCE NodeTemplates WITH
        Nodes <- {n1, n2}, Setups <- MCSetups, SliceCount <- 2, CacheTTL <- 0, Disturbances <- 1, ProviderErrors <- 1,
        Pairs <- [template : TemplateSlices, node : NodeSlices],
        Signature <- [x \in {A, B, AC} |-> IF x = AC THEN 2 ELSE 1], MaxNodes <- 2, MaxReports <- 2
-----------------------------------------------------------------------------
Off == "unused"
TemplatesOff == /\ setup = Off /\ node = Off /\ registry = Off /\ cache = Off /\ readyNodes = Off
                /\ disturbed = Off /\ errors = Off /\ erred = Off
ExpanderOff == /\ names = Off /\ options = Off /\ config = Off /\ size = Off /\ filters = Off /\ filtered = Off
               /\ answer = Off /\ chosen = Off
SimilarOff == groupInfos = Off /\ comparator = Off /\ similar = Off
DevicesOff == /\ pair = Off /\ templateResources = Off /\ nodeResources = Off /\ address = Off /\ index = Off
              /\ deltas = Off /\ step = Off /\ nodesLeft = Off /\ reportsLeft = Off /\ discrepancies = Off
              /\ lastSeen = Off /\ gauges = Off /\ tally = Off

\* Groups to balance have every size up to one above the largest maximum, so that full and overfull
\* groups occur.
MCMaxSize == a :> 1 @@ b :> 2 @@ c :> 3 @@ d :> 3
Balancing ==
    /\ newSize \in [Groups -> 0..MaxInitialSize]
    /\ newNodes \in 0..Cardinality(FreePlaces(newSize))
    /\ Init
NothingToBalance ==
    /\ newSize = MaxSize /\ newNodes = 0 /\ Init

DecisionsInit ==
    \/ part = "balance" /\ Balancing /\ TemplatesOff /\ ExpanderOff /\ SimilarOff /\ DevicesOff
    \/ part = "templates" /\ NT!Init /\ NothingToBalance /\ ExpanderOff /\ SimilarOff /\ DevicesOff
    \/ part = "expander" /\ SO!Init /\ NothingToBalance /\ TemplatesOff /\ SimilarOff /\ DevicesOff
    \/ part = "similar" /\ SO!SimilarInit /\ NothingToBalance /\ TemplatesOff /\ ExpanderOff /\ DevicesOff
    \/ part = "devices" /\ NT!ReportInit /\ NothingToBalance /\ TemplatesOff /\ ExpanderOff /\ SimilarOff

Balance(taken) ==
    part = "balance" /\ taken /\ UNCHANGED <<part, templatesOnly, expanderOnly, similarOnly, devicesOnly>>
Templates(taken) ==
    part = "templates" /\ taken /\ UNCHANGED <<part, balanceOnly, expanderOnly, similarOnly, devicesOnly>>
DecisionsNext ==
    \/ Balance(Next)
    \/ Templates(NT!Next)
    \/ part = "expander" /\ SO!Next /\ UNCHANGED <<part, balanceOnly, templatesOnly, similarOnly, devicesOnly>>
    \/ part = "similar" /\ SO!SimilarNext /\ UNCHANGED <<part, balanceOnly, templatesOnly, expanderOnly, devicesOnly>>
    \/ part = "devices" /\ NT!ReportNext /\ UNCHANGED <<part, balanceOnly, templatesOnly, expanderOnly, similarOnly>>

\* The balancing loop goes on; iterations do, and nodes get what they need.
DecisionsSpec ==
    /\ DecisionsInit /\ [][DecisionsNext]_allVars
    /\ WF_allVars(Balance(GiveNode \/ RemoveFull) \/ Templates(NT!Loop))
    /\ \A n \in {n1, n2} : WF_allVars(Templates(NT!Installs(n)))
-----------------------------------------------------------------------------
\* The template shows a new node: no transient taint, every daemon pod once, the group's devices unless
\* the provider failed to say what its machines have (podsExpectedOnFreshNode, SanitizeTaints).  Nodes
\* counted as ready have their devices, also while a driver is updated (FilterOutNodesWithUnreadyResources).
\* Upcoming nodes made from one template share no name, pool or allocated device (createSanitizedNodeInfo).
\* The report of device discrepancies: addresses follow the groups that swapDelete moves, the deltas of
\* a node account for every device, and the gauges show the last report (ReportResourceDiscrepancies).
TemplatesAreRight ==
    /\ part = "templates" => NT!TemplateIsFresh /\ NT!ReadyHaveDevices /\ NT!CopiesShareNothing
    /\ part = "devices" => NT!AddressesHold /\ NT!DeltasAddUp /\ NT!GaugesCurrent

\* The option taken is offered and no other is better in a filter of the chain and as good in the filters
\* before it (chainStrategy.BestOption, and every filter).  Groups find each other or neither the other,
\* and unless labels decide they have the same cores, which the limit on cores relies on
\* (FindSimilarNodeGroups).
OptionsAreRight ==
    /\ part = "expander" => SO!ChosenIsBest
    /\ part = "similar" => SO!SimilarBothWays

\* The balancing loop hands out every node of the capped number; and a wrong template does not last
\* once a node that stays is up.
DecisionsSettle ==
    []<>( /\ part = "balance" => newNodes = 0
          /\ part = "templates" => NT!TemplateRight )
==============================================================================
