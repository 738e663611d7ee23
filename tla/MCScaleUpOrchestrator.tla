----------------------- MODULE MCScaleUpOrchestrator -----------------------
(***************************************************************************)
(* Two similar groups a and b, whose nodes differ in size, a group c that  *)
(* only scales whole, and a quota over a and b or over all three.          *)
(***************************************************************************)
EXTENDS ScaleUpOrchestrator

CONSTANTS a, b, c, q1, q2

MCMaxSize == a :> 2 @@ b :> 3 @@ c :> 2
MCMinSize == a :> 1 @@ b :> 2 @@ c :> 0
MCClass == a :> 1 @@ b :> 1 @@ c :> 2
MCNodeResources == a :> 1 @@ b :> 2 @@ c :> 1
MCAppliesTo == q1 :> {a, b} @@ q2 :> {b, c}
MCLimit == q1 :> 5 @@ q2 :> 6
=============================================================================
