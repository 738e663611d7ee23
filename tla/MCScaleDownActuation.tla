------------------------- MODULE MCScaleDownActuation -------------------------
(* Small clusters: an atomic group A, a group C of single nodes. *)
EXTENDS ScaleDownActuation

CONSTANTS a1, a2, c1, c2, c3, A, C

MixedPair == {a1, a2, c1, c2}
PairOrders == {<<a1, c1, a2, c2>>}
BothGroups == {A, C}
InGroup == [n \in Nodes |-> IF n \in {a1, a2} THEN A ELSE C]
OnlyA == {A}
OneMinC == [g \in BothGroups |-> IF g = C THEN 1 ELSE 0]
OneUnregisteredA == [g \in BothGroups |-> IF g = A THEN 1 ELSE 0]
A2C1 == {a2, c1}
=============================================================================
