-------------------------- MODULE MCAutoscalerLoop --------------------------
(***************************************************************************)
(* Two nodes, in one group or in two, for AutoscalerLoop.                  *)
(***************************************************************************)
EXTENDS AutoscalerLoop

CONSTANTS n1, n2, g1, g2

OneGroup == [n \in {n1, n2} |-> g1]
TwoGroups == [n \in {n1, n2} |-> IF n = n1 THEN g1 ELSE g2]
MinZero == [g \in NodeGroups |-> 0]
AllLoads == Loads
EveryLoop == {1}
=============================================================================
