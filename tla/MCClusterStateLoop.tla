------------------------- MODULE MCClusterStateLoop -------------------------
(* One node group with a few instances, or two groups with one each. *)
EXTENDS ClusterStateLoop, TLC

CONSTANTS g1, g2, i1, i2, i3

OneGroup == {g1}
OtherGroup == {g2}
TwoGroups == {g1, g2}
Two == {i1, i2}
Three == {i1, i2, i3}
AllInG1 == [i \in Instances |-> g1]
OneEach == [i \in Instances |-> IF i = i1 THEN g1 ELSE g2]
First == {i1}
NoGroups == {}
NoNodes == {}
=============================================================================
