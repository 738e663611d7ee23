------------------------ MODULE MCDeltaSnapshotStore ------------------------
(***************************************************************************)
(* Two nodes, one or two pods with a claim and affinity terms.             *)
(***************************************************************************)
EXTENDS DeltaSnapshotStore

CONSTANTS n1, n2, p1, p2, c1

TwoNodes == {n1, n2}
OneKind == {"affinity"}
AffinityOfP1 == [k \in Kinds |-> {p1}]
ClaimOfAll == [p \in Pods |-> {c1}]
=============================================================================
