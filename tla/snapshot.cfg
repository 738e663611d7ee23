CONSTANTS
    n1 = n1
    n2 = n2
    p1 = p1
    p2 = p2
    c1 = c1
    Nil = Nil
    Nodes = {n1}
    Pods = {p1}
    PVCs = {c1}
    Kinds <- OneKind
    WithTerm <- AffinityOfP1
    ClaimsOf <- ClaimOfAll
    MaxForks = 2
SPECIFICATION Spec
INVARIANTS CachesFresh
PROPERTY ImplementsBasic
