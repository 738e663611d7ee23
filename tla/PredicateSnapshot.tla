-------------------------- MODULE PredicateSnapshot --------------------------
(***************************************************************************)
(* The cluster snapshot that the simulations work on                       *)
(* (simulator/clustersnapshot/predicate): a store of nodes and pods, the   *)
(* simulated ResourceClaims and ResourceSlices and the simulated CSINodes, *)
(* forked, reverted and committed together.  The store is the reference    *)
(* store, a stack of copies: DeltaSnapshotStoreProofs shows that the store *)
(* in use implements it.                                                   *)
(*                                                                         *)
(* A snapshot is a record [store, dra, csi]; an operation yields a record  *)
(* [snap, err] where err is "ok", "predicate" (the scheduler's filters say *)
(* no), "internal" (any other error) or "panic".                           *)
(***************************************************************************)
EXTENDS Naturals, FiniteSets, FiniteSetsExt, Sequences

-----------------------------------------------------------------------------
(***************************************************************************)
(* The simulated ResourceClaims and ResourceSlices                         *)
(* (simulator/dynamicresources/snapshot).  A claim is its allocation, a    *)
(* node or Nil, and the pods it is reserved for.  Claims and slices are    *)
(* two PatchSets that are forked, reverted and committed together; the     *)
(* third one, of the device classes, is never written and is left out.     *)
(*                                                                         *)
(* A claim is changed in place when the topmost layer holds it and through *)
(* a copy otherwise (ensureClaimWritable), so a layer never shares an      *)
(* object with the one below and a claim is modelled by its value.         *)
(***************************************************************************)
CONSTANTS Nodes, Pods, ClaimIds,
          ClaimsOf,          \* ClaimsOf[p]: the claims the pod's spec refers to
          OwnerOf,           \* OwnerOf[c]: the pod that owns the claim, or Nil
          MaxReservations,   \* resourceapi.ResourceClaimReservedForMaxSize
          Nil, Unknown

Claims == INSTANCE Patches WITH Keys <- ClaimIds
Slices == INSTANCE Patches WITH Keys <- Nodes

NewClaim == [allocation |-> Nil, reservedFor |-> {}]
ClaimAllocated(claim) == claim.allocation # Nil
ClaimInUse(claim) == claim.reservedFor # {}
ClaimFullyReserved(claim) == Cardinality(claim.reservedFor) >= MaxReservations
ClaimAvailableOnNode(claim, n) == claim.allocation = n
ClearPodReservation(claim, p) == [claim EXCEPT !.reservedFor = @ \ {p}]
AddPodReservation(claim, p) == [claim EXCEPT !.reservedFor = @ \cup {p}]
DeallocateClaim(claim) == [claim EXCEPT !.allocation = Nil]
IsForPod(p, c) == OwnerOf[c] = p

NewSnapshot(claims, slices) ==
    [claims |-> Claims!NewPatchSet(Claims!NewPatchFromMap(claims)),
     slices |-> Slices!NewPatchSet(Slices!NewPatchFromMap(slices))]

-----------------------------------------------------------------------------
Tracked(dra, c) == Claims!FindValue(dra.claims, c) # Nil
Claim(dra, c) == Claims!FindValue(dra.claims, c)
AllTracked(dra, p) == \A c \in ClaimsOf[p] : Tracked(dra, c)

\* findPodClaims caches what it looks up.
findPodClaims(dra, p) ==
    [dra EXCEPT !.claims = FoldSet(LAMBDA c, ps : Claims!AfterFindValue(ps, c), @, ClaimsOf[p])]

\* A bug the properties must catch: a claim of a layer below is changed in place.
WriteClaimInPlace(ps, c, claim) ==
    Claims!SetCurrent([ps EXCEPT !.patches = [i \in DOMAIN @ |->
                          IF @[i].modified[c] # Nil THEN Claims!Set(@[i], c, claim) ELSE @[i]]], c, claim)

\* ensureClaimWritable, a change of the claim it returns, and SetCurrent.
WriteClaim(ps, c, claim) == Claims!SetCurrent(ps, c, claim)

WriteClaims(dra, cs, Changed(_)) ==
    [dra EXCEPT !.claims = FoldSet(LAMBDA c, ps : WriteClaim(ps, c, Changed(c)), @, cs)]

\* AddClaims: an error, and no change, when one of the claims is tracked already.
AddClaims(dra, claims) ==
    IF \E c \in DOMAIN claims : Tracked(dra, c) THEN [dra |-> dra, ok |-> FALSE]
    ELSE [dra |-> WriteClaims(dra, DOMAIN claims, LAMBDA c : claims[c]), ok |-> TRUE]

\* RemovePodOwnedClaims: the pod's own claims go with it, the others lose its
\* reservation.  A claim that is not tracked leaves a nil entry behind, which the loop
\* dereferences: `ok' is false when the process panics.
RemovePodOwnedClaims(dra, p) ==
    LET found == findPodClaims(dra, p)
        own == {c \in ClaimsOf[p] : IsForPod(p, c)}
        others == WriteClaims(found, ClaimsOf[p] \ own, LAMBDA c : ClearPodReservation(Claim(dra, c), p))
    IN  IF ~AllTracked(dra, p) THEN [dra |-> found, ok |-> FALSE]
        ELSE [dra |-> [others EXCEPT !.claims =
                           FoldSet(LAMBDA c, ps : Claims!DeleteCurrent(ps, c), @, own)],
              ok |-> TRUE]

ReservePodClaims(dra, p) ==
    LET found == findPodClaims(dra, p)
        full == \E c \in ClaimsOf[p] : /\ ClaimFullyReserved(Claim(dra, c))
                                       /\ p \notin Claim(dra, c).reservedFor
    IN  IF ~AllTracked(dra, p) \/ full THEN [dra |-> found, ok |-> FALSE]
        ELSE [dra |-> WriteClaims(found, ClaimsOf[p], LAMBDA c : AddPodReservation(Claim(dra, c), p)),
              ok |-> TRUE]

\* The claim of UnreservePodClaims, whose allocation goes when the pod owns it or when
\* nobody uses it any more.
Unreserved(claim, p, c) ==
    LET cleared == ClearPodReservation(claim, p)
    IN  IF IsForPod(p, c) \/ ~ClaimInUse(cleared) THEN DeallocateClaim(cleared) ELSE cleared

UnreservePodClaims(dra, p) ==
    LET found == findPodClaims(dra, p)
    IN  IF ~AllTracked(dra, p) THEN [dra |-> found, ok |-> FALSE]
        ELSE [dra |-> WriteClaims(found, ClaimsOf[p], LAMBDA c : Unreserved(Claim(dra, c), p, c)),
              ok |-> TRUE]

\* SignalClaimPendingAllocation, for every claim the scheduler allocates in Reserve.
SignalClaimPendingAllocation(dra, cs, n) ==
    WriteClaims(dra, cs, LAMBDA c : [Claim(dra, c) EXCEPT !.allocation = n])

-----------------------------------------------------------------------------
AddNodeResourceSlices(dra, n, slices) ==
    IF Slices!FindValue(dra.slices, n) # Nil
    THEN [dra |-> [dra EXCEPT !.slices = Slices!AfterFindValue(@, n)], ok |-> FALSE]
    ELSE [dra |-> [dra EXCEPT !.slices = Slices!SetCurrent(@, n, slices)], ok |-> TRUE]

RemoveNodeResourceSlices(dra, n) == [dra EXCEPT !.slices = Slices!DeleteCurrent(@, n)]

DraCommit(dra) == [claims |-> Claims!Commit(dra.claims), slices |-> Slices!Commit(dra.slices)]
DraRevert(dra) == [claims |-> Claims!Revert(dra.claims), slices |-> Slices!Revert(dra.slices)]
DraFork(dra) == [claims |-> Claims!Fork(dra.claims), slices |-> Slices!Fork(dra.slices)]

\* listResourceClaims and listResourceSlices, which the scheduler's plugins read.
ListAll(dra) == [claims |-> Claims!AfterAsMap(dra.claims), slices |-> Slices!AfterAsMap(dra.slices)]
AllocatedOn(dra, n) ==
    {c \in ClaimIds : LET claim == Claims!AsMap(dra.claims)[c]
                      IN  claim # Nil /\ claim.allocation = n}
DevicesOf(dra, n) ==
    LET slices == Slices!AsMap(dra.slices)[n] IN IF slices = Nil THEN 0 ELSE slices

-----------------------------------------------------------------------------
CONSTANTS MaxPods,      \* MaxPods[n]: the pods the node has room for
          DevicesOn,    \* DevicesOn[n]: the devices in the node's ResourceSlices
          HostSpread    \* the pods that are spread over hostnames

Csi == INSTANCE Patches WITH Keys <- Nodes

NodeInfo(n, pods) == [pods |-> pods, tainted |-> FALSE, slices |-> DevicesOn[n], csi |-> TRUE]

Cluster(snap) == snap.store[Len(snap.store)]
GetNodeInfo(snap, n) == Cluster(snap)[n]
Store(snap, n, info) == [snap EXCEPT !.store[Len(snap.store)][n] = info]

Ok(snap) == [snap |-> snap, err |-> "ok"]
Failed(snap, err) == [snap |-> snap, err |-> err]
WithDra(snap, r, err) == [snap |-> [snap EXCEPT !.dra = r.dra], err |-> IF r.ok THEN "ok" ELSE err]

\* The next step of an operation that returns the first error.
Then(r, Continue(_)) == IF r.err = "ok" THEN Continue(r.snap) ELSE r

\* SetClusterState drops what was there; it fails, on an empty store, when a pod of the
\* cluster needs a claim that is not listed.
SetClusterState(cluster, claims) ==
    LET listed == [n \in Nodes |-> cluster[n] # Nil]
        complete == \A n \in Nodes : listed[n] => \A p \in cluster[n].pods : \A c \in ClaimsOf[p] : claims[c] # Nil
        snap == [store |-> <<IF complete THEN cluster ELSE [n \in Nodes |-> Nil]>>,
                 dra |-> NewSnapshot(claims, [n \in Nodes |->
                            IF listed[n] /\ cluster[n].slices > 0 THEN cluster[n].slices ELSE Nil]),
                 csi |-> Csi!NewPatchSet(Csi!NewPatchFromMap([n \in Nodes |->
                            IF listed[n] THEN cluster[n].csi ELSE Nil]))]
    IN  [snap |-> snap, err |-> IF complete THEN "ok" ELSE "internal"]

-----------------------------------------------------------------------------
\* The scheduler framework (external): what its filters read, and what they answer.

\* PreFilter gets the pod's claims, Filter lists what is allocated.
Filtered(snap, p) ==
    IF ClaimsOf[p] = {} THEN snap ELSE [snap EXCEPT !.dra = ListAll(findPodClaims(@, p))]

Unallocated(dra, p) == {c \in ClaimsOf[p] : ~ClaimAllocated(Claim(dra, c))}

\* With an empty node among the domains, a node takes one of the pods that are spread.
SpreadRefuses(snap, p, n) == p \in HostSpread /\ GetNodeInfo(snap, n).pods \cap HostSpread # {}

FilterPasses(snap, p, n) ==
    LET info == GetNodeInfo(snap, n)
    IN  /\ ~info.tainted
        /\ Cardinality(info.pods) < MaxPods[n]
        /\ ~SpreadRefuses(snap, p, n)
        /\ AllTracked(snap.dra, p)
        /\ \A c \in ClaimsOf[p] : /\ ~ClaimFullyReserved(Claim(snap.dra, c)) \/ p \in Claim(snap.dra, c).reservedFor
                                  /\ ClaimAllocated(Claim(snap.dra, c)) => ClaimAvailableOnNode(Claim(snap.dra, c), n)
        /\ Cardinality(Unallocated(snap.dra, p)) + Cardinality(AllocatedOn(snap.dra, n))
              <= IF Unallocated(snap.dra, p) = {} THEN Cardinality(ClaimIds) ELSE DevicesOf(snap.dra, n)

\* Reserve allocates the claims that have no allocation.
Reserved(snap, p, n) ==
    [snap EXCEPT !.dra = SignalClaimPendingAllocation(@, Unallocated(@, p), n)]

-----------------------------------------------------------------------------
verifyScheduledPodResourceClaims(snap, p, n) ==
    IF /\ AllTracked(snap.dra, p)
       /\ \A c \in ClaimsOf[p] : ClaimAvailableOnNode(Claim(snap.dra, c), n)
    THEN Ok(snap) ELSE Failed(snap, "internal")

StorePodInfo(snap, p, n) ==
    Ok(Store(snap, n, [GetNodeInfo(snap, n) EXCEPT !.pods = @ \cup {p}]))

\* modifyResourceClaimsForScheduledPod, verifyScheduledPodResourceClaims, createPodInfo
\* and StorePodInfo, once the filters have passed.
ScheduleOn(snap, p, n) ==
    IF ClaimsOf[p] = {} THEN StorePodInfo(snap, p, n)
    ELSE Then(Then(WithDra(snap, ReservePodClaims(Reserved(snap, p, n).dra, p), "internal"),
                   LAMBDA s : verifyScheduledPodResourceClaims(s, p, n)),
              LAMBDA s : StorePodInfo(s, p, n))

\* Another plugin's Reserve fails, before or after the one that allocates claims.
ReserveFails(snap, p, n) ==
    IF ClaimsOf[p] = {} THEN {}
    ELSE {Failed(snap, "internal"), Failed(Reserved(snap, p, n), "internal")}

Attempts(snap, p, n) == {ScheduleOn(snap, p, n)} \cup ReserveFails(snap, p, n)

\* What SchedulePod may do.
SchedulePod(snap, p, n) ==
    LET seen == Filtered(snap, p)
    IN  IF GetNodeInfo(snap, n) = Nil THEN {Failed(snap, "internal")}
        ELSE IF ~FilterPasses(snap, p, n) THEN {Failed(seen, "predicate")}
        ELSE Attempts(seen, p, n)

\* What SchedulePodOnAnyNodeMatching may do: the filters run in parallel, and any node
\* that passes may be the one found.
SchedulePodOnAnyNodeMatching(snap, p, acceptable) ==
    LET seen == Filtered(snap, p)
        passing == {n \in acceptable : GetNodeInfo(snap, n) # Nil /\ FilterPasses(snap, p, n)}
    IN  IF passing = {} THEN {[snap |-> seen, err |-> "predicate", node |-> Nil]}
        ELSE UNION {{[snap |-> r.snap, err |-> r.err, node |-> n] : r \in Attempts(seen, p, n)} :
                       n \in passing}

RemovePodInfo(snap, p, n) ==
    Ok(Store(snap, n, [GetNodeInfo(snap, n) EXCEPT !.pods = @ \ {p}]))

UnschedulePod(snap, p, n) ==
    IF GetNodeInfo(snap, n) = Nil \/ p \notin GetNodeInfo(snap, n).pods THEN Failed(snap, "internal")
    ELSE Then(IF ClaimsOf[p] = {} THEN Ok(snap) ELSE WithDra(snap, UnreservePodClaims(snap.dra, p), "internal"),
              LAMBDA s : RemovePodInfo(s, p, n))

-----------------------------------------------------------------------------
\* modifyResourceClaimsForNewPod, for a pod a NodeInfo comes with: its own claims, already
\* allocated and reserved, are added, and every claim gets the reservation.
modifyResourceClaimsForNewPod(snap, n, p) ==
    LET own == [c \in {c \in ClaimsOf[p] : IsForPod(p, c)} |-> [allocation |-> n, reservedFor |-> {p}]]
    IN  Then(Then(WithDra(snap, AddClaims(snap.dra, own), "internal"),
                  LAMBDA s : WithDra(s, ReservePodClaims(s.dra, p), "internal")),
             LAMBDA s : verifyScheduledPodResourceClaims(s, p, n))

AddNodeSlices(snap, n, slices) ==
    IF slices = 0 THEN Ok(snap)
    ELSE WithDra(snap, AddNodeResourceSlices(snap.dra, n, slices), "internal")

AddPodClaims(snap, n, pods) ==
    FoldSet(LAMBDA p, r : Then(r, LAMBDA s : modifyResourceClaimsForNewPod(s, n, p)),
            Ok(snap), {p \in pods : ClaimsOf[p] # {}})

AddCsiNode(snap, n, csi) ==
    IF Csi!FindValue(snap.csi, n) # Nil THEN Failed([snap EXCEPT !.csi = Csi!AfterFindValue(@, n)], "internal")
    ELSE Ok([snap EXCEPT !.csi = Csi!SetCurrent(@, n, csi)])

StoreNodeInfo(snap, n, info) ==
    IF GetNodeInfo(snap, n) # Nil THEN Failed(snap, "internal") ELSE Ok(Store(snap, n, info))

AddNodeInfo(snap, n, info) ==
    Then(Then(Then(AddNodeSlices(snap, n, info.slices), LAMBDA s : AddPodClaims(s, n, info.pods)),
              LAMBDA s : AddCsiNode(s, n, info.csi)),
         LAMBDA s : StoreNodeInfo(s, n, info))

RemoveNodeInfo(snap, n) ==
    IF GetNodeInfo(snap, n) = Nil THEN Failed(snap, "internal")
    ELSE Then(FoldSet(LAMBDA p, r : Then(r, LAMBDA s : WithDra(s, RemovePodOwnedClaims(s.dra, p), "panic")),
                      Ok([Store(snap, n, Nil) EXCEPT !.dra = RemoveNodeResourceSlices(@, n)]),
                      GetNodeInfo(snap, n).pods),
              LAMBDA s : Ok([s EXCEPT !.csi = Csi!DeleteCurrent(@, n)]))

-----------------------------------------------------------------------------
ForkSnapshot(snap) ==
    [store |-> Append(snap.store, Cluster(snap)), dra |-> DraFork(snap.dra), csi |-> Csi!Fork(snap.csi)]

RevertSnapshot(snap) ==
    [store |-> IF Len(snap.store) = 1 THEN snap.store ELSE SubSeq(snap.store, 1, Len(snap.store) - 1),
     dra |-> DraRevert(snap.dra), csi |-> Csi!Revert(snap.csi)]

CommitSnapshot(snap) ==
    [store |-> IF Len(snap.store) = 1 THEN snap.store
               ELSE Append(SubSeq(snap.store, 1, Len(snap.store) - 2), Cluster(snap)),
     dra |-> DraCommit(snap.dra), csi |-> Csi!Commit(snap.csi)]

-----------------------------------------------------------------------------
\* What a reader of the snapshot sees, whatever is cached and however it is layered.
Visible(snap) ==
    [cluster |-> Cluster(snap),
     claims |-> [c \in ClaimIds |-> Claims!Effective(snap.dra.claims, c)],
     slices |-> [n \in Nodes |-> Slices!Effective(snap.dra.slices, n)],
     csi |-> [n \in Nodes |-> Csi!Effective(snap.csi, n)]]

Depths(snap) == {Len(snap.store), Claims!Depth(snap.dra.claims),
                 Slices!Depth(snap.dra.slices), Csi!Depth(snap.csi)}
==============================================================================
