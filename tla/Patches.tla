------------------------------- MODULE Patches -------------------------------
(***************************************************************************)
(* The layered maps under the simulated ResourceClaims, ResourceSlices and *)
(* CSINodes (simulator/common/patch.go and patchset.go).  A map is a       *)
(* function on Keys with Nil for a missing entry; a patch holds what a     *)
(* layer sets and what it deletes; a PatchSet is a stack of patches with a *)
(* cache, where Unknown marks a key that is not cached and Nil one that is *)
(* cached as absent.                                                       *)
(***************************************************************************)
EXTENDS Integers, Sequences

CONSTANTS Keys, Nil, Unknown

NewPatchFromMap(source) == [modified |-> source, deleted |-> {}]
NewPatch == NewPatchFromMap([k \in Keys |-> Nil])

Set(patch, key, value) ==
    [modified |-> [patch.modified EXCEPT ![key] = value], deleted |-> patch.deleted \ {key}]

Delete(patch, key) ==
    [modified |-> [patch.modified EXCEPT ![key] = Nil], deleted |-> patch.deleted \cup {key}]

Mentions(patch, key) == patch.modified[key] # Nil \/ key \in patch.deleted

\* Every entry of b is Set in a, then every deletion of b is a Delete in a.
mergePatchesInPlace(a, b) ==
    [modified |-> [k \in Keys |-> IF k \in b.deleted THEN Nil
                                  ELSE IF b.modified[k] # Nil THEN b.modified[k] ELSE a.modified[k]],
     deleted |-> {k \in a.deleted : b.modified[k] = Nil} \cup b.deleted]

-----------------------------------------------------------------------------
\* The stack

NewPatchSet(patch) ==
    [patches |-> <<patch>>, cache |-> [k \in Keys |-> Unknown], cacheInSync |-> FALSE]

Depth(ps) == Len(ps.patches)
Current(ps) == ps.patches[Depth(ps)]

Fork(ps) == [ps EXCEPT !.patches = Append(@, NewPatch)]

Commit(ps) ==
    IF Depth(ps) < 2 THEN ps
    ELSE [ps EXCEPT !.patches = [SubSeq(@, 1, Depth(ps) - 1) EXCEPT
             ![Depth(ps) - 1] = mergePatchesInPlace(@, Current(ps))]]

\* A bug the properties must catch: what the dropped layer deleted stays cached.
RevertKeepsDeletions(ps) ==
    IF Depth(ps) <= 1 THEN ps
    ELSE [patches |-> SubSeq(ps.patches, 1, Depth(ps) - 1),
          cache |-> [k \in Keys |-> IF Current(ps).modified[k] # Nil THEN Unknown ELSE ps.cache[k]],
          cacheInSync |-> FALSE]

\* The cached values of the keys that the dropped layer mentions are dropped with it.
Revert(ps) ==
    IF Depth(ps) <= 1 THEN ps
    ELSE [patches |-> SubSeq(ps.patches, 1, Depth(ps) - 1),
          cache |-> [k \in Keys |-> IF Mentions(Current(ps), k) THEN Unknown ELSE ps.cache[k]],
          cacheInSync |-> FALSE]

Mentioning(patches, n, key) == {i \in 1 .. n : Mentions(patches[i], key)}
Topmost(S) == CHOOSE i \in S : \A j \in S : j <= i

\* FindValue's walk down from the n-th layer to the first one that mentions the key,
\* which is also the last one to write the key when the layers are applied in order.
Walk(patches, n, key) ==
    IF Mentioning(patches, n, key) = {} THEN Nil
    ELSE LET patch == patches[Topmost(Mentioning(patches, n, key))]
         IN  IF key \in patch.deleted THEN Nil ELSE patch.modified[key]
Effective(ps, key) == Walk(ps.patches, Depth(ps), key)

FindValue(ps, key) == IF ps.cache[key] # Unknown THEN ps.cache[key] ELSE Effective(ps, key)
AfterFindValue(ps, key) == [ps EXCEPT !.cache[key] = FindValue(ps, key)]

\* AsMap: from the cache when it is in sync, else from the layers, bottom to top, and
\* then the entries that are found are cached.
AsMap(ps) ==
    IF ps.cacheInSync
    THEN [k \in Keys |-> IF ps.cache[k] = Unknown THEN Nil ELSE ps.cache[k]]
    ELSE [k \in Keys |-> Effective(ps, k)]
AfterAsMap(ps) ==
    IF ps.cacheInSync THEN ps
    ELSE [ps EXCEPT !.cache = [k \in Keys |-> IF AsMap(ps)[k] # Nil THEN AsMap(ps)[k] ELSE @[k]],
                    !.cacheInSync = TRUE]

SetCurrent(ps, key, value) ==
    [ps EXCEPT !.patches[Depth(ps)] = Set(@, key, value), !.cache[key] = value]
DeleteCurrent(ps, key) ==
    [ps EXCEPT !.patches[Depth(ps)] = Delete(@, key), !.cache[key] = Nil]
InCurrentPatch(ps, key) == Current(ps).modified[key] # Nil

-----------------------------------------------------------------------------
\* What the cache may say of the layers: a cached value is the one the layers give, and
\* a cache in sync misses no entry.
CacheTruthful(ps) ==
    \A k \in Keys : /\ ps.cache[k] # Unknown => ps.cache[k] = Effective(ps, k)
                    /\ ps.cacheInSync /\ ps.cache[k] = Unknown => Effective(ps, k) = Nil
=============================================================================
