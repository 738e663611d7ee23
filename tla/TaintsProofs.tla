----------------------------- MODULE TaintsProofs -----------------------------
(***************************************************************************)
(* Proofs about the taints on node objects (NodeTaints), for any number of *)
(* nodes, crashes, faults, edits by others and rounds of scale-down.       *)
(***************************************************************************)
EXTENDS NodeTaints, TLAPS

TaintKeys == {"delete", "soft", "other"}
Objects == [present : BOOLEAN, keys : SUBSET TaintKeys, cordoned : BOOLEAN]
Copies == [keys : SUBSET TaintKeys, cordoned : BOOLEAN, current : BOOLEAN]
CallRecords ==
  [pc : {"get", "update", "ok", "error"}, op : {"add", "clean"}, key : {"delete", "soft"},
   obj : Copies, refresh : BOOLEAN]

Shapes ==
  /\ node \in [Nodes -> Objects]
  /\ lister \in [Nodes -> Copies]
  /\ others \in [Nodes -> BOOLEAN]
  /\ calls \in [Callers -> [Nodes -> CallRecords \cup {NoCall}]]

(* A copy that is current is what the API server has. *)
Agrees(copy, n) == copy.current => copy.keys = node[n].keys /\ copy.cordoned = node[n].cordoned

(* A call about the hard taint that succeeded, or that has read the object *)
(* again and found nothing to change, has brought about what it is for.    *)
Effective(call, n) ==
  call.pc = "ok" \/ (call.pc = "update" /\ call.refresh /\ ~Changes(call)) =>
    ("delete" \in node[n].keys <=> call.op = "add")

(* Who calls for what, and when.  So long as a call is under way nobody    *)
(* else works against it.                                                  *)
Tainting == {"announce", "taint"}
Waiting == {"await", "result", "tainted"}
CallOK(a, n, call) ==
  /\ call \in CallRecords
  /\ Agrees(call.obj, n)
  /\ call.pc = "get" => call.refresh
  /\ a = "worker" => main \in Tainting /\ n \in chosen /\ call.op = "add" /\ call.key = "delete"
  /\ a = "abort" => n \in deleting /\ call.op = "clean" /\ call.key = "delete"
  /\ a = "main" /\ call.key = "soft" => main = "loop"
  /\ a = "main" /\ call.key = "delete" => main \in {"rollback", "cleanup"} /\ n \notin deleting /\ call.op = "clean"
  /\ call.key = "delete" => Effective(call, n) /\ (call.pc = "error" => n \in leaked)

(* Why a node may carry the hard taint. *)
Excused(n) ==
  \/ n \in deleting \cup leaked
  \/ main \in Tainting \cup Waiting /\ n \in chosen
  \/ main \in {"rollback", "cleanup"} /\ (n \in chosen \/ Running("main", n))

NodeInv(n) ==
  /\ Agrees(lister[n], n)
  /\ \A a \in Callers : calls[a][n] # NoCall => CallOK(a, n, calls[a][n])
  /\ others[n] <=> "other" \in node[n].keys
  /\ node[n].cordoned => conf.cordon /\ "delete" \in node[n].keys
  /\ main \in Waiting /\ n \in chosen => "delete" \in node[n].keys
  /\ main # "loop" => ~(n \in chosen /\ n \in deleting)
  /\ "delete" \in node[n].keys => Excused(n)

TaintsInv == Shapes /\ \A n \in Nodes : NodeInv(n)

-----------------------------------------------------------------------------
(* A node that a step does not touch. *)
LEMMA UntouchedNode ==
    ASSUME NEW m \in Nodes, NodeInv(m), UNCHANGED <<conf, main>>,
           node'[m] = node[m], lister'[m] = lister[m], others'[m] = others[m],
           \A a \in Callers : calls'[a][m] = calls[a][m],
           m \in chosen' <=> m \in chosen, m \in deleting' <=> m \in deleting,
           m \in leaked' <=> m \in leaked
    PROVE  NodeInv(m)'
<1>1. \A a \in Callers : calls'[a][m] # NoCall => CallOK(a, m, calls[a][m])'
  BY DEF NodeInv, CallOK, Agrees, Effective, Changes
<1>2. Excused(m) => Excused(m)'
  BY DEF Excused, Running, Callers
<1> QED BY <1>1, <1>2 DEF NodeInv, Agrees

Stale(call) == [call EXCEPT !.obj.current = FALSE]

LEMMA StaleCall ==
    ASSUME NEW call \in CallRecords
    PROVE  /\ Stale(call) \in CallRecords
           /\ Stale(call).obj.keys = call.obj.keys
           /\ Stale(call).obj.current = FALSE
           /\ Stale(call).pc = call.pc /\ Stale(call).op = call.op /\ Stale(call).key = call.key
           /\ Stale(call).refresh = call.refresh
BY Zenon DEF Stale, CallRecords, Copies

LEMMA NoCallIsNone == NoCall \notin CallRecords /\ NoCall.pc = "none"
                      /\ \A call \in CallRecords : call.pc # "none"
BY DEF NoCall, CallRecords

LEMMA OutdateOne ==
    ASSUME NEW cs \in [Callers -> [Nodes -> CallRecords \cup {NoCall}]], NEW n \in Nodes
    PROVE  /\ Outdate(cs, n) \in [Callers -> [Nodes -> CallRecords \cup {NoCall}]]
           /\ \A a \in Callers : \A m \in Nodes :
                Outdate(cs, n)[a][m] = IF m = n /\ cs[a][m] # NoCall THEN Stale(cs[a][m]) ELSE cs[a][m]
<1>1. ASSUME NEW a \in Callers
      PROVE  /\ Outdate(cs, n)[a] \in [Nodes -> CallRecords \cup {NoCall}]
             /\ \A m \in Nodes :
                  Outdate(cs, n)[a][m] = IF m = n /\ cs[a][m] # NoCall THEN Stale(cs[a][m]) ELSE cs[a][m]
  <2>1. CASE cs[a][n] = NoCall
    <3>1. Outdate(cs, n)[a] = cs[a]
      BY <2>1, NoCallIsNone DEF Outdate
    <3> QED BY <2>1, <3>1
  <2>2. CASE cs[a][n] # NoCall
    <3>1. cs[a][n] \in CallRecords /\ cs[a][n].pc # "none"
      BY <2>2, NoCallIsNone
    <3>2. Outdate(cs, n)[a] = [cs[a] EXCEPT ![n].obj.current = FALSE]
      BY <3>1 DEF Outdate
    <3>3. Outdate(cs, n)[a] = [cs[a] EXCEPT ![n] = Stale(cs[a][n])]
      BY <3>2 DEF Stale
    <3>4. Stale(cs[a][n]) \in CallRecords
      BY <3>1, StaleCall, Zenon
    <3> QED BY <2>2, <3>3, <3>4
  <2> QED BY <2>1, <2>2
<1> QED BY <1>1, Zenon DEF Outdate

-----------------------------------------------------------------------------
(* A step of a call that writes nothing. *)
LEMMA CallProceeds ==
    ASSUME TaintsInv, NEW a \in Callers, NEW n \in Nodes, calls[a][n] # NoCall,
           NEW call \in CallRecords, call.op = calls[a][n].op, call.key = calls[a][n].key,
           calls' = [calls EXCEPT ![a][n] = call],
           Agrees(call.obj, n), call.pc = "get" => call.refresh,
           call.key = "delete" => Effective(call, n),
           call.pc = "error" => leaked' = Leak(n, calls[a][n]),
           call.pc # "error" => UNCHANGED leaked,
           UNCHANGED <<conf, node, lister, main, chosen, deleting, others>>
    PROVE  TaintsInv'
<1>1. calls \in [Callers -> [Nodes -> CallRecords \cup {NoCall}]]
  BY DEF TaintsInv, Shapes
<1>2. /\ calls' \in [Callers -> [Nodes -> CallRecords \cup {NoCall}]]
      /\ calls'[a][n] = call
      /\ \A b \in Callers : \A m \in Nodes : <<b, m>> # <<a, n>> => calls'[b][m] = calls[b][m]
  BY <1>1
<1>3. Shapes'
  BY <1>2 DEF TaintsInv, Shapes
<1>4. /\ leaked \subseteq leaked'
      /\ \A m \in Nodes \ {n} : m \in leaked' <=> m \in leaked
      /\ call.key = "delete" /\ call.pc = "error" => n \in leaked'
  BY DEF Leak
<1>5. ASSUME NEW m \in Nodes, m # n PROVE NodeInv(m)'
  BY <1>2, <1>4, <1>5, UntouchedNode DEF TaintsInv
<1>6. NodeInv(n)'
  <2>1. NodeInv(n) /\ CallOK(a, n, calls[a][n]) /\ calls[a][n] \in CallRecords
    BY DEF TaintsInv, NodeInv, CallOK
  <2>2. ASSUME NEW b \in Callers, calls'[b][n] # NoCall PROVE CallOK(b, n, calls[b][n])'
    <3>1. CASE b = a
      <4>1. Effective(call, n) => Effective(call, n)'
        BY DEF Effective
      <4> QED BY <3>1, <4>1, <2>1, <1>2, <1>4 DEF CallOK, Agrees
    <3>2. CASE b # a
      <4>1. calls'[b][n] = calls[b][n] /\ CallOK(b, n, calls[b][n])
        BY <3>2, <2>1, <2>2, <1>2 DEF NodeInv
      <4>2. Effective(calls[b][n], n) => Effective(calls[b][n], n)'
        BY <4>1 DEF Effective, Changes
      <4> QED BY <4>1, <4>2, <1>4 DEF CallOK, Agrees
    <3> QED BY <3>1, <3>2
  <2>3. "delete" \in node'[n].keys => Excused(n)'
    <3>1. SUFFICES ASSUME "delete" \in node[n].keys PROVE Excused(n)'
      OBVIOUS
    <3>2. Excused(n)
      BY <3>1, <2>1 DEF NodeInv
    <3>3. CASE a = "main" /\ main \in {"rollback", "cleanup"}
      <4>1. call.key = "delete" /\ call.op = "clean"
        BY <3>3, <2>1 DEF CallOK, CallRecords
      <4>2. call.pc # "ok"
        BY <4>1, <3>1 DEF Effective
      <4>3. call.pc \in {"get", "update"} \/ n \in leaked'
        BY <4>1, <4>2, <1>4 DEF CallRecords
      <4> QED BY <3>3, <4>3, <1>2 DEF Excused, Running, Callers
    <3>4. CASE ~(a = "main" /\ main \in {"rollback", "cleanup"})
      <4>1. main \in {"rollback", "cleanup"} => calls'["main"][n] = calls["main"][n]
        BY <3>4, <1>2 DEF Callers
      <4> QED BY <4>1, <3>2, <1>4 DEF Excused, Running
    <3> QED BY <3>3, <3>4
  <2> QED BY <2>1, <2>2, <2>3 DEF NodeInv, Agrees
<1> QED BY <1>3, <1>5, <1>6 DEF TaintsInv

LEMMA CallStepsThatRead ==
    ASSUME TaintsInv, NEW a \in Callers, NEW n \in Nodes,
           GetNode(a, n) \/ GetFails(a, n) \/ NothingToDo(a, n) \/ UpdateFails(a, n)
    PROVE  TaintsInv'
<1> DEFINE old == calls[a][n]
<1>1. old # NoCall /\ old.pc \in {"get", "update"}
  BY NoCallIsNone, Zenon DEF GetNode, GetFails, NothingToDo, UpdateFails
<1>2. /\ old \in CallRecords /\ Agrees(old.obj, n) /\ (old.pc = "get" => old.refresh)
      /\ old.key = "delete" => Effective(old, n)
      /\ node[n] \in Objects
      /\ calls \in [Callers -> [Nodes -> CallRecords \cup {NoCall}]]
  BY <1>1 DEF TaintsInv, NodeInv, CallOK, Shapes
<1> HIDE DEF old
<1> DEFINE Still == UNCHANGED <<conf, node, lister, main, chosen, deleting, others>>
<1>3. ASSUME NEW out \in {"ok", "error"}, calls' = Return(a, n, out), Still,
             out = "error" => leaked' = Leak(n, calls[a][n]),
             out # "error" => UNCHANGED leaked,
             out = "ok" => old.pc = "update" /\ old.refresh /\ ~Changes(old)
      PROVE  TaintsInv'
  <2> DEFINE call == [old EXCEPT !.pc = out]
  <2>1. calls' = [calls EXCEPT ![a][n] = call]
    BY <1>3 DEF Return, old
  <2>2. /\ call \in CallRecords /\ call.pc = out /\ call.op = old.op /\ call.key = old.key
        /\ call.obj = old.obj
    BY <1>2, Zenon DEF CallRecords
  <2> HIDE DEF call
  <2>3. call.key = "delete" => Effective(call, n)
    BY <2>2, <1>2, <1>3 DEF Effective
  <2> QED BY <2>1, <2>2, <2>3, <1>1, <1>2, <1>3, CallProceeds, Zenon DEF old
<1>4. ASSUME calls' = [calls EXCEPT ![a][n].pc = "get", ![a][n].refresh = TRUE], Still, UNCHANGED leaked
      PROVE  TaintsInv'
  <2> DEFINE call == [old EXCEPT !.pc = "get", !.refresh = TRUE]
  <2>1. calls' = [calls EXCEPT ![a][n] = call]
    BY <1>4, <1>2, Zenon DEF old
  <2>2. /\ call \in CallRecords /\ call.pc = "get" /\ call.op = old.op /\ call.key = old.key
        /\ call.obj = old.obj /\ call.refresh
    BY <1>2, Zenon DEF CallRecords
  <2> HIDE DEF call
  <2>3. Effective(call, n)
    BY <2>2 DEF Effective
  <2> QED BY <2>1, <2>2, <2>3, <1>1, <1>2, <1>4, CallProceeds, Zenon DEF old
<1>5. CASE GetNode(a, n)
  <2> DEFINE call == [old EXCEPT !.pc = "update", !.obj = Copy(node[n], TRUE)]
  <2>1. calls' = [calls EXCEPT ![a][n] = call]
    BY <1>5, <1>2, Zenon DEF GetNode, old
  <2>2. /\ Copy(node[n], TRUE) \in Copies /\ Copy(node[n], TRUE).keys = node[n].keys
        /\ Copy(node[n], TRUE).cordoned = node[n].cordoned
    BY <1>2 DEF Copy, Copies, Objects
  <2>3. /\ call \in CallRecords /\ call.pc = "update" /\ call.op = old.op /\ call.key = old.key
        /\ call.obj = Copy(node[n], TRUE)
    BY <1>2, <2>2, Zenon DEF CallRecords
  <2> HIDE DEF call
  <2>4. call.key = "delete" => Effective(call, n)
    <3>1. call.op \in {"add", "clean"} /\ call.obj.keys = node[n].keys
      BY <2>2, <2>3, Zenon DEF CallRecords
    <3>2. call.key = "delete" /\ ~Changes(call) => ("delete" \in node[n].keys <=> call.op = "add")
      BY <3>1 DEF Changes
    <3> QED BY <2>3, <3>2 DEF Effective
  <2>5. Agrees(call.obj, n)
    BY <2>2, <2>3, Zenon DEF Agrees
  <2> QED BY <2>1, <2>3, <2>4, <2>5, <1>1, <1>2, <1>5, CallProceeds, Zenon DEF old, GetNode
<1>6. CASE GetFails(a, n)
  BY <1>6, <1>3 DEF GetFails
<1>7. CASE NothingToDo(a, n)
  BY <1>7, <1>3, <1>4 DEF NothingToDo, old
<1>8. CASE UpdateFails(a, n)
  BY <1>8, <1>3, <1>4 DEF UpdateFails
<1> QED BY <1>5, <1>6, <1>7, <1>8

-----------------------------------------------------------------------------
(* A write of the object of n: the other copies of it become out of date. *)
LEMMA OutdatedCalls ==
    ASSUME TaintsInv, NEW n \in Nodes,
           NEW cs \in [Callers -> [Nodes -> CallRecords \cup {NoCall}]],
           \A b \in Callers : \A m \in Nodes \ {n} : cs[b][m] = calls[b][m],
           calls' = Outdate(cs, n),
           NEW object \in Objects, Write(n, object),
           others' \in [Nodes -> BOOLEAN]
    PROVE  /\ Shapes'
           /\ node'[n] = object /\ Agrees(lister[n], n)'
           /\ \A b \in Callers : cs[b][n] = NoCall => calls'[b][n] = NoCall
           /\ \A b \in Callers : cs[b][n] # NoCall =>
                /\ cs[b][n] \in CallRecords
                /\ calls'[b][n] = Stale(cs[b][n])
                /\ calls'[b][n] \in CallRecords
                /\ Agrees(calls[b][n].obj, n)'
           /\ \A m \in Nodes \ {n} :
                /\ node'[m] = node[m] /\ lister'[m] = lister[m]
                /\ \A b \in Callers : calls'[b][m] = calls[b][m]
<1>1. node \in [Nodes -> Objects] /\ lister \in [Nodes -> Copies]
  BY DEF TaintsInv, Shapes
<1>2. /\ calls' \in [Callers -> [Nodes -> CallRecords \cup {NoCall}]]
      /\ \A b \in Callers : \A m \in Nodes :
           calls'[b][m] = IF m = n /\ cs[b][m] # NoCall THEN Stale(cs[b][m]) ELSE cs[b][m]
  BY OutdateOne
<1>3. /\ node' \in [Nodes -> Objects] /\ node'[n] = object
      /\ \A m \in Nodes \ {n} : node'[m] = node[m]
  BY <1>1 DEF Write
<1>4. /\ lister' \in [Nodes -> Copies] /\ lister'[n].current = FALSE
      /\ \A m \in Nodes \ {n} : lister'[m] = lister[m]
  BY <1>1, Zenon DEF Write, Copies
<1>5. Shapes'
  BY <1>2, <1>3, <1>4 DEF Shapes
<1>6. Agrees(lister[n], n)'
  BY <1>4 DEF Agrees
<1>7. ASSUME NEW b \in Callers, cs[b][n] # NoCall
      PROVE  /\ cs[b][n] \in CallRecords
             /\ calls'[b][n] = Stale(cs[b][n])
             /\ calls'[b][n] \in CallRecords
             /\ Agrees(calls[b][n].obj, n)'
  <2>1. cs[b][n] \in CallRecords /\ calls'[b][n] = Stale(cs[b][n])
    BY <1>2, <1>7
  <2>2. calls'[b][n] \in CallRecords /\ calls'[b][n].obj.current = FALSE
    BY <2>1, StaleCall, Zenon
  <2> QED BY <2>1, <2>2 DEF Agrees
<1> QED BY <1>2, <1>3, <1>4, <1>5, <1>6, <1>7

(* What a call becomes when its copy of the object is out of date, while   *)
(* the hard taint stays as it is or the call is not about it.              *)
LEMMA StaleCallOK ==
    ASSUME NEW b \in Callers, NEW n \in Nodes, NEW call \in CallRecords,
           CallOK(b, n, call), calls'[b][n] = Stale(call), Agrees(calls[b][n].obj, n)',
           call.key = "delete" => ("delete" \in node'[n].keys <=> "delete" \in node[n].keys),
           n \in leaked => n \in leaked', UNCHANGED <<main, chosen>>,
           n \in deleting' <=> n \in deleting
    PROVE  CallOK(b, n, calls[b][n])'
<1> DEFINE new == calls[b][n]
<1>1. /\ new' \in CallRecords /\ new'.obj.keys = call.obj.keys /\ new'.pc = call.pc /\ new'.op = call.op
      /\ new'.key = call.key /\ new'.refresh = call.refresh
  BY StaleCall, Zenon
<1>2. Agrees(new.obj, n)'
  OBVIOUS
<1> HIDE DEF new
<1>3. Changes(new') <=> Changes(call)
  BY <1>1 DEF Changes
<1>4. call.key = "delete" => Effective(new, n)'
  BY <1>1, <1>3 DEF CallOK, Effective
<1>5. CallOK(b, n, new)'
  BY <1>1, <1>2, <1>4 DEF CallOK
<1> QED BY <1>5 DEF new

LEMMA UpdateWrites ==
    ASSUME TaintsInv, NEW a \in Callers, NEW n \in Nodes, Update(a, n)
    PROVE  TaintsInv'
<1> DEFINE call == calls[a][n]
           object == Changed(call)
<1>1. PICK out \in {"ok", "error"} :
        /\ calls' = Outdate(Return(a, n, out), n)
        /\ out = "ok" => UNCHANGED leaked
        /\ out = "error" => leaked' = Leak(n, call)
  BY DEF Update
<1>2. /\ call.pc = "update" /\ Changes(call) /\ call.obj.current
      /\ Write(n, object)
      /\ UNCHANGED <<conf, main, chosen, deleting, others>>
  BY DEF Update
<1>3. /\ calls \in [Callers -> [Nodes -> CallRecords \cup {NoCall}]]
      /\ node[n] \in Objects /\ others \in [Nodes -> BOOLEAN]
      /\ NodeInv(n)
  BY DEF TaintsInv, Shapes
<1>4. call # NoCall /\ call \in CallRecords /\ CallOK(a, n, call)
  BY <1>2, <1>3, NoCallIsNone DEF NodeInv, CallOK
<1>5. call.obj.keys = node[n].keys /\ call.obj.cordoned = node[n].cordoned
  BY <1>2, <1>4 DEF CallOK, Agrees
<1> HIDE DEF call
<1>6. /\ object \in Objects
      /\ object.keys = IF call.op = "add" THEN node[n].keys \cup {call.key} ELSE node[n].keys \ {call.key}
      /\ object.cordoned = IF conf.cordon /\ call.key = "delete" THEN call.op = "add" ELSE node[n].cordoned
  <2>1. /\ call.key \in TaintKeys /\ node[n].keys \in SUBSET TaintKeys /\ node[n].cordoned \in BOOLEAN
    BY <1>3, <1>4 DEF CallRecords, TaintKeys, Objects
  <2> QED BY <1>5, <2>1, Zenon DEF Changed, Objects
<1> HIDE DEF object
<1> DEFINE cs == Return(a, n, out)
           done == [call EXCEPT !.pc = out]
<1>7. /\ done \in CallRecords /\ done.pc = out /\ done.op = call.op /\ done.key = call.key
  BY <1>4 DEF CallRecords
<1>8. /\ cs \in [Callers -> [Nodes -> CallRecords \cup {NoCall}]]
      /\ cs[a][n] = done
      /\ \A b \in Callers \ {a} : cs[b][n] = calls[b][n]
      /\ \A b \in Callers : \A m \in Nodes \ {n} : cs[b][m] = calls[b][m]
  <2>1. cs = [calls EXCEPT ![a][n] = done]
    BY DEF Return, call
  <2> HIDE DEF cs, done
  <2> QED BY <2>1, <1>3, <1>7
<1> HIDE DEF cs, done
<1>9. /\ Shapes'
      /\ node'[n] = object /\ Agrees(lister[n], n)'
      /\ \A b \in Callers : cs[b][n] = NoCall => calls'[b][n] = NoCall
      /\ \A b \in Callers : cs[b][n] # NoCall =>
           /\ cs[b][n] \in CallRecords
           /\ calls'[b][n] = Stale(cs[b][n])
           /\ calls'[b][n] \in CallRecords
           /\ Agrees(calls[b][n].obj, n)'
      /\ \A m \in Nodes \ {n} :
           /\ node'[m] = node[m] /\ lister'[m] = lister[m]
           /\ \A b \in Callers : calls'[b][m] = calls[b][m]
  <2>1. calls' = Outdate(cs, n) /\ Write(n, object) /\ others' \in [Nodes -> BOOLEAN]
    BY <1>1, <1>2, <1>3 DEF cs
  <2> QED BY <2>1, <1>6, <1>8, OutdatedCalls
<1>10. /\ n \in leaked => n \in leaked'
       /\ \A m \in Nodes \ {n} : m \in leaked' <=> m \in leaked
       /\ call.key = "delete" /\ out = "error" => n \in leaked'
  BY <1>1 DEF Leak
<1>11. ASSUME NEW m \in Nodes, m # n PROVE NodeInv(m)'
  BY <1>11, <1>2, <1>9, <1>10, UntouchedNode DEF TaintsInv
<1>12. ASSUME NEW b \in Callers, calls'[b][n] # NoCall PROVE CallOK(b, n, calls[b][n])'
  <2>1. CASE b = a
    <3> DEFINE new == calls[a][n]
    <3>1. new' = Stale(done) /\ new' \in CallRecords /\ Agrees(calls[a][n].obj, n)'
      BY <1>7, <1>8, <1>9, NoCallIsNone
    <3>2. new'.pc = out /\ new'.op = call.op /\ new'.key = call.key
      BY <3>1, <1>7, StaleCall, Zenon
    <3>3. Agrees(new.obj, n)'
      BY <3>1
    <3> HIDE DEF new
    <3>4. call.key = "delete" => ("delete" \in node'[n].keys <=> call.op = "add")
      BY <1>6, <1>9, <1>4 DEF CallRecords
    <3>5. call.key = "delete" => Effective(new, n)'
      BY <3>2, <3>4 DEF Effective
    <3>6. CallOK(a, n, new)'
      BY <3>1, <3>2, <3>3, <3>5, <1>2, <1>4, <1>10 DEF CallOK
    <3> QED BY <2>1, <3>6 DEF new
  <2>2. CASE b # a
    <3>1. /\ calls[b][n] # NoCall /\ calls[b][n] \in CallRecords /\ CallOK(b, n, calls[b][n])
          /\ calls'[b][n] = Stale(calls[b][n]) /\ Agrees(calls[b][n].obj, n)'
      BY <2>2, <1>8, <1>9, <1>12, <1>3 DEF NodeInv
    <3>2. ~(call.key = "delete" /\ calls[b][n].key = "delete")
      <4>1. Callers = {"main", "worker", "abort"}
        BY DEF Callers
      <4>2. main # "loop" => ~(n \in chosen /\ n \in deleting)
        BY <1>3 DEF NodeInv
      <4> QED BY <2>2, <3>1, <4>1, <4>2, <1>4 DEF CallOK, Tainting
    <3>3. calls[b][n].key = "delete" => ("delete" \in node'[n].keys <=> "delete" \in node[n].keys)
      BY <3>2, <1>6, <1>9
    <3> QED BY <3>1, <3>3, <1>2, <1>10, StaleCallOK
  <2> QED BY <2>1, <2>2
<1>13. node'[n].cordoned => conf.cordon /\ "delete" \in node'[n].keys
  <2>1. call.op \in {"add", "clean"} /\ (node[n].cordoned => conf.cordon /\ "delete" \in node[n].keys)
    BY <1>3, <1>4 DEF CallRecords, NodeInv
  <2>2. CASE conf.cordon /\ call.key = "delete"
    BY <2>1, <2>2, <1>6, <1>9, Zenon
  <2>3. CASE ~(conf.cordon /\ call.key = "delete")
    <3>1. node'[n].cordoned = node[n].cordoned
      BY <2>3, <1>6, <1>9
    <3>2. node'[n].cordoned => call.key # "delete"
      BY <3>1, <2>1, <2>3
    <3> QED BY <3>1, <3>2, <2>1, <1>6, <1>9
  <2> QED BY <2>2, <2>3
<1>14. others[n] <=> "other" \in node'[n].keys
  BY <1>3, <1>4, <1>6, <1>9 DEF NodeInv, CallRecords
<1>15. main \in Waiting => n \notin chosen \/ call.key # "delete"
  <2>1. main \in Waiting => main \notin Tainting /\ main \notin {"rollback", "cleanup", "loop"}
    BY DEF Waiting, Tainting
  <2> QED BY <2>1, <1>3, <1>4 DEF CallOK, NodeInv, Callers
<1>16. "delete" \in node'[n].keys => Excused(n)'
  <2>1. SUFFICES ASSUME "delete" \in node'[n].keys PROVE Excused(n)'
    OBVIOUS
  <2>2. CASE call.key = "delete"
    <3>1. call.op = "add"
      BY <2>1, <2>2, <1>6, <1>9
    <3>2. main \in Tainting /\ n \in chosen
      BY <3>1, <2>2, <1>4 DEF CallOK, Callers
    <3> QED BY <3>2, <1>2 DEF Excused
  <2>3. CASE call.key # "delete"
    <3>1. Excused(n)
      BY <2>1, <2>3, <1>3, <1>6, <1>9 DEF NodeInv
    <3>2. main \in {"rollback", "cleanup"} => a # "main"
      BY <2>3, <1>4 DEF CallOK, CallRecords
    <3>3. main \in {"rollback", "cleanup"} /\ Running("main", n) => Running("main", n)'
      <4>1. SUFFICES ASSUME a # "main", Running("main", n) PROVE Running("main", n)'
        BY <3>2
      <4>2. cs["main"][n] = calls["main"][n] /\ calls["main"][n] # NoCall
        BY <4>1, <1>8, NoCallIsNone DEF Running, Callers
      <4>3. calls["main"][n] \in CallRecords /\ calls'["main"][n] = Stale(calls["main"][n])
        <5>1. "main" \in Callers /\ cs["main"][n] # NoCall
          BY <4>2 DEF Callers
        <5>2. cs["main"][n] \in CallRecords /\ calls'["main"][n] = Stale(cs["main"][n])
          BY <5>1, <1>9
        <5> QED BY <5>2, <4>2
      <4>4. calls'["main"][n].pc = calls["main"][n].pc
        BY <4>3, StaleCall, Zenon
      <4> QED BY <4>1, <4>4 DEF Running
    <3> QED BY <3>1, <3>3, <1>2, <1>10 DEF Excused
  <2> QED BY <2>2, <2>3
<1>17. main \in Waiting /\ n \in chosen => "delete" \in node'[n].keys
  BY <1>3, <1>6, <1>9, <1>15 DEF NodeInv
<1>18. NodeInv(n)'
  BY <1>2, <1>3, <1>9, <1>12, <1>13, <1>14, <1>16, <1>17, Zenon DEF NodeInv
<1> QED BY <1>9, <1>11, <1>18 DEF TaintsInv

-----------------------------------------------------------------------------
(* The other components, the lister and the tracker. *)
LEMMA EditInductive == ASSUME TaintsInv, NEW n \in Nodes, Edit(n) PROVE TaintsInv'
<1> DEFINE object == [node[n] EXCEPT !.keys = IF others[n] THEN @ \ {"other"} ELSE @ \cup {"other"}]
<1>1. /\ Write(n, object) /\ calls' = Outdate(calls, n)
      /\ others' = [others EXCEPT ![n] = ~@]
      /\ UNCHANGED <<conf, main, chosen, deleting, leaked>>
  BY DEF Edit
<1>2. /\ calls \in [Callers -> [Nodes -> CallRecords \cup {NoCall}]]
      /\ node[n] \in Objects /\ others \in [Nodes -> BOOLEAN] /\ NodeInv(n)
  BY DEF TaintsInv, Shapes
<1>3. /\ object \in Objects
      /\ object.keys = IF others[n] THEN node[n].keys \ {"other"} ELSE node[n].keys \cup {"other"}
      /\ object.cordoned = node[n].cordoned
  BY <1>2 DEF Objects, TaintKeys
<1> HIDE DEF object
<1>4. others' \in [Nodes -> BOOLEAN] /\ others'[n] = ~others[n] /\ \A m \in Nodes \ {n} : others'[m] = others[m]
  BY <1>1, <1>2
<1>5. /\ Shapes'
      /\ node'[n] = object /\ Agrees(lister[n], n)'
      /\ \A b \in Callers : calls[b][n] = NoCall => calls'[b][n] = NoCall
      /\ \A b \in Callers : calls[b][n] # NoCall =>
           /\ calls[b][n] \in CallRecords
           /\ calls'[b][n] = Stale(calls[b][n])
           /\ calls'[b][n] \in CallRecords
           /\ Agrees(calls[b][n].obj, n)'
      /\ \A m \in Nodes \ {n} :
           /\ node'[m] = node[m] /\ lister'[m] = lister[m]
           /\ \A b \in Callers : calls'[b][m] = calls[b][m]
  BY <1>1, <1>2, <1>3, <1>4, OutdatedCalls
<1>6. "delete" \in node'[n].keys <=> "delete" \in node[n].keys
  <2>1. node'[n] = object
    BY <1>5
  <2> QED BY <1>3, <2>1
<1>7. ASSUME NEW b \in Callers, calls'[b][n] # NoCall PROVE CallOK(b, n, calls[b][n])'
  <2>1. calls[b][n] # NoCall /\ CallOK(b, n, calls[b][n])
    BY <1>2, <1>5, <1>7 DEF NodeInv
  <2> QED BY <2>1, <1>1, <1>5, <1>6, StaleCallOK, Zenon
<1>8. Running("main", n) => Running("main", n)'
  <2>1. SUFFICES ASSUME Running("main", n) PROVE Running("main", n)'
    OBVIOUS
  <2>2. "main" \in Callers /\ calls["main"][n] # NoCall
    BY <2>1, NoCallIsNone DEF Running, Callers
  <2>3. calls'["main"][n].pc = calls["main"][n].pc
    BY <2>2, <1>5, StaleCall, ZenonT(30)
  <2> QED BY <2>1, <2>3 DEF Running
<1>9. NodeInv(n)'
  <2>1. others'[n] <=> "other" \in node'[n].keys
    BY <1>2, <1>3, <1>4, <1>5 DEF NodeInv
  <2>2. node'[n].cordoned => conf.cordon /\ "delete" \in node'[n].keys
    BY <1>2, <1>3, <1>5, <1>6, Zenon DEF NodeInv
  <2>3. Excused(n) => Excused(n)'
    BY <1>1, <1>8 DEF Excused
  <2> QED BY <2>1, <2>2, <2>3, <1>1, <1>2, <1>5, <1>6, <1>7, Zenon DEF NodeInv
<1>10. ASSUME NEW m \in Nodes, m # n PROVE NodeInv(m)'
  BY <1>10, <1>1, <1>4, <1>5, UntouchedNode DEF TaintsInv
<1> QED BY <1>5, <1>9, <1>10 DEF TaintsInv

LEMMA FreshCopy ==
    ASSUME NEW object \in Objects
    PROVE  /\ Copy(object, TRUE) \in Copies /\ Copy(object, TRUE).keys = object.keys
           /\ Copy(object, TRUE).cordoned = object.cordoned
BY DEF Copy, Copies, Objects

LEMMA DeliverInductive == ASSUME TaintsInv, NEW n \in Nodes, Deliver(n) PROVE TaintsInv'
<1>1. /\ lister' = [lister EXCEPT ![n] = Copy(node[n], TRUE)]
      /\ UNCHANGED <<conf, node, main, chosen, deleting, calls, leaked, others>>
  BY DEF Deliver
<1>2. node \in [Nodes -> Objects] /\ lister \in [Nodes -> Copies] /\ NodeInv(n)
  BY DEF TaintsInv, Shapes
<1>3. /\ lister' \in [Nodes -> Copies] /\ lister'[n] = Copy(node[n], TRUE)
      /\ \A m \in Nodes \ {n} : lister'[m] = lister[m]
  BY <1>1, <1>2, FreshCopy, Zenon
<1>4. Agrees(lister[n], n)'
  BY <1>1, <1>2, <1>3, FreshCopy, Zenon DEF Agrees
<1>5. NodeInv(n)'
  <2>1. ASSUME NEW a \in Callers, calls'[a][n] # NoCall PROVE CallOK(a, n, calls[a][n])'
    <3>1. calls' = calls /\ CallOK(a, n, calls[a][n])
      BY <1>1, <1>2, <2>1, Zenon DEF NodeInv
    <3> QED BY <1>1, <3>1, Zenon DEF CallOK, Agrees, Effective, Changes
  <2>2. Excused(n) => Excused(n)'
    BY <1>1 DEF Excused, Running
  <2> QED BY <2>1, <2>2, <1>1, <1>2, <1>4, Zenon DEF NodeInv
<1>6. ASSUME NEW m \in Nodes, m # n PROVE NodeInv(m)'
  BY <1>1, <1>3, <1>6, UntouchedNode, Zenon DEF TaintsInv
<1>7. Shapes'
  BY <1>1, <1>3, Zenon DEF TaintsInv, Shapes
<1> QED BY <1>5, <1>6, <1>7 DEF TaintsInv

LEMMA SamePhase ==
    ASSUME TaintsInv, UNCHANGED <<conf, node, lister, others, calls, chosen, deleting, leaked>>,
           \/ main' = main
           \/ main \in Tainting /\ main' \in Tainting
           \/ main \in Waiting /\ main' \in Waiting
    PROVE  TaintsInv'
<1>1. Shapes'
  BY DEF TaintsInv, Shapes
<1>2. /\ main' = "loop" <=> main = "loop"
      /\ main' \in Tainting <=> main \in Tainting
      /\ main' \in Waiting <=> main \in Waiting
      /\ main' \in {"rollback", "cleanup"} <=> main \in {"rollback", "cleanup"}
  BY DEF Tainting, Waiting
<1>3. ASSUME NEW n \in Nodes PROVE NodeInv(n)'
  <2>1. NodeInv(n)
    BY DEF TaintsInv
  <2>2. \A a \in Callers : calls'[a][n] # NoCall => CallOK(a, n, calls[a][n])'
    BY <2>1, <1>2, ZenonT(30) DEF NodeInv, CallOK, Agrees, Effective, Changes
  <2>3. Excused(n) => Excused(n)'
    BY <1>2 DEF Excused, Running
  <2> QED BY <2>1, <2>2, <2>3, <1>2 DEF NodeInv, Agrees
<1> QED BY <1>1, <1>3 DEF TaintsInv

LEMMA NodeDeletedInductive == ASSUME TaintsInv, NEW n \in Nodes, NodeDeleted(n) PROVE TaintsInv'
<1> DEFINE object == [present |-> FALSE, keys |-> {}, cordoned |-> FALSE]
<1>1. /\ Write(n, object) /\ calls' = Outdate(calls, n)
      /\ n \in deleting /\ deleting' = deleting \ {n} /\ leaked' = leaked \ {n}
      /\ others' = [others EXCEPT ![n] = FALSE]
      /\ calls["abort"][n] = NoCall
      /\ UNCHANGED <<conf, main, chosen>>
  BY Zenon DEF NodeDeleted
<1>2. /\ calls \in [Callers -> [Nodes -> CallRecords \cup {NoCall}]]
      /\ others \in [Nodes -> BOOLEAN] /\ NodeInv(n)
  BY DEF TaintsInv, Shapes
<1>3. object \in Objects /\ object.keys = {} /\ object.cordoned = FALSE
  BY DEF Objects
<1> HIDE DEF object
<1>4. others' \in [Nodes -> BOOLEAN] /\ others'[n] = FALSE /\ \A m \in Nodes \ {n} : others'[m] = others[m]
  BY <1>1, <1>2
<1>5. /\ Shapes'
      /\ node'[n] = object /\ Agrees(lister[n], n)'
      /\ \A b \in Callers : calls[b][n] = NoCall => calls'[b][n] = NoCall
      /\ \A b \in Callers : calls[b][n] # NoCall =>
           /\ calls[b][n] \in CallRecords
           /\ calls'[b][n] = Stale(calls[b][n])
           /\ calls'[b][n] \in CallRecords
           /\ Agrees(calls[b][n].obj, n)'
      /\ \A m \in Nodes \ {n} :
           /\ node'[m] = node[m] /\ lister'[m] = lister[m]
           /\ \A b \in Callers : calls'[b][m] = calls[b][m]
  BY <1>1, <1>2, <1>3, <1>4, OutdatedCalls, Zenon
\* only a call about the soft taint can still be under way
<1>7. ASSUME NEW b \in Callers, calls'[b][n] # NoCall PROVE CallOK(b, n, calls[b][n])'
  <2>1. calls[b][n] # NoCall /\ CallOK(b, n, calls[b][n])
    BY <1>2, <1>5, <1>7 DEF NodeInv
  <2>2. b = "main" /\ calls[b][n].key = "soft"
    <3>1. b # "abort"
      BY <1>1, <2>1
    <3>2. b # "worker"
      BY <1>1, <1>2, <2>1, Zenon DEF NodeInv, CallOK, Tainting
    <3>3. calls[b][n].key # "delete"
      BY <1>1, <2>1, <3>1, <3>2, Zenon DEF CallOK, Callers
    <3> QED BY <2>1, <3>1, <3>2, <3>3 DEF CallOK, CallRecords, Callers
  <2>3. calls[b][n] \in CallRecords
    BY <2>1 DEF CallOK
  <2>4. /\ calls'[b][n].key = "soft" /\ calls'[b][n].refresh = calls[b][n].refresh
        /\ calls'[b][n].pc = calls[b][n].pc
    <3>1. calls'[b][n] = Stale(calls[b][n])
      BY <1>5, <2>1
    <3>2. /\ Stale(calls[b][n]).key = calls[b][n].key
          /\ Stale(calls[b][n]).refresh = calls[b][n].refresh
          /\ Stale(calls[b][n]).pc = calls[b][n].pc
      BY <2>3, StaleCall, Zenon
    <3> QED BY <2>2, <3>1, <3>2, Zenon
  <2> QED BY <1>1, <1>5, <2>1, <2>2, <2>4, Zenon DEF CallOK
<1>9. NodeInv(n)'
  <2>1. /\ others'[n] <=> "other" \in node'[n].keys
        /\ "delete" \notin node'[n].keys /\ ~node'[n].cordoned
    BY <1>3, <1>4, <1>5, Zenon
  <2>2. main \in Waiting => n \notin chosen
    BY <1>1, <1>2 DEF NodeInv, Waiting
  <2> QED BY <2>1, <2>2, <1>1, <1>5, <1>7 DEF NodeInv
<1>10. ASSUME NEW m \in Nodes, m # n PROVE NodeInv(m)'
  BY <1>10, <1>1, <1>4, <1>5, UntouchedNode, Zenon DEF TaintsInv
<1> QED BY <1>5, <1>9, <1>10, Zenon DEF TaintsInv

(* A call that begins: from the object of the lister, for a caller who may *)
(* call for this.                                                          *)
LEMMA CallBegins ==
    ASSUME TaintsInv, NEW a \in Callers, NEW n \in Nodes,
           NEW op \in {"add", "clean"}, NEW key \in {"delete", "soft"},
           calls' = [calls EXCEPT ![a][n] = Call(op, key, lister[n])],
           UNCHANGED <<conf, node, lister, main, deleting, leaked, others>>,
           \/ chosen' = chosen
           \/ a = "main" /\ main \in {"rollback", "cleanup"} /\ chosen' = chosen \ {n},
           a # "worker",
           a = "abort" => n \in deleting /\ op = "clean" /\ key = "delete",
           a = "main" /\ key = "soft" => main = "loop",
           a = "main" /\ key = "delete" => main \in {"rollback", "cleanup"} /\ n \notin deleting /\ op = "clean"
    PROVE  TaintsInv'
<1> DEFINE call == Call(op, key, lister[n])
<1>1. /\ calls \in [Callers -> [Nodes -> CallRecords \cup {NoCall}]]
      /\ lister[n] \in Copies /\ NodeInv(n)
  BY DEF TaintsInv, Shapes
<1>2. /\ call \in CallRecords /\ call.pc = "update" /\ call.op = op /\ call.key = key
      /\ call.obj = lister[n] /\ call.refresh = FALSE
  BY <1>1 DEF CallRecords, Call
<1>3. calls' = [calls EXCEPT ![a][n] = call] /\ call' = call
  BY DEF Call
<1> HIDE DEF call
<1>4. /\ calls' \in [Callers -> [Nodes -> CallRecords \cup {NoCall}]]
      /\ calls'[a][n] = call
      /\ \A b \in Callers : \A m \in Nodes : b # a \/ m # n => calls'[b][m] = calls[b][m]
  BY <1>1, <1>2, <1>3
<1>5. Shapes'
  BY <1>4 DEF TaintsInv, Shapes
<1>6. ASSUME NEW b \in Callers, calls'[b][n] # NoCall PROVE CallOK(b, n, calls[b][n])'
  <2>1. CASE b = a
    <3>1. Agrees(call.obj, n)'
      BY <1>1, <1>2, <1>3 DEF NodeInv, Agrees
    <3>2. Effective(call, n)'
      BY <1>2, <1>3 DEF Effective
    <3>3. CallOK(a, n, call)'
      BY <1>2, <1>3, <3>1, <3>2 DEF CallOK
    <3> QED BY <2>1, <1>3, <1>4, <3>3
  <2>2. CASE b # a
    <3>1. calls'[b][n] = calls[b][n] /\ CallOK(b, n, calls[b][n])
      BY <1>1, <1>4, <1>6, <2>2 DEF NodeInv
    <3>2. b = "worker" => chosen' = chosen
      BY <3>1 DEF CallOK, Tainting
    <3> QED BY <3>1, <3>2, Zenon DEF CallOK, Agrees, Effective, Changes
  <2> QED BY <2>1, <2>2
<1>7. Excused(n) => Excused(n)'
  BY <1>2, <1>4 DEF Excused, Running, Callers
<1>8. NodeInv(n)'
  BY <1>1, <1>6, <1>7 DEF NodeInv, Agrees, Waiting
<1>9. ASSUME NEW m \in Nodes, m # n PROVE NodeInv(m)'
  <2>1. m \in chosen' <=> m \in chosen
    BY <1>9
  <2> QED BY <2>1, <1>4, <1>9, UntouchedNode DEF TaintsInv
<1> QED BY <1>5, <1>8, <1>9 DEF TaintsInv

(* A call whose caller takes note of its end. *)
LEMMA CallEnds ==
    ASSUME TaintsInv, NEW a \in Callers, NEW n \in Nodes, calls[a][n].pc \in {"ok", "error"},
           calls' = [calls EXCEPT ![a][n] = NoCall],
           UNCHANGED <<conf, node, lister, main, chosen, leaked, others>>,
           \/ a = "main" /\ deleting' = deleting
           \/ a = "abort" /\ deleting' = deleting \ {n}
    PROVE  TaintsInv'
<1>1. /\ calls \in [Callers -> [Nodes -> CallRecords \cup {NoCall}]]
      /\ NodeInv(n) /\ calls[a][n] # NoCall /\ CallOK(a, n, calls[a][n])
  BY NoCallIsNone DEF TaintsInv, Shapes, NodeInv
<1>2. /\ calls' \in [Callers -> [Nodes -> CallRecords \cup {NoCall}]]
      /\ calls'[a][n] = NoCall
      /\ \A b \in Callers : \A m \in Nodes : b # a \/ m # n => calls'[b][m] = calls[b][m]
  BY <1>1
<1>3. Shapes'
  BY <1>2 DEF TaintsInv, Shapes
<1>4. ASSUME NEW b \in Callers, calls'[b][n] # NoCall PROVE CallOK(b, n, calls[b][n])'
  <2>1. b # a /\ calls'[b][n] = calls[b][n] /\ CallOK(b, n, calls[b][n])
    BY <1>1, <1>2, <1>4, Zenon DEF NodeInv
  <2> QED BY <2>1 DEF CallOK, Agrees, Effective, Changes
<1>5. "delete" \in node[n].keys => Excused(n)'
  <2>1. CASE a = "main"
    <3>1. ~Running("main", n)
      BY <2>1 DEF Running
    <3> QED BY <1>1, <2>1, <3>1 DEF NodeInv, Excused
  <2>2. CASE a = "abort"
    <3>1. calls[a][n].pc = "ok" => "delete" \notin node[n].keys
      BY <1>1, <2>2 DEF CallOK, Effective
    <3>2. calls[a][n].pc = "error" => n \in leaked
      BY <1>1, <2>2 DEF CallOK
    <3> QED BY <3>1, <3>2 DEF Excused
  <2> QED BY <2>1, <2>2
<1>6. NodeInv(n)'
  BY <1>1, <1>4, <1>5 DEF NodeInv, Agrees
<1>7. ASSUME NEW m \in Nodes, m # n PROVE NodeInv(m)'
  BY <1>2, <1>7, UntouchedNode DEF TaintsInv
<1> QED BY <1>3, <1>6, <1>7 DEF TaintsInv

-----------------------------------------------------------------------------
(* The steps of the main loop that change its phase or the nodes it works on. *)

(* What is left to show of a step that neither writes an object nor moves  *)
(* a call: every call that stays is still in order, and who is marked is   *)
(* still excused.                                                          *)
LEMMA LoopMoves ==
    ASSUME TaintsInv, UNCHANGED <<conf, node, lister, others>>,
           calls' \in [Callers -> [Nodes -> CallRecords \cup {NoCall}]],
           \A n \in Nodes : \A a \in Callers : calls'[a][n] # NoCall => CallOK(a, n, calls[a][n])',
           \A n \in Nodes : main' \in Waiting /\ n \in chosen' => "delete" \in node[n].keys,
           \A n \in Nodes : main' # "loop" => ~(n \in chosen' /\ n \in deleting'),
           \A n \in Nodes : "delete" \in node[n].keys => Excused(n)'
    PROVE  TaintsInv'
<1>1. Shapes'
  BY DEF TaintsInv, Shapes
<1>2. ASSUME NEW n \in Nodes PROVE NodeInv(n)'
  BY Zenon DEF TaintsInv, NodeInv, Agrees
<1> QED BY <1>1, <1>2, Zenon DEF TaintsInv

LEMMA StartTaintingInductive ==
    ASSUME TaintsInv, NEW S \in SUBSET Offered, Idle("main"), StartTainting(S)
    PROVE  TaintsInv'
<1> DEFINE started(n) == Call("add", "delete", lister[n])
<1>1. /\ main = "loop" /\ chosen' = S /\ main' \in Tainting
      /\ calls' = [calls EXCEPT !["worker"] = [n \in Nodes |-> IF n \in S THEN started(n) ELSE NoCall]]
      /\ UNCHANGED <<conf, node, lister, deleting, leaked, others>>
  BY DEF StartTainting, Tainting
<1>2. /\ calls \in [Callers -> [Nodes -> CallRecords \cup {NoCall}]]
      /\ lister \in [Nodes -> Copies]
      /\ \A n \in Nodes : NodeInv(n)
  BY DEF TaintsInv, Shapes
<1>3. ASSUME NEW n \in Nodes
      PROVE  /\ started(n) \in CallRecords /\ started(n).pc = "update" /\ started(n).op = "add"
             /\ started(n).key = "delete" /\ started(n).obj = lister[n] /\ started(n).refresh = FALSE
             /\ started(n)' = started(n)
  BY <1>1, <1>2, Zenon DEF CallRecords, Call
<1> HIDE DEF started
<1>4. /\ calls' \in [Callers -> [Nodes -> CallRecords \cup {NoCall}]]
      /\ \A n \in Nodes : calls'["worker"][n] = IF n \in S THEN started(n) ELSE NoCall
      /\ \A a \in Callers \ {"worker"} : calls'[a] = calls[a]
  BY <1>1, <1>2, <1>3, Zenon DEF Callers
<1>5. ASSUME NEW n \in Nodes, NEW a \in Callers, calls'[a][n] # NoCall PROVE CallOK(a, n, calls[a][n])'
  <2>1. CASE a = "worker"
    <3>1. n \in S /\ calls'[a][n] = started(n)
      BY <1>4, <1>5, <2>1
    <3>2. Agrees(started(n).obj, n)'
      <4>1. Agrees(lister[n], n)
        BY <1>2 DEF NodeInv
      <4>2. Agrees(lister[n], n)'
        BY <1>1, <4>1 DEF Agrees
      <4>3. started(n)'.obj = lister'[n]
        BY <1>1, <1>3, Zenon
      <4> QED BY <4>2, <4>3
    <3>3. Effective(started(n), n)'
      BY <1>3, Zenon DEF Effective
    <3>4. CallOK(a, n, started(n))'
      BY <1>1, <1>3, <2>1, <3>1, <3>2, <3>3, Zenon DEF CallOK
    <3> QED BY <1>3, <3>1, <3>4, Zenon
  <2>2. CASE a # "worker"
    <3>1. a = "abort" /\ calls'[a][n] = calls[a][n]
      BY <1>4, <1>5, <2>2 DEF Idle, Callers
    <3>2. CallOK(a, n, calls[a][n])
      BY <1>2, <1>5, <3>1 DEF NodeInv
    <3> QED BY <1>1, <3>1, <3>2, Zenon DEF CallOK, Agrees, Effective, Changes
  <2> QED BY <2>1, <2>2
<1>6. ASSUME NEW n \in Nodes
      PROVE  /\ ~(n \in chosen' /\ n \in deleting')
             /\ "delete" \in node[n].keys => Excused(n)'
  <2>1. n \in S => n \notin deleting
    BY DEF Offered
  <2>2. "delete" \in node[n].keys => n \in deleting \cup leaked
    BY <1>1, <1>2, Zenon DEF NodeInv, Excused, Tainting, Waiting
  <2> QED BY <1>1, <2>1, <2>2 DEF Excused
<1>7. main' \notin Waiting
  BY <1>1 DEF Tainting, Waiting
<1> QED BY <1>1, <1>4, <1>5, <1>6, <1>7, LoopMoves, Zenon

LEMMA TaintingDoneInductive == ASSUME TaintsInv, TaintingDone PROVE TaintsInv'
<1>1. /\ main = "taint" /\ \A n \in chosen : calls["worker"][n].pc \in {"ok", "error"}
      /\ chosen' = Tainted
      /\ main' \in Waiting => Tainted = chosen
      /\ main' \in Waiting \cup {"rollback"}
      /\ calls' = [calls EXCEPT !["worker"] = [n \in Nodes |-> NoCall]]
      /\ UNCHANGED <<conf, node, lister, deleting, leaked, others>>
  BY DEF TaintingDone, Waiting
<1>2. /\ calls \in [Callers -> [Nodes -> CallRecords \cup {NoCall}]]
      /\ \A n \in Nodes : NodeInv(n)
  BY DEF TaintsInv, Shapes
<1>3. /\ calls' \in [Callers -> [Nodes -> CallRecords \cup {NoCall}]]
      /\ \A n \in Nodes : calls'["worker"][n] = NoCall
      /\ \A a \in Callers \ {"worker"} : calls'[a] = calls[a]
  BY <1>1, <1>2 DEF Callers
<1>4. ASSUME NEW n \in Nodes, NEW a \in Callers, calls'[a][n] # NoCall PROVE CallOK(a, n, calls[a][n])'
  <2>1. a # "worker" /\ calls'[a][n] = calls[a][n]
    BY <1>3, <1>4
  <2>2. CallOK(a, n, calls[a][n])
    BY <1>2, <1>4, <2>1, Zenon DEF NodeInv
  <2>3. a = "abort"
    BY <1>1, <2>1, <2>2 DEF CallOK, CallRecords, Callers
  <2> QED BY <1>1, <2>1, <2>2, <2>3, Zenon DEF CallOK, Agrees, Effective, Changes
<1>5. ASSUME NEW n \in Nodes, n \in chosen
      PROVE  /\ n \in Tainted => "delete" \in node[n].keys
             /\ n \notin Tainted => n \in leaked
             /\ n \notin deleting
  <2>1. "worker" \in Callers /\ calls["worker"][n] # NoCall
    BY <1>1, <1>5, NoCallIsNone DEF Callers
  <2>2. CallOK("worker", n, calls["worker"][n]) /\ n \notin deleting
    BY <1>1, <1>2, <1>5, <2>1, Zenon DEF NodeInv
  <2>3. calls["worker"][n].op = "add" /\ calls["worker"][n].key = "delete"
    BY <2>2 DEF CallOK
  <2>4. calls["worker"][n].pc = "ok" => "delete" \in node[n].keys
    BY <2>2, <2>3 DEF CallOK, Effective
  <2>5. calls["worker"][n].pc = "error" => n \in leaked
    BY <2>2, <2>3 DEF CallOK
  <2> QED BY <1>1, <1>5, <2>2, <2>4, <2>5 DEF Tainted
<1>6. Tainted \subseteq chosen
  BY DEF Tainted
<1>7. ASSUME NEW n \in Nodes, "delete" \in node[n].keys PROVE Excused(n)'
  <2>1. n \in deleting \cup leaked \/ n \in chosen
    BY <1>1, <1>2, <1>7 DEF NodeInv, Excused
  <2>2. n \in deleting \cup leaked \/ n \in Tainted
    BY <1>5, <2>1
  <2> QED BY <1>1, <2>2 DEF Excused
<1> QED BY <1>1, <1>3, <1>4, <1>5, <1>6, <1>7, LoopMoves

(* The phases that end in the loop: with nothing chosen any more, or with  *)
(* every chosen node accounted for otherwise.                              *)
LEMMA BackToTheLoop ==
    ASSUME TaintsInv, main # "loop", main' = "loop", main \notin Tainting,
           main \notin Waiting => Idle("main"),
           UNCHANGED <<conf, node, lister, calls, others>>,
           deleting \subseteq deleting', leaked \subseteq leaked', chosen \subseteq deleting' \cup leaked'
    PROVE  TaintsInv'
<1>1. /\ calls \in [Callers -> [Nodes -> CallRecords \cup {NoCall}]]
      /\ \A n \in Nodes : NodeInv(n)
  BY DEF TaintsInv, Shapes
<1>2. ASSUME NEW n \in Nodes, NEW a \in Callers, calls'[a][n] # NoCall PROVE CallOK(a, n, calls[a][n])'
  <2>1. calls'[a][n] = calls[a][n] /\ CallOK(a, n, calls[a][n])
    BY <1>1, <1>2, Zenon DEF NodeInv
  <2>2. a # "worker"
    BY <2>1, Zenon DEF CallOK
  <2>3. a # "main"
    <3>1. SUFFICES ASSUME a = "main" PROVE FALSE
      OBVIOUS
    <3>2. main \in Waiting
      BY <1>2, <3>1 DEF Idle
    <3>3. main \notin {"loop", "rollback", "cleanup"}
      BY <3>2 DEF Waiting
    <3> QED BY <2>1, <3>1, <3>3 DEF CallOK, CallRecords
  <2>4. a = "abort" /\ n \in deleting' /\ (n \in leaked => n \in leaked')
    BY <2>1, <2>2, <2>3 DEF CallOK, Callers
  <2> QED BY <2>1, <2>4, Zenon DEF CallOK, Agrees, Effective, Changes
<1>3. ASSUME NEW n \in Nodes, "delete" \in node[n].keys PROVE Excused(n)'
  <2>1. Excused(n)
    BY <1>1, <1>3 DEF NodeInv
  <2>2. Running("main", n) => n \in chosen \/ main \in Waiting
    BY NoCallIsNone DEF Idle, Running
  <2>3. main \in Waiting => main \notin {"rollback", "cleanup"}
    BY DEF Waiting
  <2>4. n \in deleting \cup leaked \/ n \in chosen
    BY <2>1, <2>2, <2>3 DEF Excused
  <2> QED BY <2>4 DEF Excused
<1>4. main' \notin Waiting
  BY DEF Waiting
<1> QED BY <1>1, <1>2, <1>3, <1>4, LoopMoves

LEMMA CrashInductive == ASSUME TaintsInv, Crash PROVE TaintsInv'
<1>1. /\ lister' = [n \in Nodes |-> Copy(node[n], TRUE)]
      /\ main' = "cleanup" /\ chosen' = {n \in Nodes : "delete" \in node[n].keys}
      /\ deleting' = {} /\ leaked' = {}
      /\ calls' = [a \in Callers |-> [n \in Nodes |-> NoCall]]
      /\ UNCHANGED <<conf, node, others>>
  BY DEF Crash
<1>2. node \in [Nodes -> Objects] /\ \A n \in Nodes : NodeInv(n)
  BY DEF TaintsInv, Shapes
<1>3. \A n \in Nodes : lister'[n] = Copy(node[n], TRUE) /\ lister'[n] \in Copies
  BY <1>1, <1>2, FreshCopy, Zenon
<1>4. Shapes'
  <2>1. lister' \in [Nodes -> Copies]
    BY <1>1, <1>3, Zenon
  <2>2. calls' \in [Callers -> [Nodes -> CallRecords \cup {NoCall}]]
    BY <1>1
  <2> QED BY <1>1, <2>1, <2>2, Zenon DEF TaintsInv, Shapes
<1>5. ASSUME NEW n \in Nodes PROVE NodeInv(n)'
  <2>1. Agrees(lister[n], n)'
    BY <1>1, <1>2, <1>3, FreshCopy, Zenon DEF Agrees
  <2>2. \A a \in Callers : calls'[a][n] = NoCall
    BY <1>1
  <2>3. /\ others'[n] <=> "other" \in node'[n].keys
        /\ node'[n].cordoned => conf'.cordon /\ "delete" \in node'[n].keys
    BY <1>1, <1>2 DEF NodeInv
  <2>4. "delete" \in node'[n].keys => Excused(n)'
    BY <1>1 DEF Excused
  <2> QED BY <1>1, <2>1, <2>2, <2>3, <2>4, Zenon DEF NodeInv, Waiting
<1> QED BY <1>4, <1>5 DEF TaintsInv

LEMMA TaintsInductive == TaintsInv /\ [TaintsNext]_taintVars => TaintsInv'
<1> SUFFICES ASSUME TaintsInv, [TaintsNext]_taintVars PROVE TaintsInv'
  OBVIOUS
<1>1. CASE MainStep
  <2>1. CASE TaintingDone
    BY <2>1, TaintingDoneInductive
  <2>2. CASE RolledBack
    <3>1. /\ main = "rollback" /\ chosen = {} /\ Idle("main") /\ main' = "loop"
          /\ UNCHANGED <<conf, node, lister, calls, others, deleting, leaked>>
      BY <2>2 DEF RolledBack
    <3> QED BY <3>1, BackToTheLoop DEF Tainting
  <2>3. CASE Await
    BY <2>3, SamePhase DEF Await, Waiting
  <2>4. CASE Result
    BY <2>4, SamePhase DEF Result, Waiting
  <2>5. CASE StartDeletions
    <3>1. /\ main = "tainted" /\ main' = "loop" /\ deleting' = deleting \cup chosen
          /\ UNCHANGED <<conf, node, lister, calls, others, leaked>>
      BY <2>5 DEF StartDeletions
    <3> QED BY <3>1, BackToTheLoop DEF Tainting, Waiting
  <2>6. CASE CleanedUp
    <3>1. /\ main = "cleanup" /\ chosen = {} /\ Idle("main") /\ main' = "loop"
          /\ UNCHANGED <<conf, node, lister, calls, others, deleting, leaked>>
      BY <2>6 DEF CleanedUp
    <3> QED BY <3>1, BackToTheLoop DEF Tainting
  <2>7. ASSUME NEW n \in Nodes, Announce(n) PROVE TaintsInv'
    BY <2>7, SamePhase DEF Announce, Tainting
  <2>8. ASSUME NEW n \in Nodes, Rollback(n) \/ CleanUp(n) PROVE TaintsInv'
    <3>1. /\ main \in {"rollback", "cleanup"} /\ n \in chosen
          /\ calls' = [calls EXCEPT !["main"][n] = Call("clean", "delete", lister[n])]
          /\ chosen' = chosen \ {n}
          /\ UNCHANGED <<conf, node, lister, main, deleting, leaked, others>>
      BY <2>8 DEF Rollback, CleanUp
    <3>2. n \notin deleting
      BY <3>1 DEF TaintsInv, NodeInv
    <3>3. "main" \in Callers
      BY DEF Callers
    <3> QED BY <3>1, <3>2, <3>3, CallBegins, Zenon
  <2>9. ASSUME NEW n \in Nodes, MainCallReturns(n) PROVE TaintsInv'
    <3>1. "main" \in Callers
      BY DEF Callers
    <3> QED BY <2>9, <3>1, CallEnds, Zenon DEF MainCallReturns
  <2> QED BY <1>1, <2>1, <2>2, <2>3, <2>4, <2>5, <2>6, <2>7, <2>8, <2>9 DEF MainStep
<1>2. CASE TrackerStep
  BY <1>2, SamePhase DEF TrackerStep, UpdateFinishTime, TrackerStops
<1>3. CASE Crash
  BY <1>3, CrashInductive
<1>4. CASE CleanUpFails
  <2>1. /\ main = "cleanup" /\ Idle("main") /\ main' = "loop" /\ leaked' = leaked \cup chosen
        /\ UNCHANGED <<conf, node, lister, calls, others, deleting>>
    BY <1>4 DEF CleanUpFails
  <2> QED BY <2>1, BackToTheLoop DEF Tainting
<1>5. CASE Idle("main") /\ \E S \in SUBSET Offered : S # {} /\ StartTainting(S)
  BY <1>5, StartTaintingInductive
<1>6. ASSUME NEW n \in Nodes, NodeDeleted(n) \/ Edit(n) \/ Deliver(n) PROVE TaintsInv'
  BY <1>6, NodeDeletedInductive, EditInductive, DeliverInductive
<1>7. ASSUME NEW n \in Nodes, AbortDeletion(n) PROVE TaintsInv'
  <2>1. "abort" \in Callers
    BY DEF Callers
  <2> QED BY <1>7, <2>1, CallBegins, Zenon DEF AbortDeletion
<1>8. ASSUME NEW n \in Nodes, EndDeletion(n) PROVE TaintsInv'
  <2>1. "abort" \in Callers
    BY DEF Callers
  <2> QED BY <1>8, <2>1, CallEnds, Zenon DEF EndDeletion
<1>9. ASSUME NEW n \in Nodes, NEW op \in {"add", "clean"}, UpdateSoftTaint(n, op) PROVE TaintsInv'
  <2>1. "main" \in Callers
    BY DEF Callers
  <2>2. /\ main = "loop" /\ calls' = [calls EXCEPT !["main"][n] = Call(op, "soft", lister[n])]
        /\ UNCHANGED <<conf, node, lister, main, chosen, deleting, leaked, others>>
    BY <1>9 DEF UpdateSoftTaint
  <2> QED BY <2>1, <2>2, CallBegins, Zenon
<1>10. CASE WorkerStep
  BY <1>10, CallStepsThatRead, UpdateWrites DEF WorkerStep, CallStep
<1>11. CASE UNCHANGED taintVars
  BY <1>11, SamePhase DEF taintVars
<1> QED BY <1>1, <1>2, <1>3, <1>4, <1>5, <1>6, <1>7, <1>8, <1>9, <1>10, <1>11 DEF TaintsNext

LEMMA TaintsStart == TaintsInit => TaintsInv
<1> SUFFICES ASSUME TaintsInit PROVE TaintsInv
  OBVIOUS
<1>1. /\ node = [n \in Nodes |-> [present |-> TRUE, keys |-> {}, cordoned |-> FALSE]]
      /\ lister = [n \in Nodes |-> Copy(node[n], TRUE)]
      /\ main = "loop" /\ chosen = {} /\ deleting = {} /\ leaked = {}
      /\ calls = [a \in Callers |-> [n \in Nodes |-> NoCall]]
      /\ others = [n \in Nodes |-> FALSE]
  BY DEF TaintsInit
<1>2. \A n \in Nodes : node[n] \in Objects /\ node[n].keys = {} /\ node[n].cordoned = FALSE
  BY <1>1 DEF Objects
<1>3. \A n \in Nodes : lister[n] = Copy(node[n], TRUE) /\ lister[n] \in Copies
  BY <1>1, <1>2, FreshCopy, Zenon
<1>4. Shapes
  <2>1. node \in [Nodes -> Objects]
    BY <1>1, <1>2
  <2>2. lister \in [Nodes -> Copies]
    BY <1>1, <1>3, Zenon
  <2>3. calls \in [Callers -> [Nodes -> CallRecords \cup {NoCall}]]
    BY <1>1
  <2>4. others \in [Nodes -> BOOLEAN]
    BY <1>1
  <2> QED BY <2>1, <2>2, <2>3, <2>4 DEF Shapes
<1>5. ASSUME NEW n \in Nodes PROVE NodeInv(n)
  <2>1. Agrees(lister[n], n)
    BY <1>2, <1>3, FreshCopy, Zenon DEF Agrees
  <2>2. \A a \in Callers : calls[a][n] = NoCall
    BY <1>1
  <2>3. others[n] = FALSE
    BY <1>1
  <2> QED BY <1>1, <1>2, <2>1, <2>2, <2>3, Zenon DEF NodeInv
<1> QED BY <1>4, <1>5 DEF TaintsInv

LEMMA TaintsAlways == TaintsSpec => []TaintsInv
BY TaintsStart, TaintsInductive, PTL DEF TaintsSpec

LEMMA ChosenAreNodes == TaintsSpec => [](chosen \subseteq Nodes)
<1>1. TaintsInit => chosen \subseteq Nodes
  BY DEF TaintsInit
<1>2. chosen \subseteq Nodes /\ [TaintsNext]_taintVars => (chosen \subseteq Nodes)'
  <2> SUFFICES ASSUME chosen \subseteq Nodes, [TaintsNext]_taintVars PROVE chosen' \subseteq Nodes
    OBVIOUS
  <2>1. CASE MainStep
    BY <2>1 DEF MainStep, TaintingDone, Tainted, RolledBack, Await, Result, StartDeletions, CleanedUp,
                Announce, Rollback, MainCallReturns, CleanUp
  <2>2. CASE \E S \in SUBSET Offered : StartTainting(S)
    BY <2>2 DEF StartTainting, Offered
  <2>3. CASE TrackerStep \/ Crash \/ CleanUpFails
    BY <2>3, Zenon DEF TrackerStep, UpdateFinishTime, TrackerStops, Crash, CleanUpFails
  <2>4. CASE WorkerStep
    <3>1. PICK n \in Nodes, a \in Callers : CallStep(a, n)
      BY <2>4 DEF WorkerStep
    <3>2. CASE GetNode(a, n) \/ GetFails(a, n) \/ NothingToDo(a, n)
      BY <3>2, Zenon DEF GetNode, GetFails, NothingToDo
    <3>3. CASE Update(a, n)
      BY <3>3, Zenon DEF Update
    <3>4. CASE UpdateFails(a, n)
      BY <3>4, Zenon DEF UpdateFails
    <3> QED BY <3>1, <3>2, <3>3, <3>4 DEF CallStep
  <2>5. ASSUME NEW n \in Nodes,
               \/ NodeDeleted(n) \/ AbortDeletion(n) \/ EndDeletion(n) \/ Edit(n) \/ Deliver(n)
               \/ \E op \in {"add", "clean"} : UpdateSoftTaint(n, op)
        PROVE  chosen' = chosen
    BY <2>5, Zenon DEF NodeDeleted, AbortDeletion, EndDeletion, UpdateSoftTaint, Edit, Deliver
  <2>6. CASE UNCHANGED taintVars
    BY <2>6 DEF taintVars
  <2> QED BY <2>1, <2>2, <2>3, <2>4, <2>5, <2>6 DEF TaintsNext
<1> QED BY <1>1, <1>2, PTL DEF TaintsSpec

(* AddTaints and CleanTaints (taints.go): however the updates of workers,  *)
(* aborted deletions, the main loop and other components interleave with   *)
(* lost answers, conflicts and restarts, a taintNodesSync that returns     *)
(* without an error has tainted each of its nodes on the API server, and   *)
(* no taint of another component is lost.                                  *)
THEOREM UpdatesAreEffective == TaintsSpec => []UpdatesTakeEffect
<1>1. TaintsInv /\ chosen \subseteq Nodes => UpdatesTakeEffect
  <2> SUFFICES ASSUME TaintsInv, chosen \subseteq Nodes PROVE UpdatesTakeEffect
    OBVIOUS
  <2>1. OthersKept
    BY DEF OthersKept, TaintsInv, NodeInv
  <2>2. TaintedBeforeDeletion
    BY DEF TaintedBeforeDeletion, TaintsInv, NodeInv, Waiting
  <2> QED BY <2>1, <2>2 DEF UpdatesTakeEffect
<1> QED BY <1>1, TaintsAlways, ChosenAreNodes, PTL

(* Once no call is under way, a node carries the hard taint or the cordon  *)
(* only if it is being deleted or the call that had to clean it failed:    *)
(* rollbacks, aborted deletions and the clean-up after a restart together  *)
(* leave no usable node marked, on any number of nodes.                    *)
THEOREM MarksAreLifted == TaintsSpec => []NoMarkLeft
<1>1. TaintsInv => NoMarkLeft
  <2> SUFFICES ASSUME TaintsInv, main = "loop", NEW n \in Nodes \ (deleting \cup leaked)
               PROVE  ~Marked(n)
    BY DEF NoMarkLeft
  <2>1. NodeInv(n)
    BY DEF TaintsInv
  <2>2. ~Excused(n)
    BY DEF Excused, Tainting, Waiting
  <2> QED BY <2>1, <2>2 DEF NodeInv, Marked
<1> QED BY <1>1, TaintsAlways, PTL
=============================================================================
